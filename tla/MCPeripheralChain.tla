------------------------- MODULE MCPeripheralChain --------------------------
(* Three peripherals in a ring, as the platform file connects them.        *)
EXTENDS PeripheralChain

CONSTANTS A, B, C

MCNode == {A, B, C}
MCSucc == [n \in MCNode |-> CASE n = A -> B [] n = B -> C [] n = C -> A]
OnlyA == {A}
=============================================================================
