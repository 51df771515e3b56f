---------------------------- MODULE MCInterrupts ----------------------------
(* The two interrupters of both examples.                                  *)
EXTENDS Interrupts

TopIntervals == [i \in Interrupter |-> IF i = 0 THEN 1 ELSE 3]
=============================================================================
