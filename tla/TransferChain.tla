---------------------------- MODULE TransferChain ---------------------------
(***************************************************************************)
(* What the chain of peripherals promises, without its FIFOs, processes    *)
(* and remote calls.  Every node that has been started emits the bytes     *)
(* 0 .. N-1 in order; its successor stores byte k only after byte k was    *)
(* emitted; the node after that has byte k written into it only after its  *)
(* predecessor stored byte k; and a node interrupts only when all N bytes  *)
(* have been written into it.  Nothing is lost, duplicated or reordered,   *)
(* because each stage is a counter that follows the one before it.         *)
(***************************************************************************)
EXTENDS Naturals

CONSTANTS Node,  \* the peripherals
          Succ,  \* Succ[n] is the peripheral n's DMA and FIFO lead to
          N      \* memory.size()

VARIABLES emitted, stored, written, interrupted

chainVars == <<emitted, stored, written, interrupted>>

ChainInit ==
    /\ emitted = [n \in Node |-> 0]
    /\ stored = [n \in Node |-> 0]
    /\ written = [n \in Node |-> 0]
    /\ interrupted = [n \in Node |-> FALSE]

Emit(n) ==
    /\ emitted[n] < N
    /\ emitted' = [emitted EXCEPT ![n] = @ + 1]
    /\ UNCHANGED <<stored, written, interrupted>>

Store(p) ==
    LET n == Succ[p] IN
    /\ stored[n] < emitted[p]
    /\ stored' = [stored EXCEPT ![n] = @ + 1]
    /\ UNCHANGED <<emitted, written, interrupted>>

Write(p) ==
    LET n == Succ[p] IN
    /\ written[n] < stored[p]
    /\ written' = [written EXCEPT ![n] = @ + 1]
    /\ UNCHANGED <<emitted, stored, interrupted>>

Interrupt(n) ==
    /\ written[n] = N
    /\ interrupted' = [interrupted EXCEPT ![n] = TRUE]
    /\ UNCHANGED <<emitted, stored, written>>

ChainNext == \E n \in Node : Emit(n) \/ Store(n) \/ Write(n) \/ Interrupt(n)

ChainSpec == ChainInit /\ [][ChainNext]_chainVars
=============================================================================
