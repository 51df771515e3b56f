------------------------------- MODULE ScFifo -------------------------------
(***************************************************************************)
(* The SystemC channel sc_fifo<T> as the peripherals use it (the channel   *)
(* itself belongs to the SystemC library).  Reads and writes take effect   *)
(* for the other side only at the update phase that ends a delta cycle:    *)
(* an element written in this delta cannot be read in it, and the place    *)
(* of an element read in this delta cannot be filled in it.                *)
(*                                                                         *)
(*   q    elements written and not yet read, oldest first                  *)
(*   wr   how many of them (the newest) were written in this delta         *)
(*   rd   how many elements were read in this delta                        *)
(***************************************************************************)
EXTENDS Naturals, Sequences

EmptyFifo == [q |-> <<>>, wr |-> 0, rd |-> 0]

ScFifoOf(T) == [q : Seq(T), wr : Nat, rd : Nat]

NumAvailable(f) == Len(f.q) - f.wr

NumFree(f, size) == size - (Len(f.q) + f.rd)

Written(f, v) == [q |-> Append(f.q, v), wr |-> f.wr + 1, rd |-> f.rd]

Taken(f) == [q |-> Tail(f.q), wr |-> f.wr, rd |-> f.rd + 1]

Committed(f) == [q |-> f.q, wr |-> 0, rd |-> 0]

UpdateRequested(f) == f.wr > 0 \/ f.rd > 0
=============================================================================
