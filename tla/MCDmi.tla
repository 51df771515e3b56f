-------------------------------- MODULE MCDmi --------------------------------
(* Two bytes of memory and a done register of two.  Byte writes as         *)
(* AssembleBlock makes them, a wider access, one that straddles memory and *)
(* done register, stores to and a read of the done register, and a store   *)
(* past its end.                                                           *)
EXTENDS Dmi

MCAccesses ==
    {[is_write |-> w, address |-> a, length |-> l] :
        <<w, a, l>> \in {<<TRUE, 0, 1>>, <<FALSE, 0, 2>>, <<TRUE, 1, 2>>, <<TRUE, 2, 2>>,
                         <<FALSE, 3, 1>>, <<TRUE, 3, 2>>, <<TRUE, 4, 1>>}}
=============================================================================
