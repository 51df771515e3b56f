---------------------------- MODULE MCSignalsUnit ---------------------------
(* Byte writes to every register, a write that spans the boot address and  *)
(* the trigger, reads, an access past the end of the register file, and    *)
(* memory writes, the last of them past the end.                           *)
EXTENDS SignalsUnit

ByteWrites(c, offsets) ==
    {[core |-> c, is_read |-> FALSE, offset |-> k, data |-> <<v>>] :
        k \in offsets, v \in 0 .. 1}

MCAccesses ==
    ByteWrites("RiscV", {LINE, BOOT_ADDRESS_OFFSET + 1, SYSTEM_BUS_TRIGGER_OFFSET})
    \cup ByteWrites("Arm", {BOOT_ADDRESS_OFFSET + 1, SYSTEM_BUS_TRIGGER_OFFSET})
    \cup {[core |-> "RiscV", is_read |-> FALSE, offset |-> BOOT_ADDRESS_OFFSET + 1,
           data |-> <<0, 1>>],
          [core |-> "Arm", is_read |-> TRUE, offset |-> SYSTEM_RESET_REQUEST_OFFSET,
           data |-> <<0>>],
          [core |-> "RiscV", is_read |-> FALSE, offset |-> CONTROL_SIZE - 1,
           data |-> <<1, 1>>],
          [core |-> "RiscV", is_read |-> FALSE, offset |-> CONTROL_SIZE, data |-> <<1>>],
          [core |-> "Arm", is_read |-> FALSE, offset |-> CONTROL_SIZE, data |-> <<1, 1>>]}
=============================================================================
