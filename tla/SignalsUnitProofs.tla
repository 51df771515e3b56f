-------------------------- MODULE SignalsUnitProofs --------------------------
(***************************************************************************)
(* Theorems about module SignalsUnit, for both programs and every set of   *)
(* accesses: of any length, at any offset, aligned or not.                 *)
(***************************************************************************)
EXTENDS SignalsUnit, TLAPS

(* What a write leaves on the signals is what a fresh look at the whole    *)
(* register file would put there.                                          *)
DriveInv == signal_next = [c \in Core |-> Driven(c, control_registers[c])]

(* riscv has one core.  The level Renode sent is on its way, and once hmp  *)
(* has waited it is there.                                                 *)
RequestInv ==
    /\ program = "riscv" => access.core = "RiscV"
    /\ system_reset_request_next = sent_reset_request
    /\ program = "hmp" /\ handler = "ready" => system_reset_request = sent_reset_request

(* hmp: a flag that is up is a write that is owed; somebody will wake the  *)
(* thread or it is on its way to clear the flag.                           *)
HmpTrigger ==
    \A c \in Core :
        /\ owed[c] = system_bus_write_pending[c]
        /\ system_bus_write_pending[c] =>
              event_notified \/ writer \in {"woken", "settling", "ready"}

(* riscv: the flag goes down before the write, so a write may be owed      *)
(* while it is down; and it may go up again after it, so that it may be up *)
(* with no write owed.  It is never up while the thread sleeps for good.   *)
RiscvTrigger ==
    /\ ~system_bus_write_pending["Arm"] /\ ~owed["Arm"]
    /\ system_bus_write_pending["RiscV"] => event_notified \/ writer # "event"
    /\ owed["RiscV"] => system_bus_write_pending["RiscV"] \/ writer \in {"settling", "ready"}

TriggerInv ==
    /\ program = "hmp" => HmpTrigger
    /\ program = "riscv" => RiscvTrigger

Inv == TypeOK /\ DriveInv /\ RequestInv /\ TriggerInv
-----------------------------------------------------------------------------
SignalType(c) == [line : BOOLEAN, boot : (0 .. 1) \X (IF c = "RiscV" THEN 0 .. 1 ELSE {0})]

LEMMA NoAccessType == NoAccess \in Access
<1>1. <<>> \in Seq(0 .. 1)
    OBVIOUS
<1>2. QED
    BY <1>1 DEF NoAccess, Access, Core

LEMMA DrivenType ==
    ASSUME NEW c \in Core, NEW regs \in Registers
    PROVE  Driven(c, regs) \in SignalType(c)
<1>1. /\ regs[BOOT_ADDRESS_OFFSET] \in 0 .. 1
      /\ regs[BOOT_ADDRESS_OFFSET + 1] \in 0 .. 1
    BY DEF Registers, BOOT_ADDRESS_OFFSET, CONTROL_SIZE
<1>2. <<regs[BOOT_ADDRESS_OFFSET],
        IF c = "RiscV" THEN regs[BOOT_ADDRESS_OFFSET + 1] ELSE 0>>
          \in (0 .. 1) \X (IF c = "RiscV" THEN 0 .. 1 ELSE {0})
    BY <1>1
<1>3. QED
    BY <1>2 DEF Driven, SignalType

(* The memcpy takes bytes of the payload, and only those.                  *)
LEMMA StoredType ==
    ASSUME NEW a \in Access, NEW D \in SUBSET Nat, NEW regs \in [D -> 0 .. 1]
    PROVE  /\ Stored(a, regs) \in [D -> 0 .. 1]
           /\ \A k \in D : ~overlaps(a, k, 1) => Stored(a, regs)[k] = regs[k]
<1>1. a.data \in Seq(0 .. 1) /\ a.offset \in Nat /\ Len(a.data) \in Nat
    BY DEF Access
<1>2. DOMAIN regs = D
    OBVIOUS
<1>3. ASSUME NEW k \in D, overlaps(a, k, 1)
      PROVE  a.data[k - a.offset + 1] \in 0 .. 1
    <2>1. k \in Nat /\ a.offset < k + 1 /\ k < a.offset + Len(a.data)
        BY <1>3 DEF overlaps, Length
    <2>2. k - a.offset + 1 \in 1 .. Len(a.data)
        BY <1>1, <2>1
    <2>3. QED
        BY <1>1, <2>2
<1>4. QED
    BY <1>2, <1>3 DEF Stored

(* An access that misses a range misses every byte of it.                  *)
LEMMA MissesBytes ==
    ASSUME NEW a \in Access, NEW start \in Nat, NEW size \in Nat,
           ~overlaps(a, start, size), NEW k \in start .. start + size - 1
    PROVE  ~overlaps(a, k, 1)
<1>1. a.offset \in Nat /\ Length(a) \in Nat
    BY DEF Access, Length
<1>2. QED
    BY <1>1 DEF overlaps

(* apply_control_write looks only at the ranges the access touches, which  *)
(* is enough: partial and spanning writes included.                        *)
LEMMA ApplyMirrors ==
    ASSUME NEW a \in Access, NEW regs \in Registers
    PROVE  apply_control_write(a, Stored(a, regs), Driven(a.core, regs))
               = Driven(a.core, Stored(a, regs))
<1> DEFINE new == Stored(a, regs)
<1>1. \A k \in 0 .. CONTROL_SIZE - 1 : ~overlaps(a, k, 1) => new[k] = regs[k]
    BY StoredType DEF Registers, CONTROL_SIZE
<1> HIDE DEF new
<1>2. ~overlaps(a, LINE, 1) => new[LINE] = regs[LINE]
    BY <1>1 DEF LINE, CONTROL_SIZE
<1>3. ~overlaps(a, BOOT_ADDRESS_OFFSET, BOOT_SIZE) =>
          /\ new[BOOT_ADDRESS_OFFSET] = regs[BOOT_ADDRESS_OFFSET]
          /\ new[BOOT_ADDRESS_OFFSET + 1] = regs[BOOT_ADDRESS_OFFSET + 1]
    <2> SUFFICES ASSUME ~overlaps(a, 1, 2) PROVE new[1] = regs[1] /\ new[2] = regs[2]
        BY DEF BOOT_ADDRESS_OFFSET, BOOT_SIZE
    <2>1. ~overlaps(a, 1, 1) /\ ~overlaps(a, 2, 1)
        BY MissesBytes
    <2>2. QED
        BY <1>1, <2>1 DEF CONTROL_SIZE
<1>4. QED
    BY <1>2, <1>3 DEF apply_control_write, Driven, new

(* handle_memory stores within its memory.                                 *)
LEMMA StoredMemoryType ==
    ASSUME NEW a \in Access, a.offset >= CONTROL_SIZE, NEW mem \in Memory
    PROVE  StoredMemory(MemoryOffset(a), mem) \in Memory
<1>1. MemoryOffset(a) \in Access
    BY DEF MemoryOffset, Access, CONTROL_SIZE
<1>2. Stored(MemoryOffset(a), mem) \in Memory
    BY <1>1, StoredType DEF Memory, MEMORY_SIZE
<1>3. QED
    BY <1>2 DEF StoredMemory
-----------------------------------------------------------------------------
LEMMA InitInv == Init => Inv
<1> SUFFICES ASSUME Init PROVE Inv
    OBVIOUS
<1>1. \A c \in Core : DefaultRegisters(c) \in Registers
    BY DEF DefaultRegisters, Registers, CONTROL_SIZE
<1>2. control_registers \in [Core -> Registers] /\ memory \in [Core -> Memory]
    BY <1>1 DEF Init, Memory
<1>3. DriveInv
    BY DEF Init, DriveInv
<1>4. \A c \in Core : signal_next[c] \in SignalType(c)
    BY <1>2, <1>3, DrivenType DEF DriveInv
<1>5. \A c \in Core : signal[c] \in SignalType(c)
    <2>1. <<0, 0>> \in (0 .. 1) \X (0 .. 1) /\ <<0, 0>> \in (0 .. 1) \X {0}
        OBVIOUS
    <2>2. QED
        BY <2>1 DEF Init, SignalType
<1>6. TypeOK
    BY <1>2, <1>4, <1>5 DEF Init, TypeOK, SignalType
<1>7. RequestInv /\ TriggerInv
    BY DEF Init, RequestInv, TriggerInv, HmpTrigger, RiscvTrigger, NoAccess, Core
<1>8. QED
    BY <1>3, <1>6, <1>7 DEF Inv

(* The access in progress is one of Renode's.                              *)
LEMMA AccessType == Inv => access \in Access
BY NoAccessType, AccessAssumption DEF Inv, TypeOK

(* The steps that leave registers and next values of the signals alone.    *)
LEMMA QuietSteps ==
    ASSUME [Next]_vars, ~ReadControl, ~WriteControl
    PROVE  UNCHANGED <<program, control_registers, signal_next>>
BY DEF Next, GpioUpdate, ControlAccess, MemoryAccess, Reject, WriterTop, WriterWoken,
       SystemBusWrite, UpdatePhase, vars, signalVars

LEMMA NextDrive ==
    Inv /\ [Next]_vars => control_registers' \in [Core -> Registers] /\ DriveInv'
<1> SUFFICES ASSUME Inv, [Next]_vars
             PROVE  control_registers' \in [Core -> Registers] /\ DriveInv'
    OBVIOUS
<1>1. control_registers \in [Core -> Registers] /\ access \in Access /\ access.core \in Core
    BY AccessType DEF Inv, TypeOK, Access
<1>2. CASE ReadControl
    <2>1. ASSUME NEW c \in Core
          PROVE  /\ control_registers'[c] \in Registers
                 /\ \A k \in {LINE, BOOT_ADDRESS_OFFSET, BOOT_ADDRESS_OFFSET + 1} :
                       control_registers'[c][k] = control_registers[c][k]
        BY <1>1, <1>2 DEF ReadControl, Registers, CONTROL_SIZE, LINE, BOOT_ADDRESS_OFFSET,
                          SYSTEM_RESET_REQUEST_OFFSET
    <2>2. control_registers' \in [Core -> Registers]
        BY <1>1, <1>2, <2>1 DEF ReadControl
    <2>3. \A c \in Core : Driven(c, control_registers'[c]) = Driven(c, control_registers[c])
        BY <2>1 DEF Driven
    <2>4. DriveInv'
        BY <1>2, <2>3 DEF ReadControl, signalVars, Inv, DriveInv
    <2>5. QED
        BY <2>2, <2>4
<1>3. CASE WriteControl
    <2> DEFINE c == access.core
               regs == Stored(access, control_registers[c])
    <2>1. control_registers[c] \in Registers /\ c \in Core
        BY <1>1
    <2>2. regs \in Registers
        BY <1>1, <2>1, StoredType DEF Registers, CONTROL_SIZE
    <2>3. apply_control_write(access, regs, Driven(c, control_registers[c])) = Driven(c, regs)
        BY <1>1, <2>1, ApplyMirrors
    <2>4. signal_next[c] = Driven(c, control_registers[c]) /\ DOMAIN signal_next = Core
        BY <2>1 DEF Inv, DriveInv
    <2>5. /\ control_registers' = [control_registers EXCEPT ![c] = regs]
          /\ signal_next' =
               [signal_next EXCEPT ![c] = apply_control_write(access, regs, signal_next[c])]
        BY <1>3 DEF WriteControl
    <2> HIDE DEF regs, c
    <2>6. signal_next' = [signal_next EXCEPT ![c] = Driven(c, regs)]
        BY <2>3, <2>4, <2>5
    <2>7. control_registers' \in [Core -> Registers]
        BY <1>1, <2>1, <2>2, <2>5
    <2>8. ASSUME NEW d \in Core
          PROVE  signal_next'[d] = Driven(d, control_registers'[d])
        <3>1. CASE d = c
            BY <1>1, <2>1, <2>4, <2>5, <2>6, <3>1
        <3>2. CASE d # c
            BY <1>1, <2>1, <2>4, <2>5, <2>6, <3>2 DEF Inv, DriveInv
        <3>3. QED
            BY <3>1, <3>2
    <2>9. DriveInv'
        <3>1. signal_next' = [d \in Core |-> signal_next'[d]]
            BY <2>4, <2>6 DEF Inv, DriveInv
        <3>2. QED
            BY <2>8, <3>1 DEF DriveInv
    <2>10. QED
        BY <2>7, <2>9
<1>4. CASE ~ReadControl /\ ~WriteControl
    BY <1>1, <1>4, QuietSteps DEF Inv, DriveInv
<1>5. QED
    BY <1>2, <1>3, <1>4

LEMMA NextType == Inv /\ [Next]_vars => TypeOK'
<1> SUFFICES ASSUME Inv, [Next]_vars PROVE TypeOK'
    OBVIOUS
<1>1. control_registers' \in [Core -> Registers]
    BY NextDrive
<1>2. \A c \in Core : signal[c] \in SignalType(c) /\ signal_next[c] \in SignalType(c)
    BY DEF Inv, TypeOK, SignalType
<1>3. \A c \in Core : signal_next'[c] \in SignalType(c)
    BY <1>1, NextDrive, DrivenType DEF DriveInv
<1>4. signal' \in {signal, signal_next}
    BY DEF Next, GpioUpdate, ControlAccess, MemoryAccess, Reject, ReadControl, WriteControl,
           WriterTop, WriterWoken, SystemBusWrite, UpdatePhase, vars, signalVars
<1>5. \A c \in Core : {signal'[c], signal_next'[c]} \subseteq SignalType(c)
    BY <1>2, <1>3, <1>4
<1>6. memory' \in [Core -> Memory]
    <2>1. memory \in [Core -> Memory]
        BY DEF Inv, TypeOK
    <2>2. ASSUME NEW a \in Accesses, MemoryAccess(a) PROVE memory' \in [Core -> Memory]
        <3>1. a \in Access /\ a.core \in Core
            BY AccessAssumption DEF Access
        <3>2. StoredMemory(MemoryOffset(a), memory[a.core]) \in Memory
            BY <2>1, <2>2, <3>1, StoredMemoryType DEF MemoryAccess
        <3>3. QED
            BY <2>1, <2>2, <3>1, <3>2 DEF MemoryAccess
    <2>3. CASE UNCHANGED memory
        BY <2>1, <2>3
    <2>4. QED
        BY <2>2, <2>3 DEF Next, GpioUpdate, ControlAccess, Reject, ReadControl, WriteControl,
            WriterTop, WriterWoken, SystemBusWrite, UpdatePhase, vars
<1>7. /\ program' \in {"hmp", "riscv"}
      /\ handler' \in {"idle", "settling", "ready"} /\ access' \in Accesses \cup {NoAccess}
    BY DEF Inv, TypeOK, Next, GpioUpdate, ControlAccess, MemoryAccess, Reject, ReadControl,
           WriteControl, Answered, WriterTop, WriterWoken, SystemBusWrite, UpdatePhase, vars
<1>8. {system_reset_request', system_reset_request_next', sent_reset_request'}
          \subseteq BOOLEAN
    BY DEF Inv, TypeOK, Next, GpioUpdate, ControlAccess, MemoryAccess, Reject, ReadControl,
           WriteControl, WriterTop, WriterWoken, SystemBusWrite, UpdatePhase, vars,
           requestVars
<1>9. /\ system_bus_write_pending' \in [Core -> BOOLEAN] /\ owed' \in [Core -> BOOLEAN]
      /\ event_notified' \in BOOLEAN
      /\ writer' \in {"top", "event", "woken", "settling", "ready"}
    <2>1. /\ system_bus_write_pending \in [Core -> BOOLEAN] /\ owed \in [Core -> BOOLEAN]
          /\ event_notified \in BOOLEAN
          /\ writer \in {"top", "event", "woken", "settling", "ready"}
        BY DEF Inv, TypeOK
    <2>2. CASE WriteControl
        <3> DEFINE triggered == Triggers(access, Stored(access, control_registers[access.core]))
        <3>1. triggered \in BOOLEAN
            BY DEF Triggers
        <3> HIDE DEF triggered
        <3>2. /\ system_bus_write_pending' = [system_bus_write_pending EXCEPT
                    ![access.core] = system_bus_write_pending[access.core] \/ triggered]
              /\ owed' = [owed EXCEPT ![access.core] = owed[access.core] \/ triggered]
              /\ event_notified' = (event_notified \/ triggered) /\ writer' = writer
            BY <2>2 DEF WriteControl, Notified, triggered
        <3>3. QED
            BY <2>1, <3>1, <3>2
    <2>3. CASE WriterTop \/ WriterWoken
        BY <2>1, <2>3 DEF WriterTop, WriterWoken
    <2>4. CASE SystemBusWrite
        BY <2>1, <2>4 DEF SystemBusWrite
    <2>5. CASE UpdatePhase
        BY <2>1, <2>5 DEF UpdatePhase
    <2>6. CASE UNCHANGED writerVars
        BY <2>1, <2>6 DEF writerVars
    <2>7. QED
        BY <2>2, <2>3, <2>4, <2>5, <2>6 DEF Next, GpioUpdate, ControlAccess, MemoryAccess,
            Reject, ReadControl, vars
<1>10. QED
    BY <1>1, <1>5, <1>6, <1>7, <1>8, <1>9 DEF TypeOK, SignalType

LEMMA NextRequest == Inv /\ [Next]_vars => RequestInv'
<1> SUFFICES ASSUME Inv, [Next]_vars PROVE RequestInv'
    OBVIOUS
<1> USE DEF Inv, TypeOK, RequestInv
<1>1. ASSUME NEW level \in BOOLEAN, GpioUpdate(level) PROVE RequestInv'
    BY <1>1 DEF GpioUpdate
<1>2. ASSUME NEW a \in Accesses, ControlAccess(a) PROVE RequestInv'
    BY <1>2 DEF ControlAccess, requestVars, Cores
<1>3. ASSUME NEW a \in Accesses, MemoryAccess(a) PROVE RequestInv'
    BY <1>3 DEF MemoryAccess, requestVars
<1>4. CASE Reject \/ ReadControl \/ WriteControl
    BY <1>4 DEF Reject, ReadControl, WriteControl, Answered, NoAccess, requestVars
<1>5. CASE WriterTop \/ WriterWoken \/ SystemBusWrite
    BY <1>5 DEF WriterTop, WriterWoken, SystemBusWrite, requestVars
<1>6. CASE UpdatePhase
    BY <1>6 DEF UpdatePhase
<1>7. CASE UNCHANGED vars
    BY <1>7 DEF vars, requestVars
<1>8. QED
    BY <1>1, <1>2, <1>3, <1>4, <1>5, <1>6, <1>7 DEF Next

(* A trigger against system_bus_writer, wherever the thread is.            *)
LEMMA NextTrigger == Inv /\ [Next]_vars => TriggerInv'
<1> SUFFICES ASSUME Inv, [Next]_vars PROVE TriggerInv'
    OBVIOUS
<1>1. /\ program \in {"hmp", "riscv"} /\ access.core \in Core
      /\ system_bus_write_pending \in [Core -> BOOLEAN] /\ owed \in [Core -> BOOLEAN]
      /\ event_notified \in BOOLEAN
      /\ writer \in {"top", "event", "woken", "settling", "ready"}
    BY AccessType DEF Inv, TypeOK, Access
<1>2. /\ program = "hmp" => HmpTrigger
      /\ program = "riscv" => RiscvTrigger /\ access.core = "RiscV"
    BY DEF Inv, TriggerInv, RequestInv
<1> USE DEF Core
<1>3. CASE WriteControl
    <2> DEFINE triggered == Triggers(access, Stored(access, control_registers[access.core]))
    <2>1. triggered \in BOOLEAN
        BY DEF Triggers
    <2> HIDE DEF triggered
    <2>2. /\ system_bus_write_pending' = [system_bus_write_pending EXCEPT
                ![access.core] = system_bus_write_pending[access.core] \/ triggered]
          /\ owed' = [owed EXCEPT ![access.core] = owed[access.core] \/ triggered]
          /\ event_notified' = (event_notified \/ triggered) /\ writer' = writer
          /\ program' = program
        BY <1>3 DEF WriteControl, Notified, triggered
    <2>3. CASE program = "hmp"
        BY <1>1, <1>2, <2>1, <2>2, <2>3 DEF HmpTrigger, TriggerInv
    <2>4. CASE program = "riscv"
        BY <1>1, <1>2, <2>1, <2>2, <2>4 DEF RiscvTrigger, TriggerInv
    <2>5. QED
        BY <1>1, <2>3, <2>4
<1>4. CASE WriterTop
    BY <1>1, <1>2, <1>4 DEF WriterTop, HmpTrigger, RiscvTrigger, TriggerInv
<1>5. CASE WriterWoken
    BY <1>1, <1>2, <1>5 DEF WriterWoken, HmpTrigger, RiscvTrigger, TriggerInv
<1>6. CASE SystemBusWrite
    BY <1>1, <1>2, <1>6 DEF SystemBusWrite, HmpTrigger, RiscvTrigger, TriggerInv
<1>7. CASE UpdatePhase
    BY <1>1, <1>2, <1>7 DEF UpdatePhase, Runnable, HmpTrigger, RiscvTrigger, TriggerInv
<1>8. CASE UNCHANGED <<program, writerVars>>
    BY <1>2, <1>8 DEF writerVars, HmpTrigger, RiscvTrigger, TriggerInv
<1>9. QED
    BY <1>3, <1>4, <1>5, <1>6, <1>7, <1>8 DEF Next, GpioUpdate, ControlAccess, MemoryAccess,
        Reject, ReadControl, vars

LEMMA NextInv == Inv /\ [Next]_vars => Inv'
BY NextType, NextDrive, NextRequest, NextTrigger DEF Inv
-----------------------------------------------------------------------------
(* The state of both signals units: register file, signals, request line   *)
(* and trigger.                                                            *)
THEOREM SignalsInvariant == Spec => []Inv
BY InitInv, NextInv, PTL DEF Spec

(* Types hold; in particular handle_control and handle_memory store within *)
(* their arrays, whatever offset and length Renode asks for.               *)
THEOREM TypeCorrect == Spec => []TypeOK
<1>1. Inv => TypeOK
    BY DEF Inv
<1>2. QED
    BY <1>1, SignalsInvariant, PTL

(* The ranges apply_control_write tests cover what a write of any shape    *)
(* changes: the signals are always what the register file says.            *)
THEOREM SignalsMirror == Spec => []SignalsMirrorRegisters
<1>1. Inv => SignalsMirrorRegisters
    BY DEF Inv, DriveInv, SignalsMirrorRegisters
<1>2. QED
    BY <1>1, SignalsInvariant, PTL

(* system_bus_writer never sleeps on a trigger.                            *)
THEOREM TriggersNotStranded == Spec => []NoStrandedTrigger
<1>1. Inv => NoStrandedTrigger
    BY DEF Inv, TypeOK, TriggerInv, HmpTrigger, RiscvTrigger, NoStrandedTrigger, Core
<1>2. QED
    BY <1>1, SignalsInvariant, PTL

(* The wait at the head of handle_control settles the request line before  *)
(* it is read.                                                             *)
THEOREM ReadsSettled == Spec => SettledRead
<1>1. ASSUME Inv, ReadControl, access.core = "Arm"
      PROVE  control_registers'["Arm"][SYSTEM_RESET_REQUEST_OFFSET] =
                 IF sent_reset_request THEN 1 ELSE 0
    <2>1. system_reset_request = sent_reset_request
        BY <1>1 DEF Inv, TypeOK, RequestInv, ReadControl
    <2>2. control_registers \in [Core -> Registers] /\ "Arm" \in Core
        BY <1>1 DEF Inv, TypeOK, Core
    <2>3. QED
        BY <1>1, <2>1, <2>2 DEF ReadControl, Registers, SYSTEM_RESET_REQUEST_OFFSET,
                                CONTROL_SIZE
<1>2. Inv /\ [Next]_vars =>
        [ReadControl /\ access.core = "Arm" =>
            control_registers'["Arm"][SYSTEM_RESET_REQUEST_OFFSET] =
                IF sent_reset_request THEN 1 ELSE 0]_vars
    BY <1>1
<1>3. QED
    BY <1>2, SignalsInvariant, PTL DEF Spec, SettledRead
=============================================================================
