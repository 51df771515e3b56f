----------------------------- MODULE SignalsUnit ----------------------------
(***************************************************************************)
(* The CPU signals models of the hmp-signals and riscv-signals examples: a *)
(* register file through which Renode drives signals, and a thread,        *)
(* system_bus_writer, that writes to Renode's bus when a trigger register  *)
(* is written.  hmp serves two cores over one connection and lets a delta  *)
(* cycle pass before every control access; riscv serves one core at once   *)
(* and keeps its trigger flag across the event.  In front of each core's   *)
(* unit a bus splits the address range into control registers and memory.  *)
(*                                                                         *)
(* The model follows SystemC's delta cycles: processes run in any order    *)
(* until none is runnable, then signals take their new values, the event   *)
(* fires and the processes in wait(SC_ZERO_TIME) become runnable.          *)
(***************************************************************************)
EXTENDS Naturals, Sequences

CONSTANT Accesses   \* the accesses Renode makes

VARIABLES
    program,             \* "hmp" or "riscv"; never changes
    control_registers, memory,
    signal,              \* current values of the driven signals
    signal_next,         \* values they take at the next update
    system_reset_request, system_reset_request_next,
    sent_reset_request,  \* the level Renode last sent
    handler, access,     \* handle_control: where it is, and its payload
    system_bus_write_pending,
    event_notified,      \* system_bus_write_event fires in the next delta
    writer,              \* where system_bus_writer is
    owed                 \* a core's trigger was written since its last bus write

signalVars == <<signal, signal_next>>
requestVars == <<system_reset_request, system_reset_request_next, sent_reset_request>>
writerVars == <<system_bus_write_pending, event_notified, writer, owed>>
vars == <<program, control_registers, memory, signalVars, requestVars, handler, access,
          writerVars>>

Core == {"RiscV", "Arm"}
Cores == IF program = "hmp" THEN Core ELSE {"RiscV"}

(* The register file, with one byte for each kind of byte-wide line and    *)
(* two bytes for the wider values, in the order of their offsets.          *)
LINE == 0                    \* interrupt inputs, reset, NMI, CPUWAIT
BOOT_ADDRESS_OFFSET == 1     \* also the vector table offset and clock period
BOOT_SIZE == 2
SYSTEM_BUS_TRIGGER_OFFSET == 3
SYSTEM_RESET_REQUEST_OFFSET == 4
CONTROL_SIZE == 5
MEMORY_SIZE == 1
Registers == [0 .. CONTROL_SIZE - 1 -> 0 .. 1]
Memory == [0 .. MEMORY_SIZE - 1 -> 0 .. 1]

Access == [core : Core, is_read : BOOLEAN, offset : Nat, data : Seq(0 .. 1)]

ASSUME AccessAssumption == Accesses \subseteq Access

NoAccess == [core |-> "RiscV", is_read |-> TRUE, offset |-> 0, data |-> <<>>]
Length(a) == Len(a.data)

\* Fault: the whole boot address is copied into the Arm core's offset.
DrivenTooWide(c, regs) ==
    [line |-> regs[LINE] # 0,
     boot |-> <<regs[BOOT_ADDRESS_OFFSET], regs[BOOT_ADDRESS_OFFSET + 1]>>]

(* What the registers of a core say its signals are.  The Arm core's       *)
(* vector table offset is half as wide as the boot address.                *)
Driven(c, regs) ==
    [line |-> regs[LINE] # 0,
     boot |-> <<regs[BOOT_ADDRESS_OFFSET],
                IF c = "RiscV" THEN regs[BOOT_ADDRESS_OFFSET + 1] ELSE 0>>]

\* Fault: only an access to the first byte counts.
StartsAt(a, start, size) == a.offset = start

overlaps(a, start, size) == a.offset < start + size /\ start < a.offset + Length(a)

(* The register file, or the memory, after the memcpy of a write.          *)
Stored(a, regs) ==
    [k \in DOMAIN regs |->
        IF overlaps(a, k, 1) THEN a.data[k - a.offset + 1] ELSE regs[k]]

(* apply_control_write, for the signals of the core.                       *)
apply_control_write(a, regs, sig) ==
    [line |-> IF overlaps(a, LINE, 1) THEN Driven(a.core, regs).line ELSE sig.line,
     boot |-> IF overlaps(a, BOOT_ADDRESS_OFFSET, BOOT_SIZE)
              THEN Driven(a.core, regs).boot ELSE sig.boot]

Triggers(a, regs) ==
    overlaps(a, SYSTEM_BUS_TRIGGER_OFFSET, 1) /\ regs[SYSTEM_BUS_TRIGGER_OFFSET] # 0
-----------------------------------------------------------------------------
DefaultRegisters(c) ==
    [k \in 0 .. CONTROL_SIZE - 1 |-> IF k = BOOT_ADDRESS_OFFSET THEN 1 ELSE 0]

(* The constructor.  initialize() gives a port's signal its value at the   *)
(* first update.                                                           *)
Init ==
    /\ program \in {"hmp", "riscv"}
    /\ control_registers = [c \in Core |-> DefaultRegisters(c)]
    /\ memory = [c \in Core |-> [k \in 0 .. MEMORY_SIZE - 1 |-> 0]]
    /\ signal = [c \in Core |-> [line |-> FALSE, boot |-> <<0, 0>>]]
    /\ signal_next = [c \in Core |-> Driven(c, DefaultRegisters(c))]
    /\ system_reset_request = FALSE /\ system_reset_request_next = FALSE
    /\ sent_reset_request = FALSE
    /\ handler = "idle" /\ access = NoAccess
    /\ system_bus_write_pending = [c \in Core |-> FALSE]
    /\ event_notified = FALSE
    /\ writer = "top"
    /\ owed = [c \in Core |-> FALSE]

(* A GPIO message from Renode: the bridge writes its output port.          *)
GpioUpdate(level) ==
    /\ program = "hmp"
    /\ handler = "idle"
    /\ system_reset_request_next' = level
    /\ sent_reset_request' = level
    /\ UNCHANGED <<program, control_registers, memory, signalVars, system_reset_request,
                   handler, access, writerVars>>

(* Fault: handle_control does not wait.                                    *)
ControlAccessAtOnce(a) ==
    /\ handler = "idle"
    /\ a.core \in Cores
    /\ a.offset < CONTROL_SIZE
    /\ access' = a
    /\ handler' = "ready"
    /\ UNCHANGED <<program, control_registers, memory, signalVars, requestVars, writerVars>>

(* bus::b_transport routes an access by the address it starts at.  Below   *)
(* CONTROL_SIZE it reaches handle_control.                                 *)
ControlAccess(a) ==
    /\ handler = "idle"
    /\ a.core \in Cores
    /\ a.offset < CONTROL_SIZE
    /\ access' = a
    /\ handler' = IF program = "hmp" THEN "settling" ELSE "ready"
    /\ UNCHANGED <<program, control_registers, memory, signalVars, requestVars, writerVars>>

(* The bus takes its base off the address before it calls handle_memory.   *)
MemoryOffset(a) == [a EXCEPT !.offset = @ - CONTROL_SIZE]

(* handle_memory: an access that ends past the memory gets an address      *)
(* error.                                                                  *)
StoredMemory(a, mem) ==
    IF a.is_read \/ a.offset + Length(a) > MEMORY_SIZE THEN mem ELSE Stored(a, mem)

(* The other accesses are for handle_memory, which answers at once.        *)
MemoryAccess(a) ==
    /\ handler = "idle"
    /\ a.core \in Cores
    /\ a.offset >= CONTROL_SIZE
    /\ memory' = [memory EXCEPT ![a.core] = StoredMemory(MemoryOffset(a), @)]
    /\ UNCHANGED <<program, control_registers, signalVars, requestVars, handler, access,
                   writerVars>>

InRange == access.offset + Length(access) <= CONTROL_SIZE

Answered == handler' = "idle" /\ access' = NoAccess

Reject ==
    /\ handler = "ready"
    /\ ~InRange
    /\ Answered
    /\ UNCHANGED <<program, control_registers, memory, signalVars, requestVars, writerVars>>

(* A read of the Arm core first samples system_reset_request.              *)
ReadControl ==
    /\ handler = "ready"
    /\ InRange
    /\ access.is_read
    /\ control_registers' =
         IF access.core = "Arm"
         THEN [control_registers EXCEPT !["Arm"][SYSTEM_RESET_REQUEST_OFFSET] =
                  IF system_reset_request THEN 1 ELSE 0]
         ELSE control_registers
    /\ Answered
    /\ UNCHANGED <<program, memory, signalVars, requestVars, writerVars>>

\* Fault: the event is not notified.
NotNotified(triggered) == event_notified

Notified(triggered) == event_notified \/ triggered

WriteControl ==
    /\ handler = "ready"
    /\ InRange
    /\ ~access.is_read
    /\ LET c == access.core
           regs == Stored(access, control_registers[c])
           triggered == Triggers(access, regs)
       IN /\ control_registers' = [control_registers EXCEPT ![c] = regs]
          /\ signal_next' = [signal_next EXCEPT ![c] = apply_control_write(access, regs, @)]
          /\ system_bus_write_pending' =
               [system_bus_write_pending EXCEPT ![c] = @ \/ triggered]
          /\ owed' = [owed EXCEPT ![c] = @ \/ triggered]
          /\ event_notified' = Notified(triggered)
    /\ Answered
    /\ UNCHANGED <<program, memory, signal, requestVars, writer>>

(* Fault: riscv's thread waits for the event even if the flag is up.       *)
WriterTopAlwaysWaits ==
    /\ writer = "top"
    /\ writer' = "event"
    /\ UNCHANGED <<program, control_registers, memory, signalVars, requestVars, handler, access,
                   system_bus_write_pending, event_notified, owed>>

(* The head of system_bus_writer's loop.  hmp always waits for the event;  *)
(* riscv does not if a trigger came while it was busy.                     *)
WriterTop ==
    /\ writer = "top"
    /\ IF program = "riscv" /\ system_bus_write_pending["RiscV"]
       THEN /\ writer' = "settling"
            /\ system_bus_write_pending' = [system_bus_write_pending EXCEPT !["RiscV"] = FALSE]
       ELSE writer' = "event" /\ UNCHANGED system_bus_write_pending
    /\ UNCHANGED <<program, control_registers, memory, signalVars, requestVars, handler, access,
                   event_notified, owed>>

(* The event has fired: wait(SC_ZERO_TIME), before which riscv clears its  *)
(* flag.                                                                   *)
WriterWoken ==
    /\ writer = "woken"
    /\ writer' = "settling"
    /\ system_bus_write_pending' =
         IF program = "riscv" THEN [system_bus_write_pending EXCEPT !["RiscV"] = FALSE]
                              ELSE system_bus_write_pending
    /\ UNCHANGED <<program, control_registers, memory, signalVars, requestVars, handler, access,
                   event_notified, owed>>

(* The b_transport calls into Renode, which block the whole simulation: no *)
(* other process runs between them.  hmp clears the flags here.            *)
SystemBusWrite ==
    /\ writer = "ready"
    /\ writer' = "top"
    /\ IF program = "riscv"
       THEN owed' = [owed EXCEPT !["RiscV"] = FALSE] /\ UNCHANGED system_bus_write_pending
       ELSE /\ owed' = [c \in Core |-> owed[c] /\ ~system_bus_write_pending[c]]
            /\ system_bus_write_pending' = [c \in Core |-> FALSE]
    /\ UNCHANGED <<program, control_registers, memory, signalVars, requestVars, handler, access,
                   event_notified>>

Runnable == handler = "ready" \/ writer \in {"top", "woken", "ready"}

(* Update and delta notification phases of the kernel.                     *)
UpdatePhase ==
    /\ ~Runnable
    /\ \/ signal # signal_next \/ system_reset_request # system_reset_request_next
       \/ event_notified \/ "settling" \in {handler, writer}
    /\ signal' = signal_next
    /\ system_reset_request' = system_reset_request_next
    /\ event_notified' = FALSE
    /\ handler' = IF handler = "settling" THEN "ready" ELSE handler
    /\ writer' = CASE writer = "settling" -> "ready"
                   [] writer = "event" /\ event_notified -> "woken"
                   [] OTHER -> writer
    /\ UNCHANGED <<program, control_registers, memory, signal_next, system_reset_request_next,
                   sent_reset_request, access, system_bus_write_pending, owed>>

Next ==
    \/ \E level \in BOOLEAN : GpioUpdate(level)
    \/ \E a \in Accesses : ControlAccess(a) \/ MemoryAccess(a)
    \/ Reject \/ ReadControl \/ WriteControl
    \/ WriterTop \/ WriterWoken \/ SystemBusWrite
    \/ UpdatePhase

Spec == Init /\ [][Next]_vars

(* The kernel runs what is runnable.  The bridge may serve many messages   *)
(* in one delta cycle, but Renode's periodic time sync makes it give way,  *)
(* so that a delta cycle that can end again and again does end.            *)
FairSpec ==
    /\ Spec
    /\ WF_vars(Reject \/ ReadControl \/ WriteControl)
    /\ WF_vars(WriterTop \/ WriterWoken \/ SystemBusWrite)
    /\ SF_vars(UpdatePhase)
-----------------------------------------------------------------------------
(* Every variable has its type.                                            *)
TypeOK ==
    /\ program \in {"hmp", "riscv"}
    /\ control_registers \in [Core -> Registers] /\ memory \in [Core -> Memory]
    /\ \A c \in Core : {signal[c], signal_next[c]} \subseteq
         [line : BOOLEAN, boot : (0 .. 1) \X (IF c = "RiscV" THEN 0 .. 1 ELSE {0})]
    /\ {system_reset_request, system_reset_request_next, sent_reset_request}
         \subseteq BOOLEAN
    /\ handler \in {"idle", "settling", "ready"} /\ access \in Accesses \cup {NoAccess}
    /\ system_bus_write_pending \in [Core -> BOOLEAN] /\ event_notified \in BOOLEAN
    /\ writer \in {"top", "event", "woken", "settling", "ready"}
    /\ owed \in [Core -> BOOLEAN]

(* However a register is written - in part, or by an access that spans     *)
(* several - the signals settle to what the register file reads back.      *)
SignalsMirrorRegisters ==
    \A c \in Core : signal_next[c] = Driven(c, control_registers[c])

(* hmp_signals.cpp:37 "Settle initial signals and preceding GPIO updates   *)
(* before reading them": a read returns the level Renode sent last, even   *)
(* when it follows the GPIO message in the same delta cycle.               *)
SettledRead ==
    [][ReadControl /\ access.core = "Arm" =>
          control_registers'["Arm"][SYSTEM_RESET_REQUEST_OFFSET] =
              IF sent_reset_request THEN 1 ELSE 0]_vars

(* system_bus_writer never goes to sleep on a trigger: while it waits for  *)
(* an event that nobody has notified, no core has a write coming.          *)
NoStrandedTrigger ==
    writer = "event" /\ ~event_notified =>
        \A c \in Core : ~system_bus_write_pending[c] /\ ~owed[c]

(* Every trigger is followed by a write to Renode's bus for its core.      *)
TriggeredWriteHappens == \A c \in Core : owed[c] ~> ~owed[c]
=============================================================================
