------------------------------ MODULE BusTargets -----------------------------
(***************************************************************************)
(* The small bus targets of four examples, each with two bus masters:      *)
(*                                                                         *)
(*   direct        direct-connection: two peripherals in two SystemC       *)
(*                 processes.  A write sets a peripheral's value; a read   *)
(*                 returns the value of the other one, which it fetches    *)
(*                 over a direct connection;                               *)
(*   non_blocking  tlm-non-blocking: the same over nb_transport_fw, and a  *)
(*                 write to another address makes the peripheral write its *)
(*                 value to the bus address it is given: to Renode's       *)
(*                 memory, to the other peripheral, or to itself;          *)
(*   native        tlm-non-blocking-native: one register, served by a      *)
(*                 thread behind a payload event queue, or at once;        *)
(*   multi_core    multi-core: a memory shared by two cores, which take    *)
(*                 turns in incrementing a counter.                        *)
(*                                                                         *)
(* An access is "sent" by its master, perhaps "calling" another component  *)
(* or "queued", and "answered".  A peripheral that has called out blocks   *)
(* its whole process: it serves nothing until the answer is there.         *)
(***************************************************************************)
EXTENDS Naturals

CONSTANTS Limit,  \* PING_PONG_LIMIT
          Data    \* values that masters write

ASSUME BusAssumption == Limit \in Nat \ {0} /\ Data \subseteq 0 .. Limit

VARIABLES
    program,      \* which example; never changes
    cell,         \* value of the peripherals, and a word of memory
    stage, access,            \* of each master's access
    payload,      \* data of each peripheral's own payload
    result,       \* what a master's last read returned
    core,         \* where a core of multi_core is in its program
    increments,   \* register r5 of a core
    base          \* the counter when the cores were started

coreVars == <<core, increments, base>>
vars == <<program, cell, stage, access, payload, result, coreVars>>

Master == {"m55", "m0"}
Port == {"p0", "p1"}
Cell == Port \cup {"ram"}
Value == 0 .. Limit
Other(p) == IF p = "p0" THEN "p1" ELSE "p0"
Parity(m) == IF m = "m55" THEN 0 ELSE 1          \* r2

Peers == {"direct", "non_blocking"}
Op == {"read", "write", "copy", "outside"}
Ops == CASE program = "non_blocking" -> {"read", "write", "copy"}
         [] program = "multi_core" -> {"read", "write", "outside"}
         [] OTHER -> {"read", "write"}
Access == [op : Op, port : Port, to : Cell, data : Value]   \* to: of a copy
NoAccess == [op |-> "read", port |-> "p0", to |-> "ram", data |-> 0]

(* A peripheral whose handler is inside a call out of its process.         *)
Busy(p) ==
    \E m \in Master : access[m].port = p /\ stage[m] \in {"calling", "returned"}
-----------------------------------------------------------------------------
(* uint64_t value has no initialiser; reg_value and the shared memory do.  *)
Init ==
    /\ program \in Peers \cup {"native", "multi_core"}
    /\ cell \in [Cell -> {0} \cup Data]
    /\ \A c \in Cell : cell[c] = 0 \/ (program \in Peers /\ c \in Port)
    /\ stage = [m \in Master |-> "idle"]
    /\ access = [m \in Master |-> NoAccess]
    /\ payload = [p \in Port |-> 0]
    /\ result = [m \in Master |-> 0]
    /\ core = [m \in Master |-> "halted"]
    /\ increments = [m \in Master |-> 0]
    /\ base = 0

(* A master outside multi_core makes any access.                           *)
Send(m, a) ==
    /\ program # "multi_core"
    /\ stage[m] = "idle"
    /\ a.op \in Ops
    /\ a.op = "write" \/ a.data = 0
    /\ a.op = "copy" \/ a.to = "ram"
    /\ program = "native" => a.port = "p0"
    /\ stage' = [stage EXCEPT ![m] = "sent"]
    /\ access' = [access EXCEPT ![m] = a]
    /\ UNCHANGED <<program, cell, payload, result, coreVars>>

(* The bridge of a peripheral takes up a request if the process is free.   *)
TakesUp(m, op) ==
    /\ program \in Peers
    /\ stage[m] = "sent"
    /\ access[m].op = op
    /\ ~Busy(access[m].port)

(* receive_bus_b_transport, write to address 0.                            *)
WriteValue(m) ==
    /\ TakesUp(m, "write")
    /\ cell' = [cell EXCEPT ![access[m].port] = access[m].data]
    /\ stage' = [stage EXCEPT ![m] = "answered"]
    /\ UNCHANGED <<program, access, payload, result, coreVars>>

(* receive_bus_b_transport, read: the call to the other peripheral.        *)
ReadPeer(m) ==
    /\ TakesUp(m, "read")
    /\ payload' = [payload EXCEPT ![access[m].port] = 0]
    /\ stage' = [stage EXCEPT ![m] = "calling"]
    /\ UNCHANGED <<program, cell, access, result, coreVars>>

(* Fault: the peripheral reads its own value.                              *)
AnswersOwnValue(m) ==
    LET p == access[m].port IN
    /\ stage[m] = "calling" /\ access[m].op = "read"
    /\ ~Busy(Other(p))
    /\ payload' = [payload EXCEPT ![p] = cell[p]]
    /\ stage' = [stage EXCEPT ![m] = "returned"]
    /\ UNCHANGED <<program, cell, access, result, coreVars>>

(* receive_direct_connection_b_transport in the other peripheral.          *)
PeerAnswers(m) ==
    LET p == access[m].port IN
    /\ stage[m] = "calling" /\ access[m].op = "read"
    /\ ~Busy(Other(p))
    /\ payload' = [payload EXCEPT ![p] = cell[Other(p)]]
    /\ stage' = [stage EXCEPT ![m] = "returned"]
    /\ UNCHANGED <<program, cell, access, result, coreVars>>

(* receive_bus_b_transport, write to another address: the value is taken   *)
(* and Renode is asked to write it to the address that the master gave.    *)
CopyOut(m) ==
    /\ TakesUp(m, "copy")
    /\ payload' = [payload EXCEPT ![access[m].port] = cell[access[m].port]]
    /\ stage' = [stage EXCEPT ![m] = "calling"]
    /\ UNCHANGED <<program, cell, access, result, coreVars>>

(* Renode writes memory itself; the value of a peripheral is written by    *)
(* that one's process, if it is not inside a call of its own.              *)
RenodeWrites(m) ==
    /\ stage[m] = "calling" /\ access[m].op = "copy"
    /\ access[m].to \in Port => ~Busy(access[m].to)
    /\ cell' = [cell EXCEPT ![access[m].to] = payload[access[m].port]]
    /\ stage' = [stage EXCEPT ![m] = "returned"]
    /\ UNCHANGED <<program, access, payload, result, coreVars>>

(* The call has returned TLM_COMPLETED: the rest of the handler.           *)
Return(m) ==
    /\ stage[m] = "returned"
    /\ result' = IF access[m].op = "read"
                 THEN [result EXCEPT ![m] = payload[access[m].port]] ELSE result
    /\ stage' = [stage EXCEPT ![m] = "answered"]
    /\ UNCHANGED <<program, cell, access, payload, coreVars>>
-----------------------------------------------------------------------------
(* A memory or register access that is served where it arrives.            *)
Served(m, c) ==
    /\ cell' = IF access[m].op = "write" THEN [cell EXCEPT ![c] = access[m].data] ELSE cell
    /\ result' = IF access[m].op = "read" THEN [result EXCEPT ![m] = cell[c]] ELSE result
    /\ stage' = [stage EXCEPT ![m] = "answered"]
    /\ UNCHANGED <<program, access, payload, coreVars>>

(* The native bridge has one transaction under way at a time (nb_done is a *)
(* single flag).                                                           *)
BridgeFree == \A m \in Master : stage[m] # "queued"

b_transport(m) ==
    /\ program = "native" /\ stage[m] = "sent" /\ BridgeFree
    /\ Served(m, "p0")

(* nb_transport_fw with BEGIN_REQ: into the queue, END_REQ returned.       *)
nb_transport_fw(m) ==
    /\ program = "native" /\ stage[m] = "sent" /\ BridgeFree
    /\ stage' = [stage EXCEPT ![m] = "queued"]
    /\ UNCHANGED <<program, cell, access, payload, result, coreVars>>

(* peq_thread: the access, then BEGIN_RESP, on which nb_transport_bw sets  *)
(* nb_done and ends the transaction.                                       *)
peq_thread(m) ==
    /\ stage[m] = "queued"
    /\ Served(m, "p0")

(* Fault: an access outside the memory gets no response.                   *)
MemoryNoResponse(m) ==
    /\ program = "multi_core" /\ stage[m] = "sent"
    /\ access[m].op # "outside"
    /\ Served(m, "ram")

(* Memory::b_transport of multi_core: check_bounds turns an access outside *)
(* the memory down.                                                        *)
Memory(m) ==
    /\ program = "multi_core" /\ stage[m] = "sent"
    /\ Served(m, "ram")

(* Memory::transport_dbg: the Monitor writes the counter before the cores  *)
(* are started.                                                            *)
transport_dbg(v) ==
    /\ program = "multi_core"
    /\ \A m \in Master : core[m] = "halted"
    /\ cell' = [cell EXCEPT !["ram"] = v]
    /\ base' = v
    /\ UNCHANGED <<program, stage, access, payload, result, core, increments>>

StartCore(m) ==
    /\ program = "multi_core"
    /\ core[m] = "halted"
    /\ core' = [core EXCEPT ![m] = "load"]
    /\ UNCHANGED <<program, cell, stage, access, payload, result, increments, base>>

(* ldr r3, [r1], or str r3, [r1] after adds r3, #1.                        *)
CoreSends(m) ==
    /\ core[m] \in {"load", "store"}
    /\ stage[m] = "idle"
    /\ stage' = [stage EXCEPT ![m] = "sent"]
    /\ access' = [access EXCEPT ![m] =
           IF core[m] = "load" THEN NoAccess
           ELSE [NoAccess EXCEPT !.op = "write", !.data = result[m] + 1]]
    /\ UNCHANGED <<program, cell, payload, result, coreVars>>

(* A core also touches addresses outside the shared memory.                *)
CoreSendsOutside(m) ==
    /\ core[m] = "load"
    /\ stage[m] = "idle"
    /\ stage' = [stage EXCEPT ![m] = "sent"]
    /\ access' = [access EXCEPT ![m] = [NoAccess EXCEPT !.op = "outside"]]
    /\ UNCHANGED <<program, cell, payload, result, coreVars>>

\* Fault: the cores do not look whose turn it is.
AlwaysMyTurn(m, r3) == TRUE

MyTurn(m, r3) == r3 % 2 = Parity(m)

\* Fault: bgt instead of bge.
PastLimit(r3) == r3 > Limit

Finished(r3) == r3 >= Limit

(* What a core does with the answer.                                       *)
CoreAfter(m) ==
    CASE core[m] = "store" -> "load"
      [] access[m].op = "outside" -> "load"
      [] Finished(result[m]) -> "done"
      [] OTHER -> IF MyTurn(m, result[m]) THEN "store" ELSE "load"

(* The answer reaches the master.                                          *)
Receive(m) ==
    /\ stage[m] = "answered"
    /\ stage' = [stage EXCEPT ![m] = "idle"]
    /\ access' = [access EXCEPT ![m] = NoAccess]
    /\ IF program = "multi_core"
       THEN /\ core' = [core EXCEPT ![m] = CoreAfter(m)]
            /\ increments' = IF core[m] = "store" THEN [increments EXCEPT ![m] = @ + 1]
                                                  ELSE increments
       ELSE UNCHANGED <<core, increments>>
    /\ UNCHANGED <<program, cell, payload, result, base>>
-----------------------------------------------------------------------------
Handler(m) ==
    \/ WriteValue(m) \/ ReadPeer(m) \/ PeerAnswers(m) \/ CopyOut(m) \/ RenodeWrites(m)
    \/ Return(m) \/ b_transport(m) \/ nb_transport_fw(m) \/ peq_thread(m) \/ Memory(m)

Next ==
    \/ \E m \in Master :
          \/ \E op \in Op, p \in Port, c \in Cell, v \in {0} \cup Data :
                Send(m, [op |-> op, port |-> p, to |-> c, data |-> v])
          \/ Handler(m)
          \/ StartCore(m) \/ CoreSends(m) \/ CoreSendsOutside(m)
          \/ Receive(m)
    \/ \E v \in Data : transport_dbg(v)

Spec == Init /\ [][Next]_vars

(* Requests queue up at a bridge in the order they arrive, so that a       *)
(* handler that can run again and again does run; answers are delivered.   *)
FairSpec == Spec /\ \A m \in Master : SF_vars(Handler(m)) /\ WF_vars(Receive(m))
-----------------------------------------------------------------------------
(* Every variable has its type; in particular no core counts past the      *)
(* limit.                                                                  *)
TypeOK ==
    /\ program \in Peers \cup {"native", "multi_core"}
    /\ cell \in [Cell -> Value]
    /\ stage \in [Master -> {"idle", "sent", "calling", "returned", "queued", "answered"}]
    /\ access \in [Master -> Access]
    /\ payload \in [Port -> Value]
    /\ result \in [Master -> Value]
    /\ core \in [Master -> {"halted", "load", "store", "done"}]
    /\ increments \in [Master -> Value] /\ base \in Value

(* The cells an access concerns, as the masters of an example see it.      *)
Seen(example, a) ==
    LET p == IF example = "multi_core" THEN "ram" ELSE a.port
    IN [kind |-> IF a.op = "outside" THEN "none" ELSE a.op,
        from |-> IF example \in Peers /\ a.op = "read" THEN Other(p) ELSE p,
        to |-> IF a.op = "copy" THEN a.to ELSE p,
        data |-> a.data]

Nothing == [kind |-> "nothing"]

Targets == INSTANCE AtomicTargets
    WITH access <- [m \in Master |-> IF stage[m] = "idle" THEN Nothing
                                     ELSE Seen(program, access[m])],
         effected <- {m \in Master : stage[m] \in {"returned", "answered"}},
         result <- [m \in Master |->
                       IF stage[m] = "returned" /\ access[m].op = "read"
                       THEN payload[access[m].port] ELSE result[m]],
         NoAccess <- Nothing

(* direct-connection/README.md "This is transparent from the point of view *)
(* of the Renode system bus": behind the calls between processes, the      *)
(* queue and the phases, every access is one atomic step.  A read returns  *)
(* what the other peripheral held at one moment of the read, and a copy    *)
(* writes what the peripheral holds at that moment, not what it held when  *)
(* the copy was requested.                                                 *)
ImplementsTargets == Targets!TargetsSpec

(* Who has to serve the call that m's access has led to.                   *)
Needs(m) == IF access[m].op = "read" THEN Other(access[m].port) ELSE access[m].to

(* Peripheral p belongs to a set of peripherals each of which is inside a  *)
(* call that one of the set has to serve: two that read each other, one    *)
(* that is told to copy its value to itself, one that waits for such a one *)
(* and so on.                                                              *)
Stuck(p) ==
    \E S \in SUBSET Port :
        /\ p \in S
        /\ \A q \in S : \E m \in Master :
              access[m].port = q /\ stage[m] = "calling" /\ Needs(m) \in S

(* Every access is answered unless its peripheral is caught in a circular  *)
(* wait.  In particular the call that direct-connection/peripheral.cpp:35  *)
(* marks "TODO This never returns" does return, except then.               *)
AccessEnds ==
    \A m \in Master :
        stage[m] = "sent" ~> stage[m] = "answered" \/ Stuck(access[m].port)

(* How many of the values a .. b - 1 of the counter are m's to increment.  *)
Turns(m, a, b) == (b + 1 - Parity(m)) \div 2 - (a + 1 - Parity(m)) \div 2

Incremented(m) ==
    increments[m] + (IF core[m] = "store" /\ stage[m] = "answered" THEN 1 ELSE 0)

(* A core loads and stores the counter in two accesses and the other core  *)
(* runs in between; still no increment is lost, and each core has made     *)
(* exactly those that were its turn, which for an even limit is half of    *)
(* them (multi-core-read-write.robot:137 "m55 did not do exactly half of   *)
(* the increments").                                                       *)
CoresTakeTurns ==
    program = "multi_core" =>
        \A m \in Master : Incremented(m) = Turns(m, base, cell["ram"])
=============================================================================
