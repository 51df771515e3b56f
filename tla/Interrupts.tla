----------------------------- MODULE Interrupts -----------------------------
(***************************************************************************)
(* The interrupts and interrupts-native examples: two port_interrupters    *)
(* raise their lines periodically, Renode's CPU runs a handler while a     *)
(* line is up, and the handler's store, routed by its address, lowers the  *)
(* line again.  In the first example renode_bridge reports each line and   *)
(* bus routes the store; in the native one gpio_changed and tlm_route do.  *)
(*                                                                         *)
(* Stores reach the model at any point of a delta cycle, and the CPU may   *)
(* take any time.  Time is counted in seconds, until the next wake-up of   *)
(* each interrupt_loop.                                                    *)
(***************************************************************************)
EXTENDS Integers

CONSTANT Interval      \* the second constructor argument of an interrupter

Interrupter == {0, 1}

ASSUME IntervalAssumption == Interval \in [Interrupter -> Nat \ {0}]

VARIABLES
    program,           \* "bridge" or "native"; never changes
    left,              \* time until interrupt_loop wakes up
    irq, irq_next,     \* the signals: current value, value after the update
    changed,           \* signals whose change has not been reported
    line,              \* the lines as Renode last heard of them
    handler,           \* the handler the CPU is in; Main if none
    entered            \* lines whose handler was active since they were raised

signalVars == <<irq, irq_next, changed>>
vars == <<program, left, signalVars, line, handler, entered>>

Main == -1
Stopped == -1

(* The native interrupter waits for a second whatever its interval.        *)
Period(i) == IF program = "native" THEN 1 ELSE Interval[i]

(* Where the handlers of main.c store.                                     *)
MiB == 1048576
Address(i) == i * MiB

\* Fault: every address leads to the first interrupter.
RouteToFirst(address) == {0}

(* on_renode_request and tlm_route: the interrupters a store goes to.      *)
Route(address) ==
    CASE address = 0 -> {0}
      [] address # 0 /\ program = "bridge" -> IF (address \div MiB) % 2 = 1 THEN {1} ELSE {}
      [] address # 0 /\ program = "native" -> IF address = MiB THEN {1} ELSE {0}
-----------------------------------------------------------------------------
(* interrupt_loop of both is about to run for the first time.              *)
Init ==
    /\ program \in {"bridge", "native"}
    /\ left = [i \in Interrupter |-> 0]
    /\ irq = [i \in Interrupter |-> FALSE] /\ irq_next = irq
    /\ changed = {}
    /\ line = irq
    /\ handler = Main
    /\ entered = {}

(* Fault: a loop that is left after its first turn.                        *)
InterruptLoopOnce(i) ==
    /\ left[i] = 0
    /\ irq_next' = [irq_next EXCEPT ![i] = TRUE]
    /\ left' = [left EXCEPT ![i] = Stopped]
    /\ UNCHANGED <<program, irq, changed, line, handler, entered>>

InterruptLoop(i) ==
    /\ left[i] = 0
    /\ irq_next' = [irq_next EXCEPT ![i] = TRUE]
    /\ left' = [left EXCEPT ![i] = Period(i)]
    /\ entered' = {j \in entered : j # i \/ irq_next[i] \/ handler = i}
    /\ UNCHANGED <<program, irq, changed, line, handler>>

(* The interrupt controller takes the lower number first; the handlers do  *)
(* not preempt each other.                                                 *)
EnterHandler(i) ==
    /\ handler = Main
    /\ line[i] /\ \A j \in Interrupter : j < i => ~line[j]
    /\ handler' = i
    /\ entered' = entered \cup {i}
    /\ UNCHANGED <<program, left, signalVars, line>>

(* The handler's store, and its return.                                    *)
Acknowledge ==
    /\ handler # Main
    /\ irq_next' = [i \in Interrupter |-> irq_next[i] /\ i \notin Route(Address(handler))]
    /\ handler' = Main
    /\ UNCHANGED <<program, left, irq, changed, line, entered>>

(* The bridge has a method for each port; gpio_changed goes through both.  *)
Reported(i) == IF program = "native" THEN Interrupter ELSE {i}

(* Fault: only the first port is looked at.                                *)
ReportFirstPort(i) ==
    /\ i \in changed
    /\ changed' = changed \ Reported(i)
    /\ line' = [line EXCEPT ![0] = irq[0]]
    /\ UNCHANGED <<program, left, irq, irq_next, handler, entered>>

Report(i) ==
    /\ i \in changed
    /\ changed' = changed \ Reported(i)
    /\ line' = [j \in Interrupter |-> IF j \in Reported(i) THEN irq[j] ELSE line[j]]
    /\ UNCHANGED <<program, left, irq, irq_next, handler, entered>>

Runnable == changed # {} \/ \E i \in Interrupter : left[i] = 0

UpdatePhase ==
    /\ ~Runnable
    /\ irq # irq_next
    /\ irq' = irq_next
    /\ changed' = {i \in Interrupter : irq[i] # irq_next[i]}
    /\ UNCHANGED <<program, left, irq_next, line, handler, entered>>

Tick ==
    /\ ~Runnable
    /\ irq = irq_next
    /\ left' = [i \in Interrupter |-> IF left[i] = Stopped THEN Stopped ELSE left[i] - 1]
    /\ UNCHANGED <<program, signalVars, line, handler, entered>>

Next ==
    \/ \E i \in Interrupter : InterruptLoop(i) \/ EnterHandler(i) \/ Report(i)
    \/ Acknowledge \/ UpdatePhase \/ Tick

Spec == Init /\ [][Next]_vars

(* The kernel runs what is runnable, time sync makes time advance, and the *)
(* CPU executes.  A store that arrives in time to lower a line disables    *)
(* the update or the tick only for a while.                                *)
FairSpec ==
    /\ Spec
    /\ \A i \in Interrupter : WF_vars(InterruptLoop(i)) /\ WF_vars(Report(i))
    /\ WF_vars(EnterHandler(0)) /\ WF_vars(EnterHandler(1)) /\ WF_vars(Acknowledge)
    /\ WF_vars(UpdatePhase \/ Tick)
-----------------------------------------------------------------------------
(* Every variable has its type.                                            *)
TypeOK ==
    /\ program \in {"bridge", "native"}
    /\ left \in [Interrupter -> Nat]
    /\ \A i \in Interrupter : left[i] <= Interval[i]
    /\ {irq, irq_next, line} \subseteq [Interrupter -> BOOLEAN]
    /\ changed \subseteq Interrupter /\ entered \subseteq Interrupter
    /\ handler \in Interrupter \cup {Main}

(* When no process is runnable, Renode's view of a line is the signal: no  *)
(* change is forgotten by the reporting methods, whatever changes at the   *)
(* same time.                                                              *)
LineSettles == changed = {} => line = irq

(* A line never goes down unless its handler has been active since         *)
(* interrupt_loop raised it: the store of one handler does not take the    *)
(* other's interrupt away, and no line is let down by itself.              *)
NotDroppedUnserved ==
    [][\A i \in Interrupter : line[i] /\ ~line'[i] => i \in entered]_vars

(* However stores and wake-ups fall together, the handler of the first     *)
(* interrupter runs again and again: an interrupt that a late store wiped  *)
(* out is made up for by the next one.  (The second can be starved by a    *)
(* CPU that is never done with the first.)                                 *)
FirstKeepsInterrupting == []<>(handler = 0)
=============================================================================
