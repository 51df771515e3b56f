-------------------------- MODULE InterruptsProofs ---------------------------
(***************************************************************************)
(* Theorems about module Interrupts, for all intervals.                    *)
(***************************************************************************)
EXTENDS Interrupts, TLAPS

(* Each line that is not waiting to be reported is as Renode knows it.     *)
LineInv == \A i \in Interrupter : i \notin changed => line[i] = irq[i]

(* No interrupt_loop runs before the changes of the last update have been  *)
(* reported; and whoever lets a line down, or is about to, is in entered.  *)
ServedInv ==
    /\ changed # {} => \A i \in Interrupter : left[i] # 0
    /\ handler # Main => handler \in entered
    /\ \A i \in Interrupter :
          /\ irq[i] /\ ~irq_next[i] => i \in entered
          /\ line[i] /\ ~irq[i] => i \in entered

Inv == TypeOK /\ LineInv /\ ServedInv
-----------------------------------------------------------------------------
(* The store of a handler reaches its own interrupter and no other.        *)
LEMMA RouteOwn ==
    ASSUME NEW i \in Interrupter, program \in {"bridge", "native"}
    PROVE  Route(Address(i)) = {i}
<1>1. CASE i = 0
    BY <1>1 DEF Route, Address, MiB
<1>2. CASE i = 1
    <2>1. Address(i) = MiB /\ MiB # 0 /\ MiB \div MiB = 1
        BY <1>2 DEF Address, MiB
    <2>2. CASE program = "bridge"
        BY <1>2, <2>1, <2>2 DEF Route, MiB
    <2>3. CASE program = "native"
        BY <1>2, <2>1, <2>3 DEF Route
    <2>4. QED
        BY <2>2, <2>3
<1>3. QED
    BY <1>1, <1>2 DEF Interrupter

LEMMA InitInv == Init => Inv
<1> SUFFICES ASSUME Init PROVE Inv
    OBVIOUS
<1>1. TypeOK
    BY IntervalAssumption DEF Init, TypeOK, Interrupter, Main
<1>2. LineInv /\ ServedInv
    BY DEF Init, LineInv, ServedInv
<1>3. QED
    BY <1>1, <1>2 DEF Inv

LEMMA NextInv == Inv /\ [Next]_vars => Inv'
<1> SUFFICES ASSUME Inv, [Next]_vars PROVE Inv'
    OBVIOUS
<1> USE DEF Inv
<1>0. Main \notin Interrupter
    BY DEF Main, Interrupter
<1>1. ASSUME NEW i \in Interrupter, InterruptLoop(i) PROVE Inv'
    <2> USE <1>1 DEF InterruptLoop
    <2>0. Interval[i] \in Nat /\ Interval[i] # 0
        BY IntervalAssumption
    <2>1. Period(i) \in Nat /\ Period(i) <= Interval[i] /\ Period(i) # 0
        BY <2>0 DEF Period
    <2>2. TypeOK'
        BY <2>1 DEF TypeOK
    <2>3. changed = {}
        BY DEF ServedInv
    <2>4. LineInv'
        BY DEF LineInv
    <2>5. ServedInv'
        BY <2>3 DEF ServedInv, LineInv, TypeOK
    <2>6. QED
        BY <2>2, <2>4, <2>5
<1>2. ASSUME NEW i \in Interrupter, EnterHandler(i) PROVE Inv'
    BY <1>2, <1>0 DEF EnterHandler, signalVars, TypeOK, LineInv, ServedInv
<1>3. CASE Acknowledge
    <2> USE <1>3 DEF Acknowledge
    <2>1. handler \in Interrupter /\ handler \in entered
        BY DEF TypeOK, ServedInv
    <2>2. Route(Address(handler)) = {handler}
        BY <2>1, RouteOwn DEF TypeOK
    <2>3. TypeOK'
        BY DEF TypeOK
    <2>4. LineInv'
        BY DEF LineInv
    <2>5. ServedInv'
        BY <2>1, <2>2 DEF ServedInv, TypeOK
    <2>6. QED
        BY <2>3, <2>4, <2>5
<1>4. ASSUME NEW i \in Interrupter, Report(i) PROVE Inv'
    <2> USE <1>4 DEF Report
    <2>1. TypeOK'
        BY DEF TypeOK
    <2>2. LineInv'
        BY DEF LineInv, TypeOK
    <2>3. ServedInv'
        BY DEF ServedInv, TypeOK
    <2>4. QED
        BY <2>1, <2>2, <2>3
<1>5. CASE UpdatePhase
    <2> USE <1>5 DEF UpdatePhase, Runnable
    <2>1. TypeOK'
        BY DEF TypeOK
    <2>2. LineInv'
        BY DEF LineInv, TypeOK
    <2>3. ServedInv'
        BY DEF ServedInv, LineInv, TypeOK
    <2>4. QED
        BY <2>1, <2>2, <2>3
<1>6. CASE Tick
    <2> USE <1>6 DEF Tick, Runnable, signalVars
    <2>1. \A i \in Interrupter : left'[i] = left[i] - 1 /\ left[i] \in Nat \ {0}
        BY DEF TypeOK, Stopped
    <2>2. TypeOK'
        BY <2>1, IntervalAssumption DEF TypeOK
    <2>3. LineInv' /\ ServedInv'
        BY DEF LineInv, ServedInv
    <2>4. QED
        BY <2>2, <2>3
<1>7. CASE UNCHANGED vars
    BY <1>7 DEF vars, signalVars, TypeOK, LineInv, ServedInv
<1>8. QED
    BY <1>1, <1>2, <1>3, <1>4, <1>5, <1>6, <1>7 DEF Next

(* The inductive invariant holds in every state.                           *)
THEOREM InterruptsInvariant == Spec => []Inv
BY InitInv, NextInv, PTL DEF Spec

(* Every variable keeps its type; no interrupt_loop oversleeps.            *)
THEOREM TypeCorrect == Spec => []TypeOK
<1>1. Inv => TypeOK
    BY DEF Inv
<1>2. QED
    BY InterruptsInvariant, <1>1, PTL

(* Once every change is reported, Renode knows the lines as they are.      *)
THEOREM LinesReported == Spec => []LineSettles
<1>1. Inv => LineSettles
    BY DEF Inv, LineInv, TypeOK, LineSettles
<1>2. QED
    BY InterruptsInvariant, <1>1, PTL

(* No step lets a line down whose handler has not been active since the    *)
(* line was raised.                                                        *)
THEOREM NoneDropped == Spec => NotDroppedUnserved
<1> DEFINE Kept == \A i \in Interrupter : line[i] /\ ~line'[i] => i \in entered
<1>1. Inv /\ [Next]_vars => [Kept]_vars
    <2> SUFFICES ASSUME Inv, [Next]_vars PROVE [Kept]_vars
        OBVIOUS
    <2>1. ASSUME NEW i \in Interrupter, Report(i) PROVE Kept
        BY <2>1 DEF Report, Inv, ServedInv, TypeOK
    <2>2. ASSUME line' = line PROVE Kept
        BY <2>2
    <2>3. QED
        BY <2>1, <2>2 DEF Next, InterruptLoop, EnterHandler, Acknowledge, UpdatePhase, Tick,
                          vars
<1>2. QED
    BY <1>1, InterruptsInvariant, PTL DEF Spec, NotDroppedUnserved
=============================================================================
