----------------------- MODULE SignalsPeripheralProofs -----------------------
(***************************************************************************)
(* Theorems about module SignalsPeripheral, which has no constants: they   *)
(* hold of every sequence of accesses, GPIO messages and delta cycles.     *)
(***************************************************************************)
EXTENDS SignalsPeripheral, TLAPS

(* The lines whose write is committed in handle_write.                     *)
Committed == {"level", "core_reset_in", "vtor"}

(* Renode's level is on its way until the update, and is there once the    *)
(* wait at the head of receive_b_transport is over.                        *)
InputInv ==
    /\ in_next = sent
    /\ handler \notin {"idle", "settle", "ended"} => in_system_reset_request = sent

(* From the edge that wakes on_system_reset_request to the update that     *)
(* ends its wait the request is up, so the next edge finds it listening.   *)
ResetterInv == resetter \in {"woken", "settle"} => in_system_reset_request

(* A line whose method has run is as Renode knows it.                      *)
ReportInv == \A s \in Output : s \notin notify => reported[s] = out[s]

(* Where a committed write is: written, updated, reported.                 *)
WriteInv ==
    access.signal \in Committed =>
        LET s == access.signal IN
        /\ handler \in {"commit", "last", "reply"} => out_next[s] = NewState(access)
        /\ handler \in {"last", "reply"} => out[s] = out_next[s]
        /\ handler = "reply" => s \notin notify

(* Whoever is in the middle of writing core_reset_in owns it, so that the  *)
(* other one is not.                                                       *)
DriverInv ==
    /\ resetter \in {"settle", "ready"} => driver = "on_system_reset_request"
    /\ access.signal = "core_reset_in" /\ handler \in {"commit", "last", "reply"} =>
          driver = "bridge"

(* The pulse, from the write of the line to the end of the wait.           *)
PulseInv ==
    /\ resetter = "settle" => out_next["core_reset_in"] = 1
    /\ ResetPulseSeen

Inv == TypeOK /\ InputInv /\ ResetterInv /\ ReportInv /\ WriteInv /\ DriverInv /\ PulseInv
-----------------------------------------------------------------------------
LEMMA NoAccessType == NoAccess \in Access
<1>1. NoAccess \in [is_read : {TRUE}, signal : {"request", "unknown"}, data : {0}]
    BY DEF NoAccess
<1>2. QED
    BY <1>1 DEF Access

LEMMA InitInv == Init => Inv
<1> SUFFICES ASSUME Init PROVE Inv
    OBVIOUS
<1>1. TypeOK
    <2>1. out \in [Output -> 0 .. 1] /\ out_next = out /\ reported = out
        BY DEF Init
    <2>2. {out, out_next, reported} \subseteq [Output -> 0 .. 1]
        BY <2>1
    <2>3. {in_system_reset_request, in_next, sent} \subseteq BOOLEAN
        BY DEF Init
    <2>4. QED
        BY <2>2, <2>3, NoAccessType DEF Init, TypeOK, HandlerStates
<1>2. InputInv /\ ResetterInv /\ ReportInv /\ WriteInv
    BY DEF Init, InputInv, ResetterInv, ReportInv, WriteInv, NoAccess, Committed
<1>3. DriverInv /\ PulseInv
    BY DEF Init, DriverInv, PulseInv, ResetPulseSeen
<1>4. QED
    BY <1>1, <1>2, <1>3 DEF Inv

(* A write puts 0 or 1 on its line.                                        *)
LEMMA NewStateType == ASSUME NEW a PROVE NewState(a) \in 0 .. 1
BY DEF NewState

(* The types, action by action.                                            *)
LEMMA NextType == Inv /\ [Next]_vars => TypeOK'
<1> SUFFICES ASSUME Inv, [Next]_vars PROVE TypeOK'
    OBVIOUS
<1> USE DEF Inv, TypeOK, HandlerStates
<1>1. ASSUME NEW level \in BOOLEAN, GpioIn(level) PROVE TypeOK'
    BY <1>1 DEF GpioIn, outVars, resetVars
<1>2. ASSUME NEW a \in Access, ReceiveTransport(a) PROVE TypeOK'
    BY <1>2 DEF ReceiveTransport, outVars, inVars, resetVars
<1>3. CASE Abort \/ HandleRead \/ HandleWriteFails \/ RaiseResetFails
    BY <1>3 DEF Abort, HandleRead, HandleWriteFails, RaiseResetFails, outVars, inVars, resetVars
<1>4. CASE HandleWrite
    <2>1. out_next \in [Output -> 0 .. 1] /\ NewState(access) \in 0 .. 1
        BY NewStateType
    <2>2. out_next' \in [Output -> 0 .. 1]
        BY <1>4, <2>1 DEF HandleWrite
    <2>3. QED
        BY <1>4, <2>2 DEF HandleWrite, inVars
<1>5. CASE Reply
    BY <1>5, NoAccessType DEF Reply, outVars, inVars, resetVars
<1>6. CASE RaiseReset \/ LowerReset
    BY <1>6 DEF RaiseReset, LowerReset, inVars
<1>7. ASSUME NEW s \in Output, Report(s) PROVE TypeOK'
    BY <1>7 DEF Report, inVars, resetVars
<1>8. CASE UpdatePhase
    BY <1>8 DEF UpdatePhase
<1>9. CASE UNCHANGED vars
    BY <1>9 DEF vars, outVars, inVars, resetVars
<1>10. QED
    BY <1>1, <1>2, <1>3, <1>4, <1>5, <1>6, <1>7, <1>8, <1>9 DEF Next

(* The input and the thread that waits for its edge.                       *)
LEMMA NextInput == Inv /\ [Next]_vars => InputInv' /\ ResetterInv'
<1> SUFFICES ASSUME Inv, [Next]_vars PROVE InputInv' /\ ResetterInv'
    OBVIOUS
<1> USE DEF Inv, TypeOK, HandlerStates, InputInv, ResetterInv
<1>1. ASSUME NEW level \in BOOLEAN, GpioIn(level) PROVE InputInv' /\ ResetterInv'
    BY <1>1 DEF GpioIn, resetVars
<1>2. ASSUME NEW a \in Access, ReceiveTransport(a) PROVE InputInv' /\ ResetterInv'
    BY <1>2 DEF ReceiveTransport, inVars, resetVars
<1>3. CASE Abort \/ HandleRead \/ HandleWrite \/ HandleWriteFails \/ RaiseResetFails \/ Reply
    BY <1>3 DEF Abort, HandleRead, HandleWrite, HandleWriteFails, RaiseResetFails, Reply,
        inVars, resetVars
<1>4. CASE RaiseReset \/ LowerReset
    BY <1>4 DEF RaiseReset, LowerReset, inVars
<1>5. ASSUME NEW s \in Output, Report(s) PROVE InputInv' /\ ResetterInv'
    BY <1>5 DEF Report, inVars, resetVars
<1>6. CASE UpdatePhase
    BY <1>6 DEF UpdatePhase, Running, Runnable
<1>7. CASE UNCHANGED vars
    BY <1>7 DEF vars, inVars, resetVars
<1>8. QED
    BY <1>1, <1>2, <1>3, <1>4, <1>5, <1>6, <1>7 DEF Next

(* The outputs and their way to Renode.                                    *)
LEMMA NextOutput == Inv /\ [Next]_vars => ReportInv' /\ WriteInv'
<1> SUFFICES ASSUME Inv, [Next]_vars PROVE ReportInv' /\ WriteInv'
    OBVIOUS
<1> USE DEF Inv, TypeOK, ReportInv, WriteInv
<1>1. ASSUME NEW level \in BOOLEAN, GpioIn(level) PROVE ReportInv' /\ WriteInv'
    BY <1>1 DEF GpioIn, outVars, NewState
<1>2. ASSUME NEW a \in Access, ReceiveTransport(a) PROVE ReportInv' /\ WriteInv'
    BY <1>2 DEF ReceiveTransport, outVars
<1>3. CASE Abort \/ HandleWriteFails \/ RaiseResetFails
    BY <1>3 DEF Abort, HandleWriteFails, RaiseResetFails, outVars
<1>4. CASE HandleRead
    BY <1>4 DEF HandleRead, outVars, Access, Committed
<1>5. CASE HandleWrite
    BY <1>5 DEF HandleWrite, Committed, Output, NewState
<1>6. CASE Reply
    BY <1>6 DEF Reply, outVars, NoAccess, Committed
<1>7. CASE RaiseReset \/ LowerReset
    <2>1. ~(access.signal = "core_reset_in" /\ handler \in {"commit", "last", "reply"})
        BY <1>7 DEF RaiseReset, LowerReset, DriverInv, MayDrive
    <2>2. QED
        BY <1>7, <2>1 DEF RaiseReset, LowerReset, Committed, Output, NewState
<1>8. ASSUME NEW s \in Output, Report(s) PROVE ReportInv' /\ WriteInv'
    BY <1>8 DEF Report, NewState
<1>9. CASE UpdatePhase
    <2>1. notify = {} /\ handler \notin {"access", "reply"}
        BY <1>9 DEF UpdatePhase, Runnable
    <2>2. ReportInv'
        BY <1>9, <2>1 DEF UpdatePhase
    <2>3. WriteInv'
        BY <1>9, <2>1 DEF UpdatePhase, Committed, Output, NewState, HandlerStates
    <2>4. QED
        BY <2>2, <2>3
<1>10. CASE UNCHANGED vars
    BY <1>10 DEF vars, outVars, NewState
<1>11. QED
    BY <1>1, <1>2, <1>3, <1>4, <1>5, <1>6, <1>7, <1>8, <1>9, <1>10 DEF Next

(* The line that two processes write belongs to one of them.               *)
LEMMA NextDriver == Inv /\ [Next]_vars => DriverInv'
<1> SUFFICES ASSUME Inv, [Next]_vars PROVE DriverInv'
    OBVIOUS
<1> USE DEF Inv, TypeOK, DriverInv, resetVars
<1>1. ASSUME NEW level \in BOOLEAN, GpioIn(level) PROVE DriverInv'
    BY <1>1 DEF GpioIn
<1>2. ASSUME NEW a \in Access, ReceiveTransport(a) PROVE DriverInv'
    BY <1>2 DEF ReceiveTransport
<1>3. CASE Abort \/ HandleWriteFails \/ RaiseResetFails
    BY <1>3 DEF Abort, HandleWriteFails, RaiseResetFails
<1>4. CASE HandleRead
    BY <1>4 DEF HandleRead, Access
<1>5. CASE HandleWrite
    BY <1>5 DEF HandleWrite, MayDrive
<1>6. CASE Reply
    BY <1>6 DEF Reply
<1>7. CASE RaiseReset
    BY <1>7 DEF RaiseReset, MayDrive
<1>8. CASE LowerReset
    BY <1>8 DEF LowerReset
<1>9. ASSUME NEW s \in Output, Report(s) PROVE DriverInv'
    BY <1>9 DEF Report
<1>10. CASE UpdatePhase
    <2>1. handler \notin {"access", "reply"} /\ resetter \notin {"woken", "ready"}
        BY <1>10 DEF UpdatePhase, Runnable
    <2>2. QED
        BY <1>10, <2>1 DEF UpdatePhase, HandlerStates
<1>11. CASE UNCHANGED vars
    BY <1>11 DEF vars
<1>12. QED
    BY <1>1, <1>2, <1>3, <1>4, <1>5, <1>6, <1>7, <1>8, <1>9, <1>10, <1>11 DEF Next

(* The pulse: the owner of the line is the only one to write it.           *)
LEMMA NextPulse == Inv /\ [Next]_vars => PulseInv'
<1> SUFFICES ASSUME Inv, [Next]_vars PROVE PulseInv'
    OBVIOUS
<1>1. out_next \in [Output -> 0 .. 1] /\ "core_reset_in" \in Output
    BY DEF Inv, TypeOK, Output
<1>2. PulseInv
    BY DEF Inv
<1> USE DEF PulseInv, ResetPulseSeen, resetVars
<1>3. ASSUME NEW level \in BOOLEAN, GpioIn(level) PROVE PulseInv'
    BY <1>2, <1>3 DEF GpioIn, outVars
<1>4. ASSUME NEW a \in Access, ReceiveTransport(a) PROVE PulseInv'
    BY <1>2, <1>4 DEF ReceiveTransport, outVars
<1>5. CASE Abort \/ HandleRead \/ HandleWriteFails \/ RaiseResetFails \/ Reply
    BY <1>2, <1>5 DEF Abort, HandleRead, HandleWriteFails, RaiseResetFails, Reply, outVars
<1>6. CASE HandleWrite
    <2>1. resetter = "settle" => access.signal # "core_reset_in"
        BY <1>6 DEF HandleWrite, MayDrive, Inv, DriverInv
    <2>2. QED
        BY <1>1, <1>2, <1>6, <2>1 DEF HandleWrite
<1>7. CASE RaiseReset
    BY <1>1, <1>7 DEF RaiseReset
<1>8. CASE LowerReset
    BY <1>8 DEF LowerReset
<1>9. ASSUME NEW s \in Output, Report(s) PROVE PulseInv'
    BY <1>2, <1>9 DEF Report
<1>10. CASE UpdatePhase
    <2>1. resetter # "ready" /\ resetter' # "settle"
        BY <1>10 DEF UpdatePhase, Runnable, Inv, TypeOK
    <2>2. resetter' = "ready" => resetter = "settle"
        BY <1>10, <2>1 DEF UpdatePhase, Inv, TypeOK
    <2>3. QED
        BY <1>2, <1>10, <2>1, <2>2 DEF UpdatePhase
<1>11. CASE UNCHANGED vars
    BY <1>2, <1>11 DEF vars, outVars
<1>12. QED
    BY <1>3, <1>4, <1>5, <1>6, <1>7, <1>8, <1>9, <1>10, <1>11 DEF Next

LEMMA NextInv == Inv /\ [Next]_vars => Inv'
BY NextType, NextInput, NextOutput, NextDriver, NextPulse DEF Inv
-----------------------------------------------------------------------------
(* The state of signals_peripheral, of its inputs and of what the bridge   *)
(* has reported of its outputs.                                            *)
THEOREM PeripheralInvariant == Spec => []Inv
BY InitInv, NextInv, PTL DEF Spec

(* Types hold: an output is 0 or 1, whatever byte was written to it.       *)
THEOREM TypeCorrect == Spec => []TypeOK
<1>1. Inv => TypeOK
    BY DEF Inv
<1>2. QED
    BY <1>1, PeripheralInvariant, PTL

(* handle_read returns the level Renode sent last.                         *)
THEOREM ReadsCurrent == Spec => ReadIsCurrent
<1>1. Inv /\ [Next]_vars => [HandleRead => in_system_reset_request = sent]_vars
    BY DEF Inv, InputInv, HandleRead
<1>2. QED
    BY <1>1, PeripheralInvariant, PTL DEF Spec, ReadIsCurrent

(* The reply to a committed write follows the report of its line.          *)
THEOREM ReportsFirst == Spec => ReportedBeforeReply
<1>1. Inv /\ [Next]_vars =>
        [Reply /\ access.signal \in {"level", "core_reset_in", "vtor"} =>
            reported[access.signal] = NewState(access)]_vars
    BY DEF Inv, ReportInv, WriteInv, Reply, Committed, Output
<1>2. QED
    BY <1>1, PeripheralInvariant, PTL DEF Spec, ReportedBeforeReply

(* No CoreResetIn write cuts a reset pulse short: while the pulse is on    *)
(* its way, the line belongs to on_system_reset_request.                   *)
THEOREM PulseReachesCore == Spec => []ResetPulseSeen
<1>1. Inv => ResetPulseSeen
    BY DEF Inv, PulseInv
<1>2. QED
    BY <1>1, PeripheralInvariant, PTL

(* Every rising edge of the request wakes on_system_reset_request.         *)
THEOREM RequestsNotLost == Spec => NoLostResetRequest
<1>1. ASSUME Inv, [Next]_vars, ~in_system_reset_request, in_system_reset_request'
      PROVE  resetter' = "woken"
    <2>1. CASE UpdatePhase
        BY <1>1, <2>1 DEF Inv, TypeOK, ResetterInv, UpdatePhase, Runnable
    <2>2. CASE UNCHANGED in_system_reset_request
        BY <1>1, <2>2
    <2>3. QED
        BY <1>1, <2>1, <2>2 DEF Next, GpioIn, ReceiveTransport, Abort, HandleRead,
            HandleWrite, HandleWriteFails, Reply, RaiseReset, RaiseResetFails, LowerReset,
            Report, vars, inVars
<1>2. Inv /\ [Next]_vars =>
        [~in_system_reset_request /\ in_system_reset_request' => resetter' = "woken"]_vars
    BY <1>1
<1>3. QED
    BY <1>2, PeripheralInvariant, PTL DEF Spec, NoLostResetRequest
=============================================================================
