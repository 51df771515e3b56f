-------------------------- MODULE SignalsPeripheral -------------------------
(***************************************************************************)
(* The cortex-m-signals example: signals_peripheral turns Renode's         *)
(* accesses into changes of its output signals, which the bridge reports   *)
(* back to Renode as GPIO messages, and answers a system reset request     *)
(* with a pulse on core_reset_in.                                          *)
(*                                                                         *)
(* Delta cycles as in SystemC: processes run in any order until none is    *)
(* runnable; the update phase then gives signals their new values, makes   *)
(* the processes sensitive to a change runnable and ends the waits for     *)
(* SC_ZERO_TIME.  A signal of the default writer policy belongs to the     *)
(* process that writes it first; a write by another one is an error that   *)
(* ends the simulation.                                                    *)
(***************************************************************************)
EXTENDS Naturals

VARIABLES
    handler,         \* where receive_b_transport is
    access,          \* its payload
    out, out_next,   \* output signals: current value, value after the update
    notify,          \* outputs whose change the bridge has not reported
    reported,        \* outputs as Renode last heard of them
    in_system_reset_request, in_next,
    sent,            \* the level of it that Renode last sent
    resetter,        \* where on_system_reset_request is
    driver           \* the process that core_reset_in belongs to

outVars == <<out, out_next, notify, reported>>
inVars == <<in_system_reset_request, in_next, sent>>
resetVars == <<resetter, driver>>
vars == <<handler, access, outVars, inVars, resetVars>>

(* "irq" stands for the NVIC inputs, "level" for NMI, CPUWAIT and power-on *)
(* reset, "vtor" for the two vector table offsets (0: the initial one, 1:  *)
(* the one a write selects, whatever its data).                            *)
Output == {"irq", "level", "core_reset_in", "vtor"}

(* "request" stands for the four readable inputs; "unknown" for an offset  *)
(* that no case of the switch handles.                                     *)
Access ==
    [is_read : {FALSE}, signal : Output \cup {"unknown"}, data : 0 .. 2]
    \cup [is_read : {TRUE}, signal : {"request", "unknown"}, data : {0}]

NoAccess == [is_read |-> TRUE, signal |-> "unknown", data |-> 0]

(* The waits of receive_b_transport are "settle" (before the access),      *)
(* "commit" (at the end of handle_write) and "last" (before the reply).    *)
(* "ended": the whole simulation is over.                                  *)
HandlerStates == {"idle", "settle", "access", "commit", "last", "reply", "ended"}

Running == handler # "ended"
Runnable == handler \in {"access", "reply"} \/ resetter \in {"woken", "ready"} \/ notify # {}

\* Fault: the byte is written as it is.
NewStateRaw(a) == a.data

(* The byte of the payload, cast to bool.                                  *)
NewState(a) == IF a.signal = "vtor" \/ a.data # 0 THEN 1 ELSE 0
-----------------------------------------------------------------------------
(* The ports' initialize() and the constructor's defaults, settled.        *)
Init ==
    /\ handler = "idle" /\ access = NoAccess
    /\ out = [s \in Output |-> 0] /\ out_next = out
    /\ notify = {} /\ reported = out
    /\ in_system_reset_request = FALSE /\ in_next = FALSE /\ sent = FALSE
    /\ resetter = "static" /\ driver = "none"

(* A GPIO message for an input: the bridge's thread writes its port.       *)
GpioIn(level) ==
    /\ handler = "idle"
    /\ in_next' = level
    /\ sent' = level
    /\ UNCHANGED <<handler, access, outVars, in_system_reset_request, resetVars>>

(* Fault: no wait before the access.                                       *)
ReceiveTransportAtOnce(a) ==
    /\ handler = "idle"
    /\ handler' = "access"
    /\ access' = a
    /\ UNCHANGED <<outVars, inVars, resetVars>>

(* receive_b_transport, up to its first wait.                              *)
ReceiveTransport(a) ==
    /\ handler = "idle"
    /\ handler' = "settle"
    /\ access' = a
    /\ UNCHANGED <<outVars, inVars, resetVars>>

(* The default cases of both switches.                                     *)
Abort ==
    /\ handler = "access"
    /\ access.signal = "unknown"
    /\ handler' = "ended"
    /\ UNCHANGED <<access, outVars, inVars, resetVars>>

HandleRead ==
    /\ handler = "access"
    /\ access.is_read /\ access.signal # "unknown"
    /\ handler' = "reply"
    /\ UNCHANGED <<access, outVars, inVars, resetVars>>

(* Fault: core_reset_in declared with SC_MANY_WRITERS.                     *)
MayDriveAnyway(process) == TRUE

(* sc_signal<bool> m_out_core_reset_in, with the default writer policy.    *)
MayDrive(process) == driver \in {"none", process}

(* Fault: every write returns before the commit.                           *)
HandleWriteNoCommit ==
    /\ handler = "access"
    /\ ~access.is_read /\ access.signal # "unknown"
    /\ access.signal = "core_reset_in" => MayDrive("bridge")
    /\ driver' = IF access.signal = "core_reset_in" THEN "bridge" ELSE driver
    /\ out_next' = [out_next EXCEPT ![access.signal] = NewState(access)]
    /\ handler' = "last"
    /\ UNCHANGED <<access, out, notify, reported, inVars, resetter>>

(* An NVIC interrupt returns before the commit.                            *)
HandleWrite ==
    /\ handler = "access"
    /\ ~access.is_read /\ access.signal # "unknown"
    /\ access.signal = "core_reset_in" => MayDrive("bridge")
    /\ driver' = IF access.signal = "core_reset_in" THEN "bridge" ELSE driver
    /\ out_next' = [out_next EXCEPT ![access.signal] = NewState(access)]
    /\ handler' = IF access.signal = "irq" THEN "last" ELSE "commit"
    /\ UNCHANGED <<access, out, notify, reported, inVars, resetter>>

(* CoreResetIn written by the bridge's process after a reset pulse.        *)
HandleWriteFails ==
    /\ handler = "access"
    /\ ~access.is_read /\ access.signal = "core_reset_in"
    /\ ~MayDrive("bridge")
    /\ handler' = "ended"
    /\ UNCHANGED <<access, outVars, inVars, resetVars>>

Reply ==
    /\ handler = "reply"
    /\ handler' = "idle"
    /\ access' = NoAccess
    /\ UNCHANGED <<outVars, inVars, resetVars>>

RaiseReset ==
    /\ Running
    /\ resetter = "woken"
    /\ MayDrive("on_system_reset_request")
    /\ driver' = "on_system_reset_request"
    /\ out_next' = [out_next EXCEPT !["core_reset_in"] = 1]
    /\ resetter' = "settle"
    /\ UNCHANGED <<handler, access, out, notify, reported, inVars>>

(* A reset request after a write of CoreResetIn.                           *)
RaiseResetFails ==
    /\ Running
    /\ resetter = "woken"
    /\ ~MayDrive("on_system_reset_request")
    /\ handler' = "ended"
    /\ UNCHANGED <<access, outVars, inVars, resetVars>>

(* Fault: the thread waits until the pulse is over before it listens again. *)
LowerResetSlowly ==
    /\ Running
    /\ resetter = "ready"
    /\ out_next' = [out_next EXCEPT !["core_reset_in"] = 0]
    /\ resetter' = IF out["core_reset_in"] = 1 THEN "settle" ELSE "static"
    /\ UNCHANGED <<handler, access, out, notify, reported, inVars, driver>>

(* The wait() that follows is for the static sensitivity, the positive     *)
(* edge of in_system_reset_request.                                        *)
LowerReset ==
    /\ Running
    /\ resetter = "ready"
    /\ out_next' = [out_next EXCEPT !["core_reset_in"] = 0]
    /\ resetter' = "static"
    /\ UNCHANGED <<handler, access, out, notify, reported, inVars, driver>>

(* The bridge's method for an output sends a GPIO message.                 *)
Report(s) ==
    /\ Running
    /\ s \in notify
    /\ notify' = notify \ {s}
    /\ reported' = [reported EXCEPT ![s] = out[s]]
    /\ UNCHANGED <<handler, access, out, out_next, inVars, resetVars>>

(* Fault: the commit waits for a change of an output.                      *)
UpdatePhaseOnChange ==
    /\ Running
    /\ ~Runnable
    /\ \/ out # out_next \/ in_system_reset_request # in_next
       \/ handler # "idle" \/ resetter = "settle"
    /\ out' = out_next
    /\ notify' = {s \in Output : out[s] # out_next[s]}
    /\ in_system_reset_request' = in_next
    /\ handler' = CASE handler = "settle" -> "access"
                    [] handler = "commit" /\ out # out_next -> "last"
                    [] handler = "last" -> "reply"
                    [] OTHER -> handler
    /\ resetter' = CASE resetter = "settle" -> "ready"
                     [] resetter = "static" /\ in_next /\ ~in_system_reset_request -> "woken"
                     [] OTHER -> resetter
    /\ UNCHANGED <<access, out_next, reported, in_next, sent, driver>>

UpdatePhase ==
    /\ Running
    /\ ~Runnable
    /\ \/ out # out_next \/ in_system_reset_request # in_next
       \/ handler # "idle" \/ resetter = "settle"
    /\ out' = out_next
    /\ notify' = {s \in Output : out[s] # out_next[s]}
    /\ in_system_reset_request' = in_next
    /\ handler' = CASE handler = "settle" -> "access"
                    [] handler = "commit" -> "last"
                    [] handler = "last" -> "reply"
                    [] OTHER -> handler
    /\ resetter' = CASE resetter = "settle" -> "ready"
                     [] resetter = "static" /\ in_next /\ ~in_system_reset_request -> "woken"
                     [] OTHER -> resetter
    /\ UNCHANGED <<access, out_next, reported, in_next, sent, driver>>

Next ==
    \/ \E level \in BOOLEAN : GpioIn(level)
    \/ \E a \in Access : ReceiveTransport(a)
    \/ Abort \/ HandleRead \/ HandleWrite \/ HandleWriteFails \/ Reply
    \/ RaiseReset \/ RaiseResetFails \/ LowerReset
    \/ \E s \in Output : Report(s)
    \/ UpdatePhase

Spec == Init /\ [][Next]_vars

(* The kernel runs what is runnable, and ends a delta cycle in which       *)
(* nothing is.                                                             *)
FairSpec ==
    /\ Spec
    /\ WF_vars(Abort \/ HandleRead \/ HandleWrite \/ HandleWriteFails \/ Reply)
    /\ WF_vars(RaiseReset \/ RaiseResetFails \/ LowerReset)
    /\ \A s \in Output : WF_vars(Report(s))
    /\ WF_vars(UpdatePhase)
-----------------------------------------------------------------------------
(* Every variable has its type.                                            *)
TypeOK ==
    /\ handler \in HandlerStates /\ access \in Access
    /\ {out, out_next, reported} \subseteq [Output -> 0 .. 1]
    /\ notify \subseteq Output
    /\ {in_system_reset_request, in_next, sent} \subseteq BOOLEAN
    /\ resetter \in {"static", "woken", "settle", "ready"}
    /\ driver \in {"none", "bridge", "on_system_reset_request"}

(* signals_peripheral.cpp:36 "Yield to let the signals update first": a    *)
(* read returns the level Renode sent last, even if nothing ran between    *)
(* the GPIO message and the read.                                          *)
ReadIsCurrent == [][HandleRead => in_system_reset_request = sent]_vars

(* When the reply to a write leaves, Renode has been told of the new state *)
(* of the line, so that software that continues after the store finds it   *)
(* in effect.  For the lines whose write is committed in handle_write;     *)
(* that a reset request does not get in between is due to the writer       *)
(* policy of core_reset_in.                                                *)
ReportedBeforeReply ==
    [][Reply /\ access.signal \in {"level", "core_reset_in", "vtor"} =>
          reported[access.signal] = NewState(access)]_vars

(* However fast requests follow each other, on_system_reset_request waits  *)
(* for the edge whenever one comes.  (What it then writes ends the         *)
(* simulation if the line is not its own.)                                 *)
NoLostResetRequest ==
    [][~in_system_reset_request /\ in_system_reset_request' => resetter' = "woken"]_vars

(* A pulse that on_system_reset_request has begun is on core_reset_in for  *)
(* a whole delta cycle, although receive_b_transport writes the same line: *)
(* no access that falls between the thread's two writes cuts it short (it  *)
(* ends the simulation instead).                                           *)
ResetPulseSeen == resetter = "ready" => out["core_reset_in"] = 1

(* core_reset_in has been given to one process and the other one writes.   *)
TwoDrivers ==
    \/ driver = "bridge" /\ resetter = "woken"
    \/ driver = "on_system_reset_request" /\ access.signal = "core_reset_in"

(* Renode, which is blocked on the access, gets an answer, unless the      *)
(* simulation ends: that it does only for an offset nobody handles, and    *)
(* when both a write of CoreResetIn and a reset request have come.         *)
TransactionEnds ==
    handler # "idle" ~>
        \/ handler = "idle"
        \/ handler = "ended" /\ (access.signal = "unknown" \/ TwoDrivers)

(* signals_peripheral.cpp:43 "Wait another delta cycle to let              *)
(* event-sensitive processes handle the signal update before the blocking  *)
(* transaction can reply", for every write.                                *)
WriteHandledBeforeReply ==
    [][Reply /\ access.signal \in Output =>
          reported[access.signal] = NewState(access)]_vars
=============================================================================
