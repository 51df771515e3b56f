--------------------------- MODULE PeripheralTiming --------------------------
(***************************************************************************)
(* The two places where the peripheral of the multiple-peripherals example *)
(* computes with simulation time:                                          *)
(*   - the free-running timer, modelled in the code without a clock: a     *)
(*     start time, a rollover event, and a value computed when the         *)
(*     register is read;                                                   *)
(*   - the pacing of DMA transfers by an annotated delay.                  *)
(* Time is counted in ticks.  sc_time is an unsigned integer: differences  *)
(* are taken modulo TimeMod, as the 64-bit subtraction does.               *)
(***************************************************************************)
EXTENDS Integers

CONSTANTS Period,    \* clock_period, in ticks
          TimerMod,  \* 2^w for the w-bit timer register
          TimeMod,   \* 2^64 for sc_time
          MaxNow,    \* bound: the last tick that is explored
          MaxStart,  \* bound: the last tick at which the CPU issues a start
          Delays     \* annotated delays with which the CPU's accesses arrive

ASSUME TimingAssumption ==
    /\ Period \in Nat \ {0} /\ TimerMod \in Nat \ {0}
    /\ MaxNow \in Nat /\ MaxStart \in Nat
    /\ TimeMod \in Nat /\ TimeMod > 2 * (MaxNow + Period * (TimerMod + 2))
    /\ Delays \subseteq Nat

VARIABLES
    now,
    start_time, start_time_valid,
    timer, timer_done,
    done_at,              \* when timer_done_event is due; Never if not pending
    cpu,                  \* the CPU's access in progress
    returned,             \* annotated delay that its last access returned
    previous_time_stamp,
    issued,               \* a transfer has been issued
    paced                 \* all transfers take effect a period apart

timerVars == <<start_time, start_time_valid, timer, timer_done, done_at>>
pacingVars == <<previous_time_stamp, issued, paced>>
vars == <<now, timerVars, cpu, returned, pacingVars>>

Never == -1
Idle == [op |-> "idle", at |-> 0]
Beat == Period                 \* one bus beat: ceil(4 / 4) * clock_period

TimeDiff(a, b) == (a - b) % TimeMod

\* Fault: rounding down.
FloorDiv(a, b) == a \div b

CeilDiv(a, b) == (a + b - 1) \div b
Rollover == start_time + TimerMod * Period

\* Fault: a value that does not fit is stored all the same.
ToTimerUnchecked(x) == {x}

(* Conversion of a non-negative double to the timer's integer type: exact  *)
(* when it fits, undefined (any value) when it does not.                   *)
ToTimer(x) == IF x < TimerMod THEN {x} ELSE 0 .. TimerMod - 1
-----------------------------------------------------------------------------
Init ==
    /\ now = 0
    /\ start_time = 0 /\ start_time_valid = FALSE
    /\ timer = 0 /\ timer_done = FALSE
    /\ done_at = Never
    /\ cpu = Idle
    /\ returned = 0
    /\ previous_time_stamp = 0
    /\ issued = FALSE /\ paced = TRUE

(* An access to a register arrives.  The initiator honours the delay its   *)
(* last access returned, and b_transport first waits for the delay the     *)
(* access itself carries.                                                  *)
Access(op) ==
    /\ cpu = Idle
    /\ op = "start" => now <= MaxStart
    /\ \E d \in Delays : cpu' = [op |-> op, at |-> now + returned + d]
    /\ UNCHANGED <<now, timerVars, returned, pacingVars>>

\* Fault: a later start wins.
LatestStart(new_start_time) == new_start_time

(* An earlier start stays. *)
EarliestStart(new_start_time) ==
    IF start_time_valid /\ start_time < new_start_time THEN start_time ELSE new_start_time

\* Fault: starting again cancels the event.
NotifiedOrCancelled(due) == IF start_time_valid THEN Never ELSE due

(* timer_done_event.notify, unless the rollover has passed: an sc_event    *)
(* keeps the earlier of two notifications, and the thread waits for it     *)
(* only once.                                                              *)
Notified(due) ==
    IF due >= now /\ ~timer_done /\ (done_at = Never \/ due < done_at) THEN due ELSE done_at

(* start_timer: the start is one bus beat away, and the rollover event is  *)
(* scheduled from it.                                                      *)
StartTimer ==
    /\ cpu.op = "start" /\ cpu.at = now
    /\ start_time' = EarliestStart(now + Beat)
    /\ done_at' = Notified(EarliestStart(now + Beat) + TimerMod * Period)
    /\ start_time_valid' = TRUE
    /\ returned' = Beat
    /\ cpu' = Idle
    /\ UNCHANGED <<now, timer, timer_done, pacingVars>>

(* update_timer, then the read: the value is rounded up to a cycle and the *)
(* remainder is annotated.                                                 *)
ReadTimer ==
    /\ cpu.op = "read" /\ cpu.at = now
    /\ IF start_time_valid
       THEN LET timer_time == TimeDiff(now, start_time)
            IN \E t \in ToTimer(CeilDiv(timer_time, Period)) :
                 /\ timer' = t
                 /\ returned' = (TimeDiff(t * Period, timer_time) + Beat) % TimeMod
       ELSE timer' = timer /\ returned' = Beat
    /\ cpu' = Idle
    /\ UNCHANGED <<now, start_time, start_time_valid, timer_done, done_at, pacingVars>>

(* timer_done_event fires and timer_done_thread runs, once.                *)
TimerDone ==
    /\ done_at = now
    /\ timer_done' = TRUE
    /\ done_at' = Never
    /\ UNCHANGED <<now, start_time, start_time_valid, timer, cpu, returned, pacingVars>>

PacingDelay(delta) == IF delta < Period THEN Period - delta ELSE 0

(* The pacing part of fifo_data_received_method, for one byte.  A byte     *)
(* comes from a timer of the ring that has rolled over, so none comes      *)
(* before the end of the first cycle.                                      *)
Pace ==
    LET delay == PacingDelay(TimeDiff(now, previous_time_stamp))
    IN /\ now >= Period
       /\ previous_time_stamp' = now + delay
       /\ issued' = TRUE
       /\ paced' = (paced /\ (~issued \/ now + delay >= previous_time_stamp + Period))
       /\ UNCHANGED <<now, timerVars, cpu, returned>>

(* Time advances when nothing is left to do at the current time.           *)
Tick ==
    /\ now < MaxNow
    /\ done_at # now
    /\ cpu = Idle \/ cpu.at > now
    /\ now' = now + 1
    /\ UNCHANGED <<timerVars, cpu, returned, pacingVars>>

(* The bound on time has been reached.                                     *)
Horizon == now = MaxNow /\ UNCHANGED vars

Next == Access("start") \/ Access("read") \/ StartTimer \/ ReadTimer \/ TimerDone
        \/ Pace \/ Tick \/ Horizon

Spec == Init /\ [][Next]_vars

(* Renode's time sync keeps simulation time advancing.                     *)
FairSpec == Spec /\ WF_vars(Tick) /\ WF_vars(StartTimer) /\ WF_vars(ReadTimer)
                 /\ WF_vars(TimerDone)
-----------------------------------------------------------------------------
(* Every variable has its type.                                            *)
TypeOK ==
    /\ now \in 0 .. MaxNow
    /\ start_time \in Nat /\ start_time_valid \in BOOLEAN
    /\ timer \in 0 .. TimerMod - 1 /\ timer_done \in BOOLEAN
    /\ done_at \in Nat \cup {Never}
    /\ cpu \in [op : {"idle", "start", "read"}, at : Nat]
    /\ returned \in 0 .. TimeMod - 1
    /\ previous_time_stamp \in Nat
    /\ issued \in BOOLEAN /\ paced \in BOOLEAN

(* However often the timer is started again, the rollover is reported      *)
(* exactly when a free-running counter started first would roll over:      *)
(* never early, never postponed by a later start or swallowed by it.       *)
TimerDoneOnTime ==
    start_time_valid =>
        /\ timer_done => now >= Rollover
        /\ ~timer_done => done_at = Rollover /\ now <= Rollover

(* Until the last cycle, a read returns the number of the cycle at whose end *)
(* the annotated delay makes it complete: the value is never stale when    *)
(* the initiator sees it, and the access takes no less than its bus beat.  *)
ReadIsExact ==
    [][ReadTimer /\ start_time_valid /\ ~timer_done /\ now <= Rollover - Period =>
          /\ now + returned' = start_time + timer' * Period + Beat
          /\ returned' >= Beat]_vars

(* A started timer rolls over.                                             *)
TimerExpires == start_time_valid ~> timer_done

(* peripheral.cpp:186 "let's limit our own interface to one new transfer   *)
(* per clock cycle", whatever the arrival of the bytes.                    *)
OneTransferPerCycle == paced

(* peripheral.cpp:124 "round up to even number of cycles and then annotate *)
(* delay to account for any remainder time": a remainder is less than one  *)
(* cycle, to which the access adds one bus beat.                           *)
ReadDelayIsRemainder == returned < Period + Beat
=============================================================================
