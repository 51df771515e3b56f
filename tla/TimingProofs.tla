---------------------------- MODULE TimingProofs -----------------------------
(***************************************************************************)
(* Theorems about module PeripheralTiming, for every clock period, width   *)
(* of the timer and set of annotated delays, and for every bound on the    *)
(* time explored.                                                          *)
(***************************************************************************)
EXTENDS PeripheralTiming, TLAPS

Span == TimerMod * Period      \* from a start to the rollover

(* Only the first start counts; its rollover is scheduled until it has     *)
(* happened.  No read is issued before the timer has started to count: the *)
(* start itself took one bus beat.                                         *)
TimerInv ==
    /\ ~start_time_valid => ~timer_done /\ done_at = Never
    /\ start_time_valid => start_time <= now + Beat
    /\ timer_done => done_at = Never
    /\ start_time_valid /\ cpu = Idle => start_time <= now + returned
    /\ start_time_valid /\ cpu.op = "read" => start_time <= cpu.at
    /\ cpu.op = "idle" => cpu = Idle

Inv == TypeOK /\ TimerInv /\ TimerDoneOnTime
-----------------------------------------------------------------------------
(* Arithmetic with products of constants, once and for all.                *)
LEMMA Sizes ==
    /\ Period \in Nat /\ Period > 0 /\ TimerMod \in Nat /\ TimerMod > 0
    /\ Span \in Nat /\ Span >= Period
    /\ TimeMod \in Nat /\ TimeMod > 2 * (MaxNow + Span + 2 * Period)
    /\ MaxNow \in Nat /\ MaxStart \in Nat /\ Beat = Period
<1>1. /\ Period \in Nat /\ Period > 0 /\ TimerMod \in Nat /\ TimerMod > 0
      /\ TimeMod \in Nat /\ TimeMod > 2 * (MaxNow + Period * (TimerMod + 2))
      /\ MaxNow \in Nat /\ MaxStart \in Nat
    BY TimingAssumption
<1>2. Period * (TimerMod + 2) = Span + 2 * Period
    BY <1>1 DEF Span
<1>3. Span \in Nat /\ Span >= Period
    <2>1. PICK k \in Nat : TimerMod = k + 1
        BY <1>1
    <2>2. Span = k * Period + Period /\ k * Period >= 0
        BY <1>1, <2>1 DEF Span
    <2>3. QED
        BY <1>1, <2>1, <2>2 DEF Span
<1>4. QED
    BY <1>1, <1>2, <1>3 DEF Beat

(* Remainders.                                                             *)
LEMMA ModType ==
    ASSUME NEW x \in Int, NEW n \in Nat, n > 0
    PROVE  x % n \in 0 .. n - 1
OBVIOUS

LEMMA ModSmall ==
    ASSUME NEW n \in Nat, NEW x \in 0 .. n - 1
    PROVE  x % n = x
OBVIOUS

LEMMA LaterStill ==
    ASSUME NEW a \in Nat, NEW b \in Nat, NEW c \in Nat, a <= b
    PROVE  a <= b + c
OBVIOUS

(* Rounding up to whole cycles.                                            *)
LEMMA CeilProduct ==
    ASSUME NEW d \in Nat
    PROVE  /\ CeilDiv(d, Period) \in Nat
           /\ d <= CeilDiv(d, Period) * Period
           /\ CeilDiv(d, Period) * Period < d + Period
<1>1. Period \in Nat /\ Period > 0
    BY Sizes
<1> DEFINE x == d + Period - 1
           q == x \div Period
<1>2. x \in Nat
    BY <1>1
<1>3. q \in Int /\ x = Period * q + (x % Period) /\ (x % Period) \in 0 .. Period - 1
    BY <1>1, <1>2
<1>4. q >= 0
    BY <1>1, <1>2, <1>3
<1> HIDE DEF q
<1>5. q * Period = x - (x % Period)
    BY <1>1, <1>2, <1>3
<1>6. CeilDiv(d, Period) = q
    BY DEF CeilDiv, q
<1>7. QED
    BY <1>1, <1>2, <1>3, <1>4, <1>5, <1>6

(* A read that comes no earlier than the start sees the true difference.   *)
LEMMA ReadTime ==
    ASSUME Inv, start_time_valid, cpu.op = "read", cpu.at = now
    PROVE  /\ now - start_time \in 0 .. MaxNow
           /\ TimeDiff(now, start_time) = now - start_time
<1>1. start_time \in Nat /\ now \in 0 .. MaxNow /\ start_time <= now
    BY DEF Inv, TypeOK, TimerInv
<1>2. now - start_time \in 0 .. MaxNow /\ now - start_time \in 0 .. TimeMod - 1
    BY <1>1, Sizes
<1>3. (now - start_time) % TimeMod = now - start_time
    BY <1>2, Sizes, ModSmall
<1>4. QED
    BY <1>2, <1>3 DEF TimeDiff

(* What a conversion to the timer's type may yield is a value of that type. *)
LEMMA ToTimerType ==
    ASSUME NEW x \in Nat, NEW t \in ToTimer(x)
    PROVE  t \in 0 .. TimerMod - 1
BY Sizes DEF ToTimer
-----------------------------------------------------------------------------
LEMMA InitInv == Init => Inv
<1> SUFFICES ASSUME Init PROVE Inv
    OBVIOUS
<1>1. TypeOK
    <2>1. 0 \in 0 .. MaxNow /\ 0 \in 0 .. TimerMod - 1 /\ 0 \in 0 .. TimeMod - 1
        BY Sizes
    <2>2. Idle \in [op : {"idle", "start", "read"}, at : Nat]
        BY DEF Idle
    <2>3. QED
        BY <2>1, <2>2 DEF Init, TypeOK
<1>2. TimerInv /\ TimerDoneOnTime
    BY DEF Init, TimerInv, TimerDoneOnTime, Idle
<1>3. QED
    BY <1>1, <1>2 DEF Inv

(* The arrival of an access.                                               *)
LEMMA AccessInv ==
    ASSUME Inv, NEW op \in {"start", "read"}, Access(op)
    PROVE  Inv'
<1>1. PICK d \in Delays : cpu' = [op |-> op, at |-> now + returned + d]
    BY DEF Access
<1>2. d \in Nat
    BY TimingAssumption
<1>3. now \in Nat /\ returned \in Nat
    BY Sizes DEF Inv, TypeOK
<1>4. now + returned + d \in Nat /\ now + returned + d >= now + returned
    BY <1>2, <1>3
<1>5. cpu' \in [op : {"idle", "start", "read"}, at : Nat]
      /\ cpu'.op = op /\ cpu'.at >= now + returned /\ op # "idle"
    BY <1>1, <1>4
<1>6. cpu = Idle /\ UNCHANGED <<now, timerVars, returned, pacingVars>>
    BY DEF Access
<1>7. TypeOK'
    BY <1>5, <1>6 DEF Inv, TypeOK, timerVars, pacingVars
<1>8. TimerDoneOnTime'
    BY <1>6 DEF Inv, TimerDoneOnTime, Rollover, timerVars
<1>9. cpu' # Idle
    BY <1>5 DEF Idle
<1>10. TimerInv'
    <2>1. start_time_valid => start_time <= now + returned
        BY <1>6 DEF Inv, TimerInv
    <2>2. start_time \in Nat /\ cpu'.at \in Nat
        BY <1>5 DEF Inv, TypeOK
    <2>3. start_time_valid' /\ cpu'.op = "read" => start_time' <= cpu'.at
        BY <1>3, <1>5, <1>6, <2>1, <2>2 DEF timerVars
    <2>4. QED
        BY <1>5, <1>6, <1>9, <2>3 DEF Inv, TimerInv, timerVars, Beat
<1>11. QED
    BY <1>7, <1>8, <1>10 DEF Inv

(* Starting a timer that runs changes neither its start nor its event.     *)
LEMMA StartTimerInv ==
    ASSUME Inv, StartTimer
    PROVE  Inv'
<1>1. /\ start_time \in Nat /\ now \in Nat /\ done_at \in Nat \cup {Never}
      /\ start_time_valid \in BOOLEAN /\ timer_done \in BOOLEAN
    BY Sizes DEF Inv, TypeOK
<1>2. CASE start_time_valid
    <2>1. EarliestStart(now + Beat) = start_time
        BY <1>1, <1>2, Sizes DEF EarliestStart, Inv, TimerInv
    <2>2. Notified(start_time + TimerMod * Period) = done_at
        BY <1>1, <1>2, Sizes DEF Notified, Inv, TimerInv, TimerDoneOnTime, Rollover
    <2>3. start_time' = start_time /\ done_at' = done_at /\ start_time_valid'
        BY <2>1, <2>2 DEF StartTimer
    <2>4. TypeOK'
        BY <1>1, <2>3, Sizes DEF StartTimer, Inv, TypeOK, Idle, pacingVars
    <2>5. TimerDoneOnTime'
        BY <1>2, <2>3 DEF StartTimer, Inv, TimerDoneOnTime, Rollover
    <2>6. TimerInv'
        BY <1>1, <1>2, <2>3, Sizes DEF StartTimer, Inv, TimerInv, Idle
    <2>7. QED
        BY <2>4, <2>5, <2>6 DEF Inv
<1>3. CASE ~start_time_valid
    <2>1. EarliestStart(now + Beat) = now + Beat
        BY <1>3 DEF EarliestStart
    <2>2. ~timer_done /\ done_at = Never
        BY <1>3 DEF Inv, TimerInv
    <2>3. now + Beat + Span \in Nat /\ now + Beat + Span >= now /\ now + Beat \in Nat
        BY <1>1, Sizes
    <2>4. Notified(now + Beat + Span) = now + Beat + Span
        BY <2>2, <2>3 DEF Notified
    <2>5. /\ start_time' = now + Beat /\ done_at' = now + Beat + Span
          /\ start_time_valid' /\ Rollover' = now + Beat + Span
        BY <2>1, <2>4 DEF StartTimer, Span, Rollover
    <2>6. TypeOK'
        BY <1>1, <2>3, <2>5, Sizes DEF StartTimer, Inv, TypeOK, Idle, pacingVars
    <2>7. TimerDoneOnTime'
        BY <2>2, <2>3, <2>5 DEF StartTimer, TimerDoneOnTime
    <2>8. TimerInv'
        BY <1>1, <2>2, <2>5, Sizes DEF StartTimer, TimerInv, Idle
    <2>9. QED
        BY <2>6, <2>7, <2>8 DEF Inv
<1>4. QED
    BY <1>1, <1>2, <1>3

(* A read changes the register and the delay it returns.                   *)
LEMMA ReadTimerInv ==
    ASSUME Inv, ReadTimer
    PROVE  Inv'
<1>1. /\ start_time \in Nat /\ now \in Nat /\ start_time_valid \in BOOLEAN
      /\ timer \in 0 .. TimerMod - 1
    BY Sizes DEF Inv, TypeOK
<1>2. /\ timer' \in 0 .. TimerMod - 1 /\ returned' \in 0 .. TimeMod - 1
      /\ start_time_valid => start_time <= now
    <2>1. CASE start_time_valid
        <3>1. now - start_time \in Nat /\ TimeDiff(now, start_time) = now - start_time
            BY <2>1, ReadTime, Sizes DEF ReadTimer
        <3>2. PICK t \in ToTimer(CeilDiv(now - start_time, Period)) :
                /\ timer' = t
                /\ returned' = (TimeDiff(t * Period, now - start_time) + Beat) % TimeMod
            BY <2>1, <3>1 DEF ReadTimer
        <3>3. CeilDiv(now - start_time, Period) \in Nat
            BY <3>1, CeilProduct
        <3>4. t \in 0 .. TimerMod - 1
            BY <3>2, <3>3, ToTimerType
        <3>5. t * Period \in Int /\ t * Period - (now - start_time) \in Int
            BY <1>1, <3>4, Sizes
        <3>6. TimeDiff(t * Period, now - start_time) \in Int
            BY <3>5, ModType, Sizes DEF TimeDiff
        <3>7. TimeDiff(t * Period, now - start_time) + Beat \in Int
            BY <3>6, Sizes
        <3>8. returned' \in 0 .. TimeMod - 1
            BY <3>2, <3>7, ModType, Sizes
        <3>9. QED
            BY <1>1, <3>1, <3>2, <3>4, <3>8
    <2>2. CASE ~start_time_valid
        BY <1>1, <2>2, Sizes DEF ReadTimer
    <2>3. QED
        BY <1>1, <2>1, <2>2
<1>3. /\ cpu' = Idle
      /\ UNCHANGED <<now, start_time, start_time_valid, timer_done, done_at, pacingVars>>
    BY DEF ReadTimer
<1>4. TypeOK'
    BY <1>2, <1>3 DEF Inv, TypeOK, Idle, pacingVars
<1>5. TimerDoneOnTime'
    BY <1>3 DEF Inv, TimerDoneOnTime, Rollover
<1>6. TimerInv'
    <2>1. start_time_valid => start_time <= now + returned' /\ start_time <= now + Beat
        <3>1. returned' \in Nat /\ Beat \in Nat
            <4>1. TimeMod \in Int /\ returned' \in 0 .. TimeMod - 1
                BY <1>2, Sizes
            <4>2. returned' \in Nat
                BY <4>1
            <4>3. QED
                BY <4>2, Sizes
        <3>2. start_time <= now => start_time <= now + returned' /\ start_time <= now + Beat
            BY <1>1, <3>1, LaterStill
        <3>3. QED
            BY <1>2, <3>2
    <2>2. cpu'.op = "idle"
        BY <1>3 DEF Idle
    <2>3. QED
        BY <1>3, <2>1, <2>2 DEF Inv, TimerInv, Beat, Idle
<1>7. QED
    BY <1>4, <1>5, <1>6 DEF Inv

(* The event of a started timer fires at the rollover.                     *)
LEMMA TimerDoneInv ==
    ASSUME Inv, TimerDone
    PROVE  Inv'
<1>1. now \in Nat /\ now # Never /\ start_time_valid \in BOOLEAN /\ timer_done \in BOOLEAN
    BY Sizes DEF Inv, TypeOK, Never
<1>2. start_time_valid /\ ~timer_done /\ Rollover = now
    BY <1>1 DEF Inv, TimerInv, TimerDoneOnTime, TimerDone
<1>3. TypeOK'
    BY DEF TimerDone, Inv, TypeOK, pacingVars
<1>4. TimerDoneOnTime'
    BY <1>1, <1>2 DEF TimerDone, TimerDoneOnTime, Rollover
<1>5. TimerInv'
    BY <1>2 DEF TimerDone, Inv, TimerInv, Beat
<1>6. QED
    BY <1>3, <1>4, <1>5 DEF Inv

(* A transfer is paced.                                                    *)
LEMMA PaceInv ==
    ASSUME Inv, Pace
    PROVE  Inv'
<1> DEFINE delta == TimeDiff(now, previous_time_stamp)
           late == PacingDelay(delta)
<1>1. now \in Nat /\ previous_time_stamp \in Nat
    BY Sizes DEF Inv, TypeOK
<1>2. delta \in Nat
    BY <1>1, ModType, Sizes DEF TimeDiff
<1>3. now + late \in Nat
    BY <1>1, <1>2, Sizes DEF PacingDelay
<1> HIDE DEF late
<1>4. /\ previous_time_stamp' = now + late
      /\ issued' \in BOOLEAN /\ paced' \in BOOLEAN
      /\ UNCHANGED <<now, timerVars, cpu, returned>>
    BY DEF Pace, late, Inv, TypeOK
<1>5. TypeOK'
    BY <1>3, <1>4 DEF Inv, TypeOK, timerVars
<1>6. TimerInv' /\ TimerDoneOnTime'
    BY <1>4 DEF Inv, TimerInv, TimerDoneOnTime, Rollover, Beat, timerVars
<1>7. QED
    BY <1>5, <1>6 DEF Inv

(* Time does not pass a rollover that is due.                              *)
LEMMA TickInv ==
    ASSUME Inv, Tick
    PROVE  Inv'
<1>1. /\ now \in Nat /\ MaxNow \in Nat /\ start_time \in Nat /\ returned \in Nat
      /\ Rollover \in Nat
    BY Sizes DEF Inv, TypeOK, Rollover, Span
<1>2. /\ now < MaxNow /\ done_at # now /\ now' = now + 1
      /\ UNCHANGED <<timerVars, cpu, returned, pacingVars>>
    BY DEF Tick
<1>3. TypeOK'
    BY <1>1, <1>2 DEF Inv, TypeOK, timerVars, pacingVars
<1>4. Rollover' = Rollover
    BY <1>2 DEF Rollover, timerVars
<1>5. TimerDoneOnTime'
    BY <1>1, <1>2, <1>4 DEF Inv, TimerDoneOnTime, timerVars
<1>6. TimerInv'
    BY <1>1, <1>2, Sizes DEF Inv, TimerInv, timerVars
<1>7. QED
    BY <1>3, <1>5, <1>6 DEF Inv

LEMMA NextInv == Inv /\ [Next]_vars => Inv'
<1> SUFFICES ASSUME Inv, [Next]_vars PROVE Inv'
    OBVIOUS
<1>1. CASE Access("start") \/ Access("read")
    BY <1>1, AccessInv
<1>2. CASE StartTimer
    BY <1>2, StartTimerInv
<1>3. CASE ReadTimer
    BY <1>3, ReadTimerInv
<1>4. CASE TimerDone
    BY <1>4, TimerDoneInv
<1>5. CASE Pace
    BY <1>5, PaceInv
<1>6. CASE Tick
    BY <1>6, TickInv
<1>7. CASE UNCHANGED vars
    BY <1>7 DEF vars, timerVars, pacingVars, Inv, TypeOK, TimerInv, TimerDoneOnTime, Rollover,
                Beat
<1>8. QED
    BY <1>1, <1>2, <1>3, <1>4, <1>5, <1>6, <1>7 DEF Next, Horizon
-----------------------------------------------------------------------------
(* The timer's state as start_timer, update_timer and timer_done_thread    *)
(* keep it, whatever accesses the CPU makes.                               *)
THEOREM TimerInvariant == Spec => []Inv
BY InitInv, NextInv, PTL DEF Spec

(* Types hold: in particular the timer register never holds a value beyond *)
(* its width, and no delay exceeds what sc_time can count.                 *)
THEOREM TypeCorrect == Spec => []TypeOK
<1>1. Inv => TypeOK
    BY DEF Inv
<1>2. QED
    BY <1>1, TimerInvariant, PTL

(* timer_done_thread runs exactly when a counter started by the first      *)
(* start_timer rolls over, for every clock period, timer width and number  *)
(* of repeated starts.                                                     *)
THEOREM RolloverOnTime == Spec => []TimerDoneOnTime
<1>1. Inv => TimerDoneOnTime
    BY DEF Inv
<1>2. QED
    BY <1>1, TimerInvariant, PTL

(* The value update_timer computes and the delay b_transport returns agree *)
(* on when the read completes, up to the last cycle before the rollover.   *)
THEOREM ReadsExact == Spec => ReadIsExact
<1>1. ASSUME Inv, ReadTimer, start_time_valid, ~timer_done, now <= Rollover - Period
      PROVE  /\ now + returned' = start_time + timer' * Period + Beat
             /\ returned' >= Beat
    <2> DEFINE d == now - start_time
               cycles == CeilDiv(d, Period)
    <2>1. d \in Nat /\ TimeDiff(now, start_time) = d /\ start_time \in Nat /\ now \in Nat
        BY <1>1, ReadTime, Sizes DEF ReadTimer, Inv, TypeOK
    <2>2. d <= Span - Period
        BY <1>1, <2>1, Sizes DEF Rollover, Span
    <2>3. PICK t \in ToTimer(cycles) :
            /\ timer' = t
            /\ returned' = (TimeDiff(t * Period, d) + Beat) % TimeMod
        BY <1>1, <2>1 DEF ReadTimer
    <2>4. cycles \in Nat /\ d <= cycles * Period /\ cycles * Period < d + Period
        BY <2>1, CeilProduct
    <2> HIDE DEF d, cycles
    <2>5. cycles * Period < TimerMod * Period
        BY <2>1, <2>2, <2>4, Sizes DEF Span
    <2>6. cycles < TimerMod
        BY <2>4, <2>5, Sizes
    <2>7. t = cycles
        BY <2>3, <2>6 DEF ToTimer
    <2> DEFINE rest == cycles * Period - d
    <2>8. rest \in 0 .. Period - 1 /\ cycles * Period \in Int
        BY <2>1, <2>4, Sizes
    <2>9. rest \in 0 .. TimeMod - 1 /\ rest + Beat \in 0 .. TimeMod - 1
        BY <2>8, Sizes
    <2>10. TimeDiff(t * Period, d) = rest
        BY <2>7, <2>9, Sizes, ModSmall DEF TimeDiff
    <2>11. returned' = rest + Beat
        BY <2>3, <2>9, <2>10, Sizes, ModSmall
    <2>12. now = start_time + d
        BY <2>1 DEF d
    <2>13. QED
        BY <2>1, <2>3, <2>7, <2>8, <2>11, <2>12, Sizes
<1>2. Inv /\ [Next]_vars =>
        [ReadTimer /\ start_time_valid /\ ~timer_done /\ now <= Rollover - Period =>
            /\ now + returned' = start_time + timer' * Period + Beat
            /\ returned' >= Beat]_vars
    BY <1>1
<1>3. QED
    BY <1>2, TimerInvariant, PTL DEF Spec, ReadIsExact
-----------------------------------------------------------------------------
LEMMA ModNegative ==
    ASSUME NEW n \in Nat, NEW x \in Int, -n < x, x < 0
    PROVE  x % n = x + n
OBVIOUS

(* The time stamp of the last transfer is at most one cycle ahead.         *)
StampInv == previous_time_stamp <= now + Period

(* When a transfer takes effect: a cycle after the last one, or at once if *)
(* that is over.  But while the last one is still ahead, the unsigned      *)
(* difference wraps and the transfer is not delayed at all: it takes       *)
(* effect before the one it follows.                                       *)
PacingLaw ==
    [][Pace => previous_time_stamp' =
          IF previous_time_stamp <= now /\ now < previous_time_stamp + Period
          THEN previous_time_stamp + Period ELSE now]_vars

LEMMA PaceStep ==
    ASSUME Inv, StampInv, Pace
    PROVE  previous_time_stamp' =
               IF previous_time_stamp <= now /\ now < previous_time_stamp + Period
               THEN previous_time_stamp + Period ELSE now
<1>1. now \in 0 .. MaxNow /\ previous_time_stamp \in Nat
    BY DEF Inv, TypeOK
<1> DEFINE x == now - previous_time_stamp
<1>2. x \in Int /\ x <= MaxNow /\ -Period <= x
    BY <1>1, Sizes DEF StampInv
<1>3. previous_time_stamp' = now + PacingDelay(x % TimeMod)
    BY DEF Pace, TimeDiff
<1>4. CASE previous_time_stamp <= now
    <2>1. x \in 0 .. TimeMod - 1
        BY <1>1, <1>2, <1>4, Sizes
    <2>2. x % TimeMod = x
        BY <2>1, Sizes, ModSmall
    <2>3. PacingDelay(x) = IF now < previous_time_stamp + Period
                           THEN previous_time_stamp + Period - now ELSE 0
        BY <1>1, Sizes DEF PacingDelay
    <2>4. QED
        BY <1>1, <1>3, <1>4, <2>2, <2>3, Sizes
<1>5. CASE previous_time_stamp > now
    <2>1. -TimeMod < x /\ x < 0
        BY <1>1, <1>2, <1>5, Sizes
    <2>2. x % TimeMod = x + TimeMod
        BY <1>2, <2>1, Sizes, ModNegative
    <2>3. x + TimeMod >= Period
        BY <1>2, Sizes
    <2>4. PacingDelay(x + TimeMod) = 0
        BY <1>2, <2>3, Sizes DEF PacingDelay
    <2>5. QED
        BY <1>1, <1>3, <1>5, <2>2, <2>4, Sizes
<1>6. QED
    BY <1>1, <1>4, <1>5

LEMMA LaterBound ==
    ASSUME NEW a \in Nat, NEW b \in Nat, NEW c \in Nat, NEW p \in Nat, a <= b + p, b <= c
    PROVE  a <= c + p
OBVIOUS

LEMMA StampStep == Inv /\ StampInv /\ [Next]_vars => StampInv'
<1> SUFFICES ASSUME Inv, StampInv, [Next]_vars PROVE StampInv'
    OBVIOUS
<1>1. now \in Nat /\ previous_time_stamp \in Nat
    BY Sizes DEF Inv, TypeOK
<1>2. CASE Pace
    <2>1. now' = now
        BY <1>2 DEF Pace
    <2>2. previous_time_stamp' <= now + Period
        BY <1>1, <1>2, PaceStep, Sizes
    <2>3. QED
        BY <2>1, <2>2 DEF StampInv
<1>3. CASE previous_time_stamp' = previous_time_stamp /\ now' \in {now, now + 1}
    <2>1. previous_time_stamp <= now + Period
        BY DEF StampInv
    <2>2. now' \in Nat /\ now <= now'
        BY <1>1, <1>3
    <2>3. Period \in Nat
        BY Sizes
    <2>4. previous_time_stamp <= now' + Period
        BY <1>1, <2>1, <2>2, <2>3, LaterBound
    <2>5. QED
        BY <1>3, <2>4 DEF StampInv
<1>4. QED
    BY <1>2, <1>3 DEF Next, Access, StartTimer, ReadTimer, TimerDone, Tick, Horizon, vars,
        pacingVars

(* What the pacing of fifo_data_received_method really does, for every     *)
(* clock period: the limit of one transfer per clock cycle holds as long   *)
(* as no byte comes before the last transfer has taken effect, and is      *)
(* broken by every byte that does.                                         *)
THEOREM PacingExact == Spec => PacingLaw
<1>1. Init => StampInv
    BY Sizes DEF Init, StampInv
<1>2. Spec => []StampInv
    BY <1>1, StampStep, TimerInvariant, PTL DEF Spec
<1>3. Inv /\ StampInv /\ [Next]_vars =>
        [Pace => previous_time_stamp' =
            IF previous_time_stamp <= now /\ now < previous_time_stamp + Period
            THEN previous_time_stamp + Period ELSE now]_vars
    BY PaceStep
<1>4. QED
    BY <1>2, <1>3, TimerInvariant, PTL DEF Spec, PacingLaw
=============================================================================
