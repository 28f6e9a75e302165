-------------------------------- MODULE Timer --------------------------------
(* mifsa::Timer (src/src/base/timer.cpp) and the scan of the queue's timers   *)
(* (Queue::processNextSleepTime, src/src/base/queue.cpp:341): how many        *)
(* callbacks a timer gets, from a clock that goes on between any two steps,   *)
(* and how long the loop may sleep.                                           *)
(*                                                                            *)
(* The scan holds the queue's mutex, which keeps timers from being added and  *)
(* removed; start, stop and the setters take no mutex and may fall between    *)
(* any two reads of the scan.  Times are in units of which Offset make up     *)
(* TIMER_ERROR_OFFSET; arithmetic is modulo Word, as it is modulo 2^64.       *)
EXTENDS Integers, Sequences, FiniteSets, SequencesExt

CONSTANTS
    Handles,    \* timers of createTimer: a user holds them
    Onces,      \* timers of onceTimer: nobody but the queue does
    Intervals,  \* arguments of the constructor and of setInterval
    Least,      \* the period that an interval of zero stands for
    Offset,     \* TIMER_ERROR_OFFSET
    Word,       \* the modulus of unsigned arithmetic
    MaxClock    \* bound on the time that passes

Timers == Handles \union Onces

ASSUME TimerAssumption ==
    /\ IsFiniteSet(Handles) /\ Handles \intersect Onces = {}
    /\ Intervals \subseteq Nat
    /\ Least \in Nat \ {0} /\ Offset \in Nat
    /\ MaxClock \in Nat \ {0}
    /\ Word \in Nat /\ Word > MaxClock + Offset

VARIABLES
    clock,
    startTimer, loopCount, interval, loop,  \* the atomics of each timer
    callback,   \* m_cb: has the timer one?
    timerList,
    pc, pos, now, period, expactCount, offset_i, miniTime,  \* the loop, and the scan's locals
    lane,       \* callbacks of each timer that wait in taskQueue
    user,       \* the user's call in progress, and its timer
    fired,      \* history: callbacks queued since the last start, while exact
    ran,        \* history: callbacks of onceTimer that were run
    exact       \* history: it has a callback, and no call on it met the scan since

timer == <<startTimer, loopCount, interval, loop, callback>>
scan == <<pos, now, period, expactCount, offset_i, miniTime>>
history == <<fired, ran, exact>>
vars == <<clock, timer, timerList, pc, scan, lane, user, history>>

TypeOK ==
    /\ clock \in 1..MaxClock
    /\ startTimer \in [Timers -> 0..MaxClock]
    /\ loopCount \in [Timers -> Nat]
    /\ interval \in [Timers -> Intervals]
    /\ loop \in [Timers -> BOOLEAN] /\ callback \in [Timers -> BOOLEAN]
    /\ timerList \in Seq(Timers)
    /\ pc \in {"run", "look", "count", "compare", "push", "stop", "clear", "record", "asleep"}
    /\ pos \in Nat \ {0} /\ now \in 0..MaxClock
    /\ period \in Nat \ {0} /\ expactCount \in Nat /\ offset_i \in Nat
    /\ miniTime \in Nat \union {-1}
    /\ lane \in [Timers -> Nat]
    /\ user \in [place: {"free", "add", "start", "reset"}, timer: Timers]
    /\ fired \in [Timers -> Nat] /\ ran \in [Timers -> Nat]
    /\ exact \in [Timers -> BOOLEAN]

Orders(S) ==
    {f \in [1..Cardinality(S) -> S] : \A i, j \in DOMAIN f : f[i] = f[j] => i = j}

Init ==
    /\ clock = 1
    /\ startTimer = [t \in Timers |-> 0]
    /\ loopCount = [t \in Timers |-> 0]
    /\ interval \in [Timers -> Intervals]
    /\ loop = [t \in Timers |-> t \in Handles]
    /\ callback \in {f \in [Timers -> BOOLEAN] : \A t \in Onces : f[t]}
    /\ timerList \in Orders(Handles)
    /\ pc = "run" /\ pos = 1 /\ now = 0 /\ period = Least /\ expactCount = 0
    /\ offset_i = 0 /\ miniTime = -1
    /\ lane = [t \in Timers |-> 0]
    /\ \E t \in Timers : user = [place |-> "free", timer |-> t]
    /\ fired = [t \in Timers |-> 0]
    /\ ran = [t \in Timers |-> 0]
    /\ exact = [t \in Timers |-> TRUE]

Period(t) == IF interval[t] = 0 THEN Least ELSE interval[t]
Active(t) == startTimer[t] > 0
Listed(t) == \E i \in DOMAIN timerList : timerList[i] = t
Scanned == timerList[pos]

\* The scan is between its look at a timer and the end of what it does to it.
Holds(t) == pc \in {"count", "compare", "push", "stop", "clear", "record"} /\ Scanned = t

\* A call and the scan are at the same timer at once.
Meet(t) == exact' = [exact EXCEPT ![t] = @ /\ ~Holds(t)]

\* A timer started now is ahead of the scan's clock, by more than Offset.
TooLate == pc \notin {"run", "asleep"} /\ clock > now + Offset

\* removeTimer: the first entry of the timer is erased, if there is one.  (The
\* overload of onceTimer's callback erases all: there is never more than one,
\* ListInv in TimerProofs.)
Erase(t) ==
    IF ~Listed(t) THEN UNCHANGED timerList
    ELSE \E i \in DOMAIN timerList :
            /\ timerList[i] = t /\ \A j \in 1..(i - 1) : timerList[j] # t
            /\ timerList' = RemoveAt(timerList, i)

Set(f, t, value) == [f EXCEPT ![t] = value]
------------------------------------------------------------------------------
(* The user's calls: stores, one after the other.                             *)

\* onceTimer: the timer is added under the mutex, then started.
OnceTimer(t) ==
    /\ user.place = "free" /\ pc \in {"run", "asleep"}
    /\ t \in Onces /\ ~Listed(t) /\ ran[t] = 0
    /\ timerList' = Append(timerList, t)
    /\ user' = [place |-> "start", timer |-> t]
    /\ UNCHANGED <<clock, timer, pc, scan, lane, history>>

\* start on a handle: it may be active, stopped, or removed from its queue.  A
\* callback is given while the loop does not scan: it is stored as it is.
CallStart(t) ==
    /\ user.place = "free" /\ t \in Handles
    /\ user' = [place |-> "start", timer |-> t]
    /\ \/ UNCHANGED callback
       \/ ~callback[t] /\ pc \in {"run", "asleep"} /\ callback' = Set(callback, t, TRUE)
    /\ UNCHANGED <<clock, startTimer, loopCount, interval, loop, timerList, pc, scan, lane,
                   history>>

StoreStart ==
    /\ user.place = "start"
    /\ LET t == user.timer IN
          /\ startTimer' = Set(startTimer, t, clock)
          /\ fired' = Set(fired, t, 0)
          /\ exact' = Set(exact, t, callback[t] /\ ~Holds(t) /\ ~TooLate)
    /\ user' = [user EXCEPT !.place = "reset"]
    /\ UNCHANGED <<clock, loopCount, interval, loop, callback, timerList, pc, scan, lane, ran>>

Stop(t) ==
    /\ user.place = "free" /\ t \in Handles
    /\ startTimer' = Set(startTimer, t, 0)
    /\ Meet(t)
    /\ user' = [place |-> "reset", timer |-> t]
    /\ UNCHANGED <<clock, loopCount, interval, loop, callback, timerList, pc, scan, lane,
                   fired, ran>>

\* A mutation: a timer that is started again goes on counting.
KeepLoopCount ==
    /\ user.place = "reset"
    /\ user' = [user EXCEPT !.place = "free"]
    /\ UNCHANGED <<clock, timer, timerList, pc, scan, lane, history>>

\* The second store of start and of stop; start then wakes the loop.
ResetLoopCount ==
    /\ user.place = "reset"
    /\ loopCount' = Set(loopCount, user.timer, 0)
    /\ Meet(user.timer)
    /\ user' = [user EXCEPT !.place = "free"]
    /\ UNCHANGED <<clock, startTimer, interval, loop, callback, timerList, pc, scan, lane,
                   fired, ran>>

\* The count of the intervals that have gone by is of another length then.
SetInterval(t, i) ==
    /\ user.place = "free" /\ t \in Handles /\ i # interval[t]
    /\ interval' = Set(interval, t, i)
    /\ exact' = Set(exact, t, FALSE)
    /\ UNCHANGED <<clock, startTimer, loopCount, loop, callback, timerList, pc, scan, lane,
                   user, fired, ran>>

SetLoop(t) ==
    /\ user.place = "free" /\ t \in Handles
    /\ loop' = Set(loop, t, ~loop[t])
    /\ Meet(t)
    /\ UNCHANGED <<clock, startTimer, loopCount, interval, callback, timerList, pc, scan,
                   lane, user, fired, ran>>

RemoveTimer(t) ==
    /\ user.place = "free" /\ pc \in {"run", "asleep"}
    /\ t \in Handles /\ Listed(t)
    /\ Erase(t)
    /\ UNCHANGED <<clock, timer, pc, scan, lane, user, history>>
------------------------------------------------------------------------------
(* The loop: run the callbacks, scan the timers, sleep.                       *)

\* A mutation: the callback of onceTimer leaves its timer in the list.
RunCallbacksOnly(t) ==
    /\ pc = "run" /\ lane[t] > 0
    /\ lane' = Set(lane, t, 0)
    /\ ran' = IF t \in Onces THEN Set(ran, t, ran[t] + lane[t]) ELSE ran
    /\ UNCHANGED <<clock, timer, timerList, pc, scan, user, fired, exact>>

\* The callbacks of one timer; that of onceTimer removes its timer after it has
\* called the user's.
RunCallbacks(t) ==
    /\ pc = "run" /\ lane[t] > 0
    /\ lane' = Set(lane, t, 0)
    /\ IF t \in Onces
       THEN /\ ran' = Set(ran, t, ran[t] + lane[t])
            /\ Erase(t)
       ELSE UNCHANGED <<ran, timerList>>
    /\ UNCHANGED <<clock, timer, pc, scan, user, fired, exact>>

\* Lines 343-348.
BeginScan ==
    /\ pc = "run" /\ \A t \in Timers : lane[t] = 0
    /\ now' = clock
    /\ miniTime' = -1
    /\ pos' = 1
    /\ pc' = IF timerList = <<>> THEN "asleep" ELSE "look"
    /\ UNCHANGED <<clock, timer, timerList, period, expactCount, offset_i, lane, user, history>>

\* What the scan knows of one timer is of no use to the next.
NextTimer ==
    /\ pos' = IF pos = Len(timerList) THEN 1 ELSE pos + 1
    /\ pc' = IF pos = Len(timerList) THEN "asleep" ELSE "look"
    /\ period' = Least /\ expactCount' = 0 /\ offset_i' = 0

\* Lines 353-359.
Look ==
    /\ pc = "look"
    /\ IF Active(Scanned)
       THEN /\ period' = Period(Scanned)
            /\ pc' = "count"
            /\ exact' = [exact EXCEPT ![Scanned] =
                            @ /\ ~(user.place = "reset" /\ user.timer = Scanned)]
            /\ UNCHANGED <<pos, expactCount, offset_i>>
       ELSE NextTimer /\ UNCHANGED exact
    /\ UNCHANGED <<clock, timer, timerList, now, miniTime, lane, user, fired, ran>>

\* A mutation: the intervals are rounded up.
CountUp ==
    /\ pc = "count"
    /\ expactCount' = ((now - startTimer[Scanned] + period - 1) % Word) \div period
    /\ pc' = "compare"
    /\ UNCHANGED <<clock, timer, timerList, pos, now, period, offset_i, miniTime, lane, user,
                   history>>

\* Line 362: the start time is read again, and may be zero or ahead of now.
Count ==
    /\ pc = "count"
    /\ expactCount' = ((now - startTimer[Scanned] + Offset) % Word) \div period
    /\ pc' = "compare"
    /\ UNCHANGED <<clock, timer, timerList, pos, now, period, offset_i, miniTime, lane, user,
                   history>>

\* A mutation: the last timer looked at decides how long the loop sleeps.
CompareForgets ==
    /\ pc = "compare"
    /\ IF expactCount > loopCount[Scanned]
       THEN pc' = "push" /\ UNCHANGED <<pos, period, expactCount, offset_i, miniTime>>
       ELSE NextTimer /\ miniTime' = period - ((now - startTimer[Scanned]) % period)
    /\ UNCHANGED <<clock, timer, timerList, now, lane, user, history>>

\* Lines 363 and 364, and lines 377-388 for a timer that is not due.  A timer
\* without a callback is passed over, and is not stopped when it is a one-shot.
Compare ==
    /\ pc = "compare"
    /\ IF expactCount > loopCount[Scanned]
       THEN /\ pc' = IF callback[Scanned] THEN "push" ELSE "record"
            /\ UNCHANGED <<pos, period, expactCount, offset_i, miniTime>>
       ELSE LET remainTime == period - (((now - startTimer[Scanned]) % Word) % period) IN
            /\ NextTimer
            /\ miniTime' = IF miniTime < 0 \/ remainTime < miniTime THEN remainTime
                           ELSE miniTime
    /\ UNCHANGED <<clock, timer, timerList, now, lane, user, history>>

\* One turn of lines 365-370: the loop count and loop are read again.
Push ==
    /\ pc = "push"
    /\ LET t == Scanned IN
       IF offset_i < expactCount - loopCount[t]
       THEN /\ lane' = Set(lane, t, lane[t] + 1)
            /\ fired' = Set(fired, t, IF exact[t] THEN fired[t] + 1 ELSE 0)
            /\ offset_i' = offset_i + 1
            /\ pc' = IF loop[t] THEN "push" ELSE "stop"
       ELSE pc' = "record" /\ UNCHANGED <<lane, fired, offset_i>>
    /\ UNCHANGED <<clock, timer, timerList, pos, now, period, expactCount, miniTime, user,
                   ran, exact>>

\* The two stores of stop (line 368), for a one-shot timer.
StopOneShot ==
    /\ pc = "stop"
    /\ startTimer' = Set(startTimer, Scanned, 0)
    /\ pc' = "clear"
    /\ UNCHANGED <<clock, loopCount, interval, loop, callback, timerList, scan, lane, user,
                   history>>

ClearOneShot ==
    /\ pc = "clear"
    /\ loopCount' = Set(loopCount, Scanned, 0)
    /\ pc' = "record"
    /\ UNCHANGED <<clock, startTimer, interval, loop, callback, timerList, scan, lane, user,
                   history>>

\* Lines 373-376.
Record ==
    /\ pc = "record"
    /\ loopCount' = IF Active(Scanned) THEN Set(loopCount, Scanned, expactCount)
                    ELSE loopCount
    /\ miniTime' = 0
    /\ NextTimer
    /\ UNCHANGED <<clock, startTimer, interval, loop, callback, timerList, now, lane, user,
                   history>>

\* The sleep ends at its deadline, or because somebody wakes the loop.
Wake ==
    /\ pc = "asleep"
    /\ pc' = "run"
    /\ UNCHANGED <<clock, timer, timerList, scan, lane, user, history>>

Tick ==
    /\ clock < MaxClock
    /\ clock' = clock + 1
    /\ UNCHANGED <<timer, timerList, pc, scan, lane, user, history>>
------------------------------------------------------------------------------
Scan ==
    \/ BeginScan \/ Look \/ Count \/ Compare
    \/ Push \/ StopOneShot \/ ClearOneShot \/ Record \/ Wake

Next ==
    \/ \E t \in Timers :
          \/ OnceTimer(t) \/ CallStart(t) \/ Stop(t) \/ SetLoop(t) \/ RemoveTimer(t)
          \/ \E i \in Intervals : SetInterval(t, i)
          \/ RunCallbacks(t)
    \/ StoreStart \/ ResetLoopCount
    \/ Scan \/ Tick

Spec == Init /\ [][Next]_vars

\* Time passes, the loop goes on, and a call that was begun is finished.
FairSpec ==
    /\ Spec
    /\ WF_vars(Tick) /\ WF_vars(StoreStart \/ ResetLoopCount)
    /\ WF_vars(Scan \/ \E t \in Timers : RunCallbacks(t))
------------------------------------------------------------------------------
(* Properties.                                                                *)

\* A timer never gets more callbacks than intervals have gone by since it was
\* started, the last of them counted Offset early: no late pass, no sleep and
\* no restart makes it fire twice for one interval.  All this unless a call on
\* the timer fell between two steps of the scan at it -- then it may get as
\* many callbacks as the uptime, or 2^64, has intervals (line 362).
NeverEarly ==
    \A t \in Timers :
        Active(t) /\ exact[t] => fired[t] * Period(t) <= clock - startTimer[t] + Offset

\* The timers that the scan could see: started before it read the clock.
Settled(t) ==
    /\ Listed(t) /\ Active(t) /\ exact[t] /\ startTimer[t] < now
    /\ ~(user.place = "reset" /\ user.timer = t)

\* ... and never fewer: when the scan is over, each timer has had a callback for
\* every interval up to the scan, however late it was.
NoneLost ==
    pc = "asleep" => \A t \in Timers :
        Settled(t) => fired[t] = (now - startTimer[t] + Offset) \div Period(t)

\* The loop does not sleep past the end of the next interval of any timer.
WakesInTime ==
    pc = "asleep" => \A t \in Timers :
        Settled(t) => /\ miniTime >= 0
                      /\ now + miniTime <= startTimer[t] + (loopCount[t] + 1) * Period(t)

\* What onceTimer was given is called at most once, and its timer is gone from
\* the queue afterwards, although start's two stores may meet the scan.
OnceRunsOnce == \A t \in Onces : ran[t] + lane[t] <= 1 /\ (ran[t] = 1 => ~Listed(t))
===============================================================================
