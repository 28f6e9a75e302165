----------------------------- MODULE TimerProofs ------------------------------
(* What holds of the queue's timers for any number of them, any intervals and *)
(* any clock: how many callbacks a timer gets, and how long the loop sleeps.  *)
EXTENDS Timer, FiniteSetTheorems, SequenceTheorems, TLAPS

Scanning == pc \in {"look", "count", "compare", "push", "stop", "clear", "record"}

\* The scan found its timer due.
Pushing == pc \in {"push", "stop", "clear", "record"}

\* start or stop has done its first store and not its second.
Storing(t) == user.place = "reset" /\ user.timer = t

\* The callbacks the scan owes a timer that was started at startTimer.
Due(t) == (now - startTimer[t] + Offset) \div Period(t)

\* The scan is done with the timer.
Passed(t) == pc = "asleep" \/ (Scanning /\ \E i \in 1..(pos - 1) : timerList[i] = t)
------------------------------------------------------------------------------
(* The inductive invariant.                                                   *)

\* A timer is listed once, and the scan is at one of the list.
ListInv ==
    /\ \A i, j \in 1..Len(timerList) : timerList[i] = timerList[j] => i = j
    /\ Scanning => pos \in 1..Len(timerList)

\* No time is ahead of the clock; the scan's clock may be behind a start, by no
\* more than Offset unless the timer is not exact.
ClockInv ==
    /\ now <= clock
    /\ \A t \in Timers :
          /\ startTimer[t] <= clock
          /\ Active(t) /\ exact[t] /\ Scanning => startTimer[t] <= now + Offset

\* A timer that is exact has a callback; turns are counted while callbacks are queued.
CallbackInv ==
    /\ \A t \in Timers : Active(t) /\ exact[t] => callback[t]
    /\ ~Pushing => offset_i = 0

\* The loop count is the number of callbacks queued, except between the stores
\* of a call and before the last one of the scan; and nothing is queued early.
CountInv ==
    \A t \in Timers : Active(t) /\ exact[t] =>
        /\ Storing(t) => fired[t] = 0
        /\ ~Storing(t) /\ ~(Pushing /\ Scanned = t) => loopCount[t] = fired[t]
        /\ fired[t] = 0 \/ fired[t] * Period(t) <= now - startTimer[t] + Offset

\* What the scan knows of the timer it holds is true as long as nobody met it.
ScanInv ==
    (Pushing \/ pc \in {"count", "compare"}) /\ exact[Scanned] =>
        /\ ~Storing(Scanned)
        /\ pc \notin {"clear", "record"} => Active(Scanned)
        /\ Active(Scanned) => period = Period(Scanned)
        /\ Active(Scanned) /\ pc # "count" => expactCount = Due(Scanned)
        /\ pc = "push" => /\ fired[Scanned] = loopCount[Scanned] + offset_i
                          /\ fired[Scanned] <= expactCount
        /\ pc = "clear" => ~Active(Scanned)
        /\ Active(Scanned) /\ pc = "record" => fired[Scanned] = expactCount

\* A timer that was started before the scan read the clock.
Seen(t) == Listed(t) /\ Active(t) /\ exact[t] /\ startTimer[t] < now

\* ... has, when the scan is done with it, got what it was owed, the sleep that is
\* planned so far ends before it is owed more, and no call on it is half done.
PassedInv ==
    \A t \in Timers : Seen(t) /\ Passed(t) =>
        /\ ~Storing(t)
        /\ fired[t] = Due(t)
        /\ miniTime >= 0
        /\ now + miniTime <= startTimer[t] + (fired[t] + 1) * Period(t)

\* A timer of onceTimer is started once, after it was listed; it is queued when
\* it is stopped, and leaves the list when it is run.
Once(t) ==
    /\ ~loop[t]
    /\ ran[t] + lane[t] <= 1
    /\ ran[t] = 1 => ~Listed(t)
    /\ ~Listed(t) => startTimer[t] = 0 /\ lane[t] = 0
    /\ user.place = "start" /\ user.timer = t =>
          Listed(t) /\ startTimer[t] = 0 /\ lane[t] = 0 /\ ran[t] = 0
    /\ Active(t) /\ ~(pc = "stop" /\ Scanned = t) => lane[t] = 0 /\ ran[t] = 0
    /\ Holds(t) /\ pc \notin {"clear", "record"} => Active(t)

OnceInv == \A t \in Onces : Once(t)

Inv ==
    /\ TypeOK /\ ListInv /\ ClockInv /\ CallbackInv /\ CountInv /\ ScanInv
    /\ PassedInv /\ OnceInv
------------------------------------------------------------------------------
(* Arithmetic.                                                                *)

\* The quotient of a natural number.
LEMMA Quotient ==
    ASSUME NEW x \in Nat, NEW p \in Nat \ {0}
    PROVE  x \div p \in Nat /\ (x \div p) * p <= x /\ x < ((x \div p) + 1) * p
OBVIOUS

\* It grows with the number, and is the largest that fits.
LEMMA QuotientGrows ==
    ASSUME NEW x \in Nat, NEW y \in Nat, NEW p \in Nat \ {0}, x <= y
    PROVE  x \div p <= y \div p
OBVIOUS

LEMMA QuotientIsLargest ==
    ASSUME NEW x \in Nat, NEW f \in Nat, NEW p \in Nat \ {0}, f * p <= x
    PROVE  f <= x \div p
OBVIOUS

\* What is left.
LEMMA Remainder ==
    ASSUME NEW x \in Int, NEW p \in Nat \ {0}
    PROVE  /\ x % p \in 0..(p - 1)
           /\ x = (x \div p) * p + (x % p)
           /\ x \in 0..(p - 1) => x % p = x
OBVIOUS

LEMMA Monotone ==
    ASSUME NEW a \in Nat, NEW b \in Nat, NEW p \in Nat, a <= b
    PROVE  a * p <= b * p
OBVIOUS
------------------------------------------------------------------------------
(* The list.                                                                  *)

LEMMA Kinds == Handles \subseteq Timers /\ Onces \subseteq Timers
BY DEF Timers

\* A new timer is listed once.
LEMMA Appended ==
    ASSUME TypeOK, ListInv, NEW t \in Timers, ~Listed(t), timerList' = Append(timerList, t)
    PROVE  /\ timerList' \in Seq(Timers)
           /\ \A i, j \in 1..Len(timerList') : timerList'[i] = timerList'[j] => i = j
           /\ \A u \in Timers : Listed(u)' <=> Listed(u) \/ u = t
<1>1. timerList \in Seq(Timers) /\ Len(timerList) \in Nat /\ DOMAIN timerList = 1..Len(timerList)
  BY LenProperties DEF TypeOK
<1>2. /\ timerList' \in Seq(Timers) /\ Len(timerList') = Len(timerList) + 1
      /\ \A i \in 1..Len(timerList) : timerList'[i] = timerList[i]
      /\ timerList'[Len(timerList) + 1] = t
  BY <1>1, AppendProperties
<1>3. DOMAIN timerList' = 1..Len(timerList')
  BY <1>2, LenProperties
<1> QED
  BY <1>1, <1>2, <1>3 DEF ListInv, Listed

\* A sequence without one of its elements.
LEMMA RemoveAtProperties ==
    ASSUME NEW S, NEW s \in Seq(S), NEW k \in 1..Len(s)
    PROVE  /\ RemoveAt(s, k) \in Seq(S)
           /\ Len(RemoveAt(s, k)) = Len(s) - 1
           /\ \A i \in 1..(Len(s) - 1) :
                 RemoveAt(s, k)[i] = IF i < k THEN s[i] ELSE s[i + 1]
<1> DEFINE n == Len(s)
           before == SubSeq(s, 1, k - 1)
           after == SubSeq(s, k + 1, n)
<1>1. n \in Nat /\ k \in Nat \ {0} /\ k <= n /\ \A i \in 1..n : s[i] \in S
  BY LenProperties, ElementOfSeq
<1>2. /\ before \in Seq(S)
      /\ Len(before) = IF 1 <= k - 1 THEN k - 1 - 1 + 1 ELSE 0
      /\ \A i \in 1..(k - 1 - 1 + 1) : before[i] = s[1 + i - 1]
  BY <1>1, SubSeqProperties
<1>3. /\ after \in Seq(S)
      /\ Len(after) = IF k + 1 <= n THEN n - (k + 1) + 1 ELSE 0
      /\ \A i \in 1..(n - (k + 1) + 1) : after[i] = s[k + 1 + i - 1]
  BY <1>1, SubSeqProperties
<1>4. RemoveAt(s, k) = before \o after
  BY DEF RemoveAt
<1> HIDE DEF n, before, after
<1>5. Len(before) = k - 1 /\ \A i \in 1..(k - 1) : before[i] = s[i]
  BY <1>1, <1>2
<1>6. Len(after) = n - k /\ \A i \in 1..(n - k) : after[i] = s[k + i]
  BY <1>1, <1>3
<1>7. /\ before \o after \in Seq(S)
      /\ Len(before \o after) = Len(before) + Len(after)
      /\ \A i \in 1..Len(before) + Len(after) : (before \o after)[i] =
            IF i <= Len(before) THEN before[i] ELSE after[i - Len(before)]
  BY <1>2, <1>3, ConcatProperties
<1>8. \A i \in 1..(n - 1) : (before \o after)[i] = IF i < k THEN s[i] ELSE s[i + 1]
  <2> SUFFICES ASSUME NEW i \in 1..(n - 1)
               PROVE  (before \o after)[i] = IF i < k THEN s[i] ELSE s[i + 1]
    OBVIOUS
  <2>1. CASE i < k
    BY <1>1, <1>5, <1>6, <1>7, <2>1
  <2>2. CASE ~(i < k)
    <3>1. i - (k - 1) \in 1..(n - k) /\ k + (i - (k - 1)) = i + 1
      BY <1>1, <2>2
    <3>2. (before \o after)[i] = after[i - (k - 1)]
      <4>1. Len(before) = k - 1 /\ Len(before) + Len(after) = n - 1
        BY <1>1, <1>5, <1>6
      <4>2. i \in 1..Len(before) + Len(after) /\ ~(i <= Len(before))
        BY <1>1, <2>2, <4>1
      <4> QED
        BY <1>7, <4>1, <4>2
    <3> QED
      BY <1>6, <2>2, <3>1, <3>2
  <2> QED
    BY <2>1, <2>2
<1> QED
  BY <1>1, <1>4, <1>5, <1>6, <1>7, <1>8 DEF n

\* A timer that is erased is not listed any more, and the others are.
LEMMA Erased ==
    ASSUME TypeOK, ListInv, NEW t \in Timers, Erase(t)
    PROVE  /\ timerList' \in Seq(Timers)
           /\ \A i, j \in 1..Len(timerList') : timerList'[i] = timerList'[j] => i = j
           /\ \A u \in Timers : Listed(u)' <=> Listed(u) /\ u # t
<1>1. timerList \in Seq(Timers) /\ Len(timerList) \in Nat /\ DOMAIN timerList = 1..Len(timerList)
  BY LenProperties DEF TypeOK
<1>2. CASE ~Listed(t)
  BY <1>1, <1>2 DEF Erase, ListInv, Listed
<1>3. CASE Listed(t)
  <2>1. PICK k \in 1..Len(timerList) : timerList[k] = t /\ timerList' = RemoveAt(timerList, k)
    BY <1>1, <1>3 DEF Erase
  <2> DEFINE n == Len(timerList)
  <2>2. n \in Nat /\ k \in 1..n /\ \A i, j \in 1..n : timerList[i] = timerList[j] => i = j
    BY <1>1 DEF ListInv
  <2>3. /\ timerList' \in Seq(Timers) /\ Len(timerList') = n - 1
        /\ \A i \in 1..(n - 1) : timerList'[i] = IF i < k THEN timerList[i]
                                                 ELSE timerList[i + 1]
    BY <1>1, <2>1, RemoveAtProperties
  <2>4. DOMAIN timerList' = 1..(n - 1)
    BY <2>3, LenProperties
  <2> HIDE DEF n
  <2>5. ASSUME NEW u \in Timers, NEW i \in 1..n, timerList[i] = u, u # t
        PROVE  \E j \in 1..(n - 1) : timerList'[j] = u
    <3>1. CASE i < k
      <4>1. i \in 1..(n - 1) /\ timerList'[i] = u
        BY <2>2, <2>3, <2>5, <3>1
      <4> QED
        BY <4>1
    <3>2. CASE i > k
      <4>1. i - 1 \in 1..(n - 1) /\ timerList'[i - 1] = u
        BY <2>2, <2>3, <2>5, <3>2
      <4> QED
        BY <4>1
    <3> QED
      BY <2>1, <2>2, <2>5, <3>1, <3>2
  <2>6. ASSUME NEW u \in Timers, NEW j \in 1..(n - 1), timerList'[j] = u
        PROVE  u # t /\ \E i \in 1..n : timerList[i] = u
    <3>1. CASE j < k
      <4>1. j \in 1..n /\ timerList[j] = u /\ j # k
        BY <2>2, <2>3, <2>6, <3>1
      <4> QED
        BY <2>1, <2>2, <4>1
    <3>2. CASE ~(j < k)
      <4>1. j + 1 \in 1..n /\ timerList[j + 1] = u /\ j + 1 # k
        BY <2>2, <2>3, <2>6, <3>2
      <4> QED
        BY <2>1, <2>2, <4>1
    <3> QED
      BY <3>1, <3>2
  <2>7. ASSUME NEW i \in 1..(n - 1), NEW j \in 1..(n - 1), timerList'[i] = timerList'[j]
        PROVE  i = j
    <3>1. PICK a \in 1..n : timerList'[i] = timerList[a] /\ a = IF i < k THEN i ELSE i + 1
      BY <2>2, <2>3
    <3>2. PICK b \in 1..n : timerList'[j] = timerList[b] /\ b = IF j < k THEN j ELSE j + 1
      BY <2>2, <2>3
    <3>3. a = b
      BY <2>2, <2>7, <3>1, <3>2
    <3> QED
      BY <2>2, <3>1, <3>2, <3>3
  <2>8. \A u \in Timers : Listed(u)' <=> Listed(u) /\ u # t
    BY <1>1, <2>4, <2>5, <2>6 DEF Listed, n
  <2> QED
    BY <2>3, <2>7, <2>8
<1> QED
  BY <1>2, <1>3
------------------------------------------------------------------------------
(* The types and the list.                                                    *)

LEMMA ScannedIsATimer ==
    ASSUME TypeOK, ListInv, Scanning
    PROVE  Scanned \in Timers /\ Listed(Scanned) /\ DOMAIN timerList = 1..Len(timerList)
<1>1. timerList \in Seq(Timers) /\ DOMAIN timerList = 1..Len(timerList)
  BY LenProperties DEF TypeOK
<1>2. pos \in 1..Len(timerList)
  BY DEF ListInv
<1> QED
  BY <1>1, <1>2, ElementOfSeq DEF Scanned, Listed

LEMMA PeriodIsPositive ==
    ASSUME TypeOK, NEW t \in Timers PROVE Period(t) \in Nat \ {0}
BY TimerAssumption DEF TypeOK, Period

\* One value of a function is replaced.
LEMMA SetIsTyped ==
    ASSUME NEW S, NEW V, NEW f \in [S -> V], NEW t, NEW v \in V
    PROVE  Set(f, t, v) \in [S -> V]
BY DEF Set

\* The scan goes to the next timer.
LEMMA NextIsTyped ==
    ASSUME TypeOK, NextTimer
    PROVE  /\ pos' \in Nat \ {0} /\ pc' \in {"look", "asleep"}
           /\ period' \in Nat \ {0} /\ expactCount' \in Nat /\ offset_i' \in Nat
BY TimerAssumption DEF TypeOK, NextTimer

LEMMA RemovalKeepsTypes ==
    ASSUME TypeOK, ListInv, NEW t \in Timers, RemoveTimer(t) PROVE TypeOK'
<1>1. timerList' \in Seq(Timers)
  BY Erased DEF RemoveTimer
<1>2. UNCHANGED <<clock, startTimer, loopCount, interval, loop, callback, pc, pos, now,
                  period, expactCount, offset_i, miniTime, lane, user, fired, ran, exact>>
  BY DEF RemoveTimer, timer, scan, history
<1> QED
  BY <1>1, <1>2 DEF TypeOK

LEMMA CallsKeepTypes ==
    ASSUME TypeOK, ListInv, NEW t \in Timers,
           \/ OnceTimer(t) \/ CallStart(t) \/ Stop(t) \/ SetLoop(t) \/ RemoveTimer(t)
           \/ \E i \in Intervals : SetInterval(t, i)
           \/ StoreStart \/ ResetLoopCount
    PROVE  TypeOK'
<1> USE TimerAssumption DEF TypeOK, Set, Meet, timer, scan, history
<1>1. CASE OnceTimer(t)
  <2>1. timerList' \in Seq(Timers)
    BY <1>1, Appended DEF OnceTimer
  <2> QED
    BY <1>1, <2>1 DEF OnceTimer
<1>2. CASE CallStart(t)
  BY <1>2 DEF CallStart
<1>3. CASE Stop(t)
  <2>1. startTimer' \in [Timers -> 0..MaxClock] /\ exact' \in [Timers -> BOOLEAN]
    BY <1>3 DEF Stop
  <2>2. user' \in [place: {"free", "add", "start", "reset"}, timer: Timers]
    BY <1>3 DEF Stop
  <2> QED
    BY <1>3, <2>1, <2>2 DEF Stop
<1>4. CASE SetLoop(t)
  <2>1. loop' \in [Timers -> BOOLEAN] /\ exact' \in [Timers -> BOOLEAN]
    BY <1>4 DEF SetLoop
  <2> QED
    BY <1>4, <2>1 DEF SetLoop
<1>5. CASE RemoveTimer(t)
  BY <1>5, RemovalKeepsTypes
<1>6. CASE \E i \in Intervals : SetInterval(t, i)
  <2>1. interval' \in [Timers -> Intervals] /\ exact' \in [Timers -> BOOLEAN]
    BY <1>6 DEF SetInterval
  <2> QED
    BY <1>6, <2>1 DEF SetInterval
<1>7. CASE StoreStart
  <2> DEFINE u == user.timer
             known == callback[u] /\ ~Holds(u) /\ ~TooLate
  <2>1. u \in Timers /\ known \in BOOLEAN
    OBVIOUS
  <2> HIDE DEF known
  <2>2. exact' = Set(exact, u, known)
    BY <1>7 DEF StoreStart, known
  <2>3. exact' \in [Timers -> BOOLEAN]
    BY <2>1, <2>2
  <2>4. startTimer' \in [Timers -> 0..MaxClock] /\ fired' \in [Timers -> Nat]
    <3>1. clock \in 0..MaxClock /\ 0 \in Nat
      OBVIOUS
    <3>2. startTimer' = Set(startTimer, u, clock) /\ fired' = Set(fired, u, 0)
      BY <1>7 DEF StoreStart
    <3> QED
      BY <3>1, <3>2, SetIsTyped
  <2>5. user' \in [place: {"free", "add", "start", "reset"}, timer: Timers]
    BY <1>7 DEF StoreStart
  <2> QED
    BY <1>7, <2>3, <2>4, <2>5 DEF StoreStart
<1>8. CASE ResetLoopCount
  <2>1. loopCount' \in [Timers -> Nat] /\ exact' \in [Timers -> BOOLEAN]
    BY <1>8 DEF ResetLoopCount
  <2>2. user' \in [place: {"free", "add", "start", "reset"}, timer: Timers]
    BY <1>8 DEF ResetLoopCount
  <2> QED
    BY <1>8, <2>1, <2>2 DEF ResetLoopCount
<1> QED
  BY <1>1, <1>2, <1>3, <1>4, <1>5, <1>6, <1>7, <1>8

LEMMA LoopKeepsTypes ==
    ASSUME TypeOK, ListInv, ScanInv, Scan \/ Tick \/ \E t \in Timers : RunCallbacks(t)
    PROVE  TypeOK'
<1> USE DEF timer, scan, history
<1>0. Scanning => /\ Scanned \in Timers
                  /\ startTimer[Scanned] \in Nat /\ now \in Nat /\ Offset \in Nat
                  /\ period \in Nat \ {0} /\ Word \in Nat \ {0}
  BY ScannedIsATimer, TimerAssumption DEF TypeOK
<1>T. /\ startTimer \in [Timers -> 0..MaxClock] /\ loopCount \in [Timers -> Nat]
      /\ lane \in [Timers -> Nat] /\ fired \in [Timers -> Nat] /\ ran \in [Timers -> Nat]
      /\ expactCount \in Nat /\ miniTime \in Nat \union {-1}
  BY DEF TypeOK
<1>1. ASSUME NEW t \in Timers, RunCallbacks(t) PROVE TypeOK'
  <2>1. timerList' \in Seq(Timers)
    BY <1>1, Erased DEF RunCallbacks, TypeOK
  <2>2. lane' \in [Timers -> Nat]
    BY <1>1, SetIsTyped DEF RunCallbacks, TypeOK
  <2>3. ran' \in [Timers -> Nat]
    <3>1. ran[t] + lane[t] \in Nat
      BY <1>T
    <3>2. ran' \in {ran, Set(ran, t, ran[t] + lane[t])}
      BY <1>1 DEF RunCallbacks
    <3> QED
      BY <1>T, <3>1, <3>2 DEF Set
  <2> QED
    BY <1>1, <2>1, <2>2, <2>3 DEF RunCallbacks, TypeOK
<1>2. CASE BeginScan
  BY <1>2, TimerAssumption DEF BeginScan, TypeOK
<1>3. CASE Look
  <2>1. /\ pos' \in Nat \ {0} /\ pc' \in {"look", "count", "asleep"}
        /\ period' \in Nat \ {0} /\ expactCount' \in Nat /\ offset_i' \in Nat
    <3>1. CASE Active(Scanned)
      BY <1>0, <1>3, <3>1, PeriodIsPositive DEF Look, Scanning, TypeOK
    <3>2. CASE ~Active(Scanned)
      BY <1>3, <3>2, NextIsTyped DEF Look
    <3> QED
      BY <3>1, <3>2
  <2>2. exact' \in [Timers -> BOOLEAN]
    BY <1>3 DEF Look, TypeOK
  <2> QED
    BY <1>3, <2>1, <2>2 DEF Look, TypeOK
<1>4. CASE Count
  <2>1. expactCount' \in Nat
    <3> DEFINE x == now - startTimer[Scanned] + Offset
    <3>1. x \in Int /\ Word \in Nat \ {0} /\ period \in Nat \ {0}
      BY <1>0, <1>4 DEF Count, Scanning
    <3>2. expactCount' = (x % Word) \div period
      BY <1>4 DEF Count
    <3> HIDE DEF x
    <3>3. x % Word \in 0..(Word - 1)
      BY <3>1, Remainder
    <3>4. x % Word \in Nat
      BY <3>1, <3>3
    <3> QED
      BY <3>1, <3>2, <3>4, Quotient
  <2> QED
    BY <1>4, <2>1 DEF Count, TypeOK
<1>5. CASE Compare
  <2>1. CASE expactCount > loopCount[Scanned]
    BY <1>5, <2>1 DEF Compare, TypeOK
  <2>2. CASE ~(expactCount > loopCount[Scanned])
    <3> DEFINE age == now - startTimer[Scanned]
               x == age % Word
    <3>0. age \in Int /\ Word \in Nat \ {0} /\ period \in Nat \ {0}
      BY <1>0, <1>5 DEF Compare, Scanning
    <3> HIDE DEF age
    <3>1. x \in Int
      BY <3>0, Remainder
    <3>2. miniTime' \in {period - (x % period), miniTime} /\ NextTimer
      BY <1>5, <2>2 DEF Compare, age
    <3> HIDE DEF x
    <3>3. x % period \in 0..(period - 1)
      BY <3>0, <3>1, Remainder
    <3>4. miniTime' \in Nat \union {-1}
      BY <1>T, <3>0, <3>2, <3>3
    <3> QED
      BY <1>5, <3>2, <3>4, NextIsTyped DEF Compare, TypeOK
  <2> QED
    BY <2>1, <2>2
<1>6. CASE Push
  <2>1. lane[Scanned] \in Nat /\ fired[Scanned] \in Nat /\ offset_i \in Nat
    BY <1>0, <1>6, <1>T DEF Push, Scanning, TypeOK
  <2>2. CASE offset_i < expactCount - loopCount[Scanned]
    <3>1. /\ lane' = Set(lane, Scanned, lane[Scanned] + 1)
          /\ fired' = Set(fired, Scanned, IF exact[Scanned] THEN fired[Scanned] + 1 ELSE 0)
          /\ offset_i' = offset_i + 1
          /\ pc' \in {"push", "stop"}
      BY <1>6, <2>2 DEF Push
    <3>2. /\ lane[Scanned] + 1 \in Nat
          /\ (IF exact[Scanned] THEN fired[Scanned] + 1 ELSE 0) \in Nat
      BY <2>1
    <3>3. lane' \in [Timers -> Nat] /\ fired' \in [Timers -> Nat] /\ offset_i' \in Nat
      <4>1. lane' \in [Timers -> Nat]
        BY <1>T, <3>1, <3>2, SetIsTyped
      <4>2. fired' \in [Timers -> Nat]
        <5> DEFINE n == IF exact[Scanned] THEN fired[Scanned] + 1 ELSE 0
        <5>1. fired' = Set(fired, Scanned, n) /\ n \in Nat
          BY <3>1, <3>2
        <5> HIDE DEF n
        <5> QED
          BY <1>T, <5>1, SetIsTyped
      <4> QED
        BY <2>1, <3>1, <4>1, <4>2
    <3> QED
      BY <1>6, <3>1, <3>3 DEF Push, TypeOK
  <2>3. CASE ~(offset_i < expactCount - loopCount[Scanned])
    BY <1>6, <2>3 DEF Push, TypeOK
  <2> QED
    BY <2>2, <2>3
<1>10. CASE StopOneShot \/ ClearOneShot
  <2>1. 0 \in Nat /\ 0 \in 0..MaxClock
    BY TimerAssumption
  <2>2. startTimer' \in [Timers -> 0..MaxClock] /\ loopCount' \in [Timers -> Nat]
    BY <1>T, <1>10, <2>1 DEF StopOneShot, ClearOneShot, Set
  <2> QED
    BY <1>10, <2>2 DEF StopOneShot, ClearOneShot, TypeOK
<1>7. CASE Record
  <2>1. loopCount' \in [Timers -> Nat]
    BY <1>7, SetIsTyped DEF Record, TypeOK
  <2> QED
    BY <1>7, <2>1, NextIsTyped DEF Record, TypeOK
<1>8. CASE Wake
  BY <1>8 DEF Wake, TypeOK
<1>9. CASE Tick
  BY <1>9, TimerAssumption DEF Tick, TypeOK
<1> QED
  BY <1>1, <1>2, <1>3, <1>4, <1>5, <1>6, <1>7, <1>8, <1>9, <1>10 DEF Scan

LEMMA ListKept ==
    ASSUME TypeOK, ListInv, [Next]_vars PROVE ListInv'
<1> USE DEF ListInv, Scanning, timer, scan, history
<1>0. timerList \in Seq(Timers) /\ Len(timerList) \in Nat /\ (timerList # <<>> => Len(timerList) > 0)
  BY LenProperties, EmptySeq DEF TypeOK
<1>1. ASSUME NEW t \in Timers, OnceTimer(t) PROVE ListInv'
  BY <1>1, Appended DEF OnceTimer
<1>2. ASSUME NEW t \in Timers, RemoveTimer(t) PROVE ListInv'
  BY <1>2, Erased DEF RemoveTimer
<1>3. ASSUME NEW t \in Timers, RunCallbacks(t) PROVE ListInv'
  BY <1>3, Erased DEF RunCallbacks
<1>4. ASSUME NEW t \in Timers,
             \/ CallStart(t) \/ Stop(t) \/ SetLoop(t)
             \/ \E i \in Intervals : SetInterval(t, i)
      PROVE  ListInv'
  BY <1>4 DEF CallStart, Stop, SetLoop, SetInterval
<1>5. CASE StoreStart \/ ResetLoopCount \/ Tick \/ UNCHANGED vars
  BY <1>5 DEF StoreStart, ResetLoopCount, Tick, vars
<1>6. CASE BeginScan
  BY <1>0, <1>6 DEF BeginScan
<1>7. CASE Look \/ Compare \/ Record
  BY <1>0, <1>7 DEF Look, Compare, Record, NextTimer
<1>8. CASE Count \/ Push \/ StopOneShot \/ ClearOneShot \/ Wake
  BY <1>8 DEF Count, Push, StopOneShot, ClearOneShot, Wake
<1> QED
  BY <1>1, <1>2, <1>3, <1>4, <1>5, <1>6, <1>7, <1>8 DEF Next, Scan
------------------------------------------------------------------------------
(* The clock.                                                                 *)

LEMMA ClockKept ==
    ASSUME TypeOK, ListInv, ClockInv, [Next]_vars PROVE ClockInv'
<1> USE DEF timer, scan, history
<1>0. /\ clock \in Nat /\ now \in Nat /\ Offset \in Nat /\ now <= clock
      /\ startTimer \in [Timers -> Nat] /\ exact \in [Timers -> BOOLEAN]
      /\ user.timer \in Timers /\ (Scanning => Scanned \in Timers)
  BY TimerAssumption, ScannedIsATimer DEF TypeOK, ClockInv
<1> SUFFICES ASSUME NEW t \in Timers
             PROVE  /\ now' <= clock' /\ startTimer'[t] <= clock'
                    /\ startTimer'[t] > 0 /\ exact'[t] /\ Scanning' => startTimer'[t] <= now' + Offset
  BY <1>0 DEF ClockInv, Active
<1>1. /\ startTimer[t] <= clock
      /\ startTimer[t] > 0 /\ exact[t] /\ Scanning => startTimer[t] <= now + Offset
  BY DEF ClockInv, Active
<1>2. CASE /\ now' = now /\ clock' = clock
           /\ startTimer'[t] = startTimer[t] /\ (exact'[t] => exact[t])
           /\ Scanning' => Scanning
  BY <1>0, <1>1, <1>2
<1>3. ASSUME NEW u \in Timers,
             \/ OnceTimer(u) \/ CallStart(u) \/ Stop(u) \/ SetLoop(u) \/ RemoveTimer(u)
             \/ \E i \in Intervals : SetInterval(u, i)
             \/ RunCallbacks(u)
      PROVE  now' <= clock' /\ startTimer'[t] <= clock'
             /\ (startTimer'[t] > 0 /\ exact'[t] /\ Scanning' => startTimer'[t] <= now' + Offset)
  <2>1. now' = now /\ clock' = clock /\ (Scanning' => Scanning)
    BY <1>3 DEF OnceTimer, CallStart, Stop, SetLoop, RemoveTimer, SetInterval, RunCallbacks, Scanning
  <2>2. exact'[t] => exact[t]
    BY <1>0, <1>3 DEF OnceTimer, CallStart, Stop, SetLoop, RemoveTimer, SetInterval,
       RunCallbacks, Meet, Set
  <2>3. startTimer'[t] \in {startTimer[t], 0}
    BY <1>0, <1>3 DEF OnceTimer, CallStart, Stop, SetLoop, RemoveTimer, SetInterval,
       RunCallbacks, Set
  <2> QED
    BY <1>0, <1>1, <2>1, <2>2, <2>3
<1>4. CASE StoreStart
  <2>1. /\ now' = now /\ clock' = clock /\ (Scanning' => Scanning)
        /\ t = user.timer => startTimer'[t] = clock /\ (exact'[t] => ~TooLate)
        /\ t # user.timer => startTimer'[t] = startTimer[t] /\ exact'[t] = exact[t]
    BY <1>0, <1>4 DEF StoreStart, Set, Scanning
  <2>2. Scanning /\ ~TooLate => clock <= now + Offset
    BY <1>0 DEF Scanning, TooLate
  <2> QED
    BY <1>0, <1>1, <2>1, <2>2
<1>5. CASE ResetLoopCount
  BY <1>0, <1>2, <1>5 DEF ResetLoopCount, Meet, Scanning
<1>6. CASE BeginScan
  BY <1>0, <1>1, <1>6 DEF BeginScan
<1>7. CASE Look
  BY <1>0, <1>2, <1>7 DEF Look, NextTimer, Scanning
<1>8. CASE Count \/ Compare \/ Record \/ Wake
  BY <1>0, <1>2, <1>8 DEF Count, Compare, Record, Wake, NextTimer, Scanning
<1>9. CASE Push \/ StopOneShot \/ ClearOneShot
  <2>1. /\ now' = now /\ clock' = clock /\ (Scanning' => Scanning) /\ exact' = exact
        /\ startTimer'[t] \in {startTimer[t], 0}
    BY <1>0, <1>9 DEF Push, StopOneShot, ClearOneShot, Set, Scanning
  <2> QED
    BY <1>0, <1>1, <2>1
<1>10. CASE Tick
  BY <1>0, <1>1, <1>10 DEF Tick, Scanning
<1>11. CASE UNCHANGED vars
  BY <1>2, <1>11 DEF vars, Scanning
<1> QED
  BY <1>3, <1>4, <1>5, <1>6, <1>7, <1>8, <1>9, <1>10, <1>11 DEF Next, Scan
LEMMA CallbackKept ==
    ASSUME TypeOK, ListInv, CallbackInv, [Next]_vars PROVE CallbackInv'
<1> USE DEF timer, scan, history, Pushing
<1>0. /\ startTimer \in [Timers -> Nat] /\ exact \in [Timers -> BOOLEAN]
      /\ callback \in [Timers -> BOOLEAN] /\ user.timer \in Timers
  BY TimerAssumption DEF TypeOK
<1>1. \A t \in Timers : startTimer[t] > 0 /\ exact[t] => callback[t]
  BY DEF CallbackInv, Active
<1>2. CASE StoreStart
  <2>1. \A t \in Timers : startTimer'[t] > 0 /\ exact'[t] => callback'[t]
    BY <1>0, <1>1, <1>2 DEF StoreStart, Set
  <2> QED
    BY <1>2, <2>1 DEF StoreStart, CallbackInv, Active
<1>3. CASE ~StoreStart
  <2>1. \A t \in Timers : (exact'[t] => exact[t]) /\ (callback[t] => callback'[t])
    BY <1>0, <1>3 DEF Next, Scan, OnceTimer, CallStart, Stop, SetLoop, RemoveTimer, SetInterval,
       RunCallbacks, ResetLoopCount, BeginScan, Look, Count, Compare, Push, StopOneShot,
       ClearOneShot, Record, Wake, Tick, Meet, Set, vars
  <2>2. \A t \in Timers : startTimer'[t] \in {startTimer[t], 0}
    BY <1>0, <1>3 DEF Next, Scan, OnceTimer, CallStart, Stop, SetLoop, RemoveTimer, SetInterval,
       RunCallbacks, ResetLoopCount, BeginScan, Look, Count, Compare, Push, StopOneShot,
       ClearOneShot, Record, Wake, Tick, Set, vars
  <2>3. ~Pushing' => offset_i' = 0
    BY <1>3 DEF Next, Scan, OnceTimer, CallStart, Stop, SetLoop, RemoveTimer, SetInterval,
       RunCallbacks, ResetLoopCount, BeginScan, Look, Count, Compare, Push, StopOneShot,
       ClearOneShot, Record, Wake, Tick, NextTimer, CallbackInv, vars
  <2> QED
    BY <1>0, <1>1, <2>1, <2>2, <2>3 DEF CallbackInv, Active
<1> QED
  BY <1>2, <1>3
------------------------------------------------------------------------------
(* The timers of onceTimer.                                                   *)

LEMMA OnceKept ==
    ASSUME TypeOK, ListInv, OnceInv, [Next]_vars PROVE OnceInv'
<1> USE DEF timer, scan, history
<1> SUFFICES ASSUME NEW t \in Onces PROVE Once(t)'
  BY DEF OnceInv
<1>0. /\ startTimer \in [Timers -> Nat] /\ lane \in [Timers -> Nat] /\ ran \in [Timers -> Nat]
      /\ loop \in [Timers -> BOOLEAN] /\ clock \in Nat \ {0}
      /\ user \in [place: {"free", "add", "start", "reset"}, timer: Timers]
  BY TimerAssumption DEF TypeOK
<1>1. t \in Timers /\ t \notin Handles /\ Once(t) /\ (Scanning => Scanned \in Timers /\ Listed(Scanned))
  BY TimerAssumption, ScannedIsATimer DEF Timers, OnceInv
<1>2. ASSUME startTimer'[t] = startTimer[t], lane'[t] = lane[t], ran'[t] = ran[t],
             loop'[t] = loop[t], Listed(t)' <=> Listed(t),
             user'.place = "start" /\ user'.timer = t => user = user',
             pc' \in {"count", "compare", "push", "stop"} /\ Scanned' = t =>
                pc \notin {"clear", "record"} /\ Holds(t),
             pc = "stop" /\ Scanned = t => pc' = "stop" /\ Scanned' = t
      PROVE  Once(t)'
  BY <1>0, <1>1, <1>2 DEF Once, Active, Holds
<1>3. ASSUME NEW u \in Timers, OnceTimer(u) PROVE Once(t)'
  <2>1. /\ Listed(t)' <=> Listed(t) \/ t = u
        /\ t = u => ~Listed(t) /\ ran[t] = 0
    BY <1>1, <1>3, Appended DEF OnceTimer
  <2>2. CASE u = t
    <3>1. startTimer[t] = 0 /\ lane[t] = 0 /\ ran[t] = 0 /\ ~loop[t]
      BY <1>1, <2>1, <2>2 DEF Once
    <3>2. /\ startTimer' = startTimer /\ lane' = lane /\ ran' = ran /\ loop' = loop
          /\ pc' \in {"run", "asleep"} /\ Listed(t)'
      BY <1>3, <2>1, <2>2 DEF OnceTimer
    <3> QED
      BY <3>1, <3>2 DEF Once, Active, Holds
  <2>3. CASE u # t
    <3>1. /\ startTimer' = startTimer /\ lane' = lane /\ ran' = ran /\ loop' = loop
          /\ pc \in {"run", "asleep"} /\ pc' = pc /\ user'.timer # t
      BY <1>3, <2>3 DEF OnceTimer
    <3>2. Listed(t)' <=> Listed(t)
      BY <2>1, <2>3
    <3> QED
      BY <1>1, <3>1, <3>2 DEF Once, Active, Holds
  <2> QED
    BY <2>2, <2>3
<1>4. ASSUME NEW u \in Timers,
             \/ CallStart(u) \/ Stop(u) \/ SetLoop(u)
             \/ \E i \in Intervals : SetInterval(u, i)
      PROVE  Once(t)'
  <2>1. u # t /\ timerList' = timerList /\ pc' = pc /\ pos' = pos
    BY <1>1, <1>4 DEF CallStart, Stop, SetLoop, SetInterval
  <2>2. /\ startTimer'[t] = startTimer[t] /\ lane'[t] = lane[t] /\ ran'[t] = ran[t]
        /\ loop'[t] = loop[t]
    BY <1>0, <1>1, <1>4, <2>1 DEF CallStart, Stop, SetLoop, SetInterval, Set
  <2>3. user'.place = "start" /\ user'.timer = t => user = user'
    <3>1. \/ user' = user \/ user' = [place |-> "reset", timer |-> u]
          \/ user' = [place |-> "start", timer |-> u]
      BY <1>4 DEF CallStart, Stop, SetLoop, SetInterval
    <3> QED
      BY <2>1, <3>1
  <2> QED
    BY <1>2, <2>1, <2>2, <2>3 DEF Listed, Holds, Scanned
<1>5. ASSUME NEW u \in Timers, RemoveTimer(u) PROVE Once(t)'
  <2>1. Listed(t)' <=> Listed(t)
    BY <1>1, <1>5, Erased DEF RemoveTimer
  <2> QED
    BY <1>2, <1>5, <2>1 DEF RemoveTimer
<1>6. ASSUME NEW u \in Timers, RunCallbacks(u) PROVE Once(t)'
  <2>1. CASE u = t
    <3>1. ~Listed(t)' /\ ran'[t] = ran[t] + lane[t] /\ lane'[t] = 0
      BY <1>0, <1>1, <1>6, <2>1, Erased DEF RunCallbacks, Set
    <3> QED
      BY <1>0, <1>1, <1>6, <2>1, <3>1 DEF RunCallbacks, Once, Active, Holds
  <2>2. CASE u # t
    <3>1. Listed(t)' <=> Listed(t)
      BY <1>1, <1>6, <2>2, Erased DEF RunCallbacks, Listed
    <3>2. ran'[t] = ran[t] /\ lane'[t] = lane[t]
      BY <1>0, <1>1, <1>6, <2>2 DEF RunCallbacks, Set
    <3> QED
      BY <1>2, <1>6, <3>1, <3>2 DEF RunCallbacks
  <2> QED
    BY <2>1, <2>2
<1>7. CASE StoreStart
  <2>1. CASE user.timer = t
    BY <1>0, <1>1, <1>7, <2>1 DEF StoreStart, Set, Once, Active, Listed, Holds, Scanned
  <2>2. CASE user.timer # t
    BY <1>0, <1>1, <1>2, <1>7, <2>2 DEF StoreStart, Set, Listed, Holds, Scanned
  <2> QED
    BY <2>1, <2>2
<1>8. CASE ResetLoopCount
  BY <1>0, <1>2, <1>8 DEF ResetLoopCount, Listed, Holds, Scanned
<1>9. CASE BeginScan \/ Record \/ Wake
  BY <1>2, <1>9 DEF BeginScan, Record, Wake, NextTimer, Listed
<1>10. CASE Look
  BY <1>0, <1>1, <1>10 DEF Look, NextTimer, Once, Listed, Holds, Scanned, Active
<1>11. CASE Count \/ Compare
  BY <1>2, <1>11 DEF Count, Compare, NextTimer, Listed, Holds, Scanned
<1>12. CASE Push
  <2>0. /\ pc = "push" /\ Scanned' = Scanned /\ Scanned \in Timers
        /\ UNCHANGED <<startTimer, ran, loop, timerList, user>>
    BY <1>1, <1>12 DEF Push, Scanned, Scanning
  <2>1. CASE Scanned = t
    <3>1. Active(t) /\ Listed(t) /\ ~loop[t] /\ lane[t] = 0 /\ ran[t] = 0
      BY <1>1, <2>0, <2>1 DEF Once, Holds, Scanning
    <3>2. \/ lane'[t] = 1 /\ pc' = "stop"
          \/ lane'[t] = 0 /\ pc' = "record"
      BY <1>0, <1>1, <1>12, <2>1, <3>1 DEF Push, Set
    <3> QED
      BY <1>0, <1>1, <2>0, <2>1, <3>1, <3>2 DEF Once, Active, Listed, Holds
  <2>2. CASE Scanned # t
    <3>1. lane'[t] = lane[t]
      BY <1>0, <1>1, <1>12, <2>0, <2>2 DEF Push, Set
    <3> QED
      BY <1>2, <2>0, <2>2, <3>1 DEF Listed
  <2> QED
    BY <2>1, <2>2
<1>14. CASE StopOneShot
  <2>0. /\ pc = "stop" /\ pc' = "clear" /\ Scanned' = Scanned /\ Scanned \in Timers
        /\ UNCHANGED <<lane, ran, loop, timerList, user>>
        /\ startTimer' = Set(startTimer, Scanned, 0)
    BY <1>1, <1>14 DEF StopOneShot, Scanned, Scanning
  <2>1. CASE Scanned = t
    <3>1. startTimer'[t] = 0 /\ Active(t) /\ Listed(t)
      BY <1>0, <1>1, <2>0, <2>1 DEF Set, Once, Holds, Scanning
    <3> QED
      BY <1>0, <1>1, <2>0, <2>1, <3>1 DEF Once, Active, Listed, Holds
  <2>2. CASE Scanned # t
    <3>1. startTimer'[t] = startTimer[t]
      BY <1>0, <1>1, <2>0, <2>2 DEF Set
    <3> QED
      BY <1>2, <2>0, <2>2, <3>1 DEF Listed
  <2> QED
    BY <2>1, <2>2
<1>15. CASE ClearOneShot
  BY <1>2, <1>15 DEF ClearOneShot, Listed
<1>13. CASE Tick \/ UNCHANGED vars
  BY <1>2, <1>13 DEF Tick, vars, Listed, Holds, Scanned
<1> QED
  BY <1>3, <1>4, <1>5, <1>6, <1>7, <1>8, <1>9, <1>10, <1>11, <1>12, <1>13, <1>14, <1>15
     DEF Next, Scan
------------------------------------------------------------------------------
(* What the scan knows.                                                       *)

Holding == Pushing \/ pc \in {"count", "compare"}

\* What the scan knows of the timer it holds.
Knows ==
    /\ ~Storing(Scanned)
    /\ pc \notin {"clear", "record"} => Active(Scanned)
    /\ Active(Scanned) => period = Period(Scanned)
    /\ Active(Scanned) /\ pc # "count" => expactCount = Due(Scanned)
    /\ pc = "push" => /\ fired[Scanned] = loopCount[Scanned] + offset_i
                      /\ fired[Scanned] <= expactCount
    /\ pc = "clear" => ~Active(Scanned)
    /\ Active(Scanned) /\ pc = "record" => fired[Scanned] = expactCount

\* A timer that is exact was started at a time the scan can count from.
LEMMA Countable ==
    ASSUME TypeOK, ClockInv, Scanning, NEW t \in Timers, Active(t), exact[t]
    PROVE  now - startTimer[t] + Offset \in 0..(Word - 1)
<1>1. /\ startTimer[t] \in Nat /\ now \in Nat /\ now <= MaxClock
      /\ Offset \in Nat /\ Word \in Nat /\ MaxClock \in Nat /\ Word > MaxClock + Offset
  BY TimerAssumption DEF TypeOK
<1>2. startTimer[t] <= now + Offset
  BY DEF ClockInv
<1> QED
  BY <1>1, <1>2

LEMMA ScanKept ==
    ASSUME TypeOK, ListInv, ClockInv, CallbackInv, CountInv, ScanInv, [Next]_vars
    PROVE  ScanInv'
<1> USE DEF timer, scan, history, Pushing
<1>0. /\ startTimer \in [Timers -> Nat] /\ loopCount \in [Timers -> Nat]
      /\ fired \in [Timers -> Nat] /\ interval \in [Timers -> Intervals]
      /\ exact \in [Timers -> BOOLEAN] /\ expactCount \in Nat /\ offset_i \in Nat
      /\ user \in [place: {"free", "add", "start", "reset"}, timer: Timers]
  BY TimerAssumption DEF TypeOK
<1>1. /\ Holding => Scanned \in Timers
      /\ Holding /\ exact[Scanned] => Knows
  BY ScannedIsATimer DEF ScanInv, Holding, Scanning, Knows
<1> SUFFICES ASSUME Holding'
             PROVE  exact'[Scanned'] => Knows'
  BY DEF ScanInv, Holding, Knows
\* A step of the user leaves the scan where it is, and alone what it knows.
<1>2. ASSUME pc' = pc, timerList' = timerList, UNCHANGED scan,
             exact'[Scanned] => /\ exact[Scanned] /\ ~Storing(Scanned)'
                                /\ loopCount'[Scanned] = loopCount[Scanned]
                                /\ startTimer'[Scanned] = startTimer[Scanned]
                                /\ interval'[Scanned] = interval[Scanned]
                                /\ fired'[Scanned] = fired[Scanned]
      PROVE  exact'[Scanned'] => Knows'
  BY <1>0, <1>1, <1>2 DEF Holding, Knows, Scanned, Active, Period, Due
<1>3. ASSUME NEW u \in Timers, OnceTimer(u) \/ RemoveTimer(u) \/ RunCallbacks(u)
      PROVE  FALSE
  BY <1>3 DEF OnceTimer, RemoveTimer, RunCallbacks, Holding
<1>4. ASSUME NEW u \in Timers,
             \/ CallStart(u) \/ Stop(u) \/ SetLoop(u)
             \/ \E i \in Intervals : SetInterval(u, i)
      PROVE  exact'[Scanned'] => Knows'
  <2>1. pc' = pc /\ timerList' = timerList /\ UNCHANGED scan /\ loopCount' = loopCount
    BY <1>4 DEF CallStart, Stop, SetLoop, SetInterval
  <2>2. Holding /\ Scanned \in Timers
    BY <1>1, <2>1 DEF Holding
  <2>3. exact'[Scanned] => /\ exact[Scanned]
                           /\ u = Scanned => CallStart(u)
    BY <1>0, <1>4, <2>2 DEF CallStart, Stop, SetLoop, SetInterval, Meet, Holds, Holding, Set
  <2>4. u # Scanned \/ CallStart(u) =>
           /\ startTimer'[Scanned] = startTimer[Scanned]
           /\ interval'[Scanned] = interval[Scanned]
           /\ fired'[Scanned] = fired[Scanned]
    BY <1>0, <1>4, <2>2 DEF CallStart, Stop, SetLoop, SetInterval, Set
  <2>5. ~Storing(Scanned) /\ (u # Scanned \/ CallStart(u)) => ~Storing(Scanned)'
    <3>1. \/ user' = user \/ user' = [place |-> "start", timer |-> u]
          \/ user' = [place |-> "reset", timer |-> u] /\ Stop(u)
      BY <1>4 DEF CallStart, Stop, SetLoop, SetInterval
    <3>2. CallStart(u) => user' = [place |-> "start", timer |-> u]
      BY DEF CallStart
    <3> QED
      BY <2>1, <3>1, <3>2 DEF Storing, Scanned
  <2>6. exact[Scanned] => ~Storing(Scanned)
    BY <1>1, <2>2 DEF Knows
  <2> QED
    BY <1>2, <2>1, <2>3, <2>4, <2>5, <2>6
<1>5. CASE StoreStart
  <2>1. /\ pc' = pc /\ timerList' = timerList /\ UNCHANGED scan /\ loopCount' = loopCount
        /\ Holding /\ Scanned \in Timers
    BY <1>1, <1>5 DEF StoreStart, Holding
  <2>2. exact'[Scanned] => /\ user.timer # Scanned /\ exact[Scanned]
                           /\ startTimer'[Scanned] = startTimer[Scanned]
                           /\ fired'[Scanned] = fired[Scanned]
    BY <1>0, <1>5, <2>1 DEF StoreStart, Set, Holds, Holding
  <2>3. interval' = interval /\ user'.timer = user.timer /\ Scanned' = Scanned
    BY <1>0, <1>5, <2>1 DEF StoreStart, Scanned
  <2>4. exact'[Scanned] => ~Storing(Scanned)'
    BY <2>2, <2>3 DEF Storing
  <2> QED
    BY <1>2, <2>1, <2>2, <2>3, <2>4
<1>6. CASE ResetLoopCount
  <2>1. /\ pc' = pc /\ timerList' = timerList /\ UNCHANGED scan
        /\ Holding /\ Scanned \in Timers /\ Scanned' = Scanned
    BY <1>1, <1>6 DEF ResetLoopCount, Holding, Scanned
  <2>2. /\ exact'[Scanned] => /\ exact[Scanned]
                              /\ loopCount'[Scanned] = loopCount[Scanned]
        /\ startTimer' = startTimer /\ interval' = interval /\ fired' = fired
        /\ user'.place = "free"
    BY <1>0, <1>6, <2>1 DEF ResetLoopCount, Meet, Set, Holds, Holding
  <2> QED
    BY <1>2, <2>1, <2>2 DEF Storing
<1>7. CASE Look
  <2>1. /\ pc' = "count" /\ Active(Scanned) /\ period' = Period(Scanned)
        /\ exact' = [exact EXCEPT ![Scanned] =
                        @ /\ ~(user.place = "reset" /\ user.timer = Scanned)]
        /\ UNCHANGED <<pos, timer, timerList, user>>
    BY <1>7 DEF Look, NextTimer, Holding
  <2>2. Scanned \in Timers /\ Scanned' = Scanned
    BY <1>7, <2>1, ScannedIsATimer DEF Look, Scanning, Scanned
  <2>3. exact'[Scanned] => ~Storing(Scanned)'
    BY <1>0, <2>1, <2>2 DEF Storing
  <2> QED
    BY <2>1, <2>2, <2>3 DEF Knows, Active, Period
<1>8. CASE Count
  <2>1. /\ pc = "count" /\ pc' = "compare" /\ Holding /\ Scanned \in Timers
        /\ expactCount' = ((now - startTimer[Scanned] + Offset) % Word) \div period
        /\ UNCHANGED <<timer, timerList, pos, now, period, user, history>>
    BY <1>1, <1>8 DEF Count, Holding
  <2>2. Scanned' = Scanned
    BY <2>1 DEF Scanned
  <2>3. exact[Scanned] => expactCount' = Due(Scanned)
    <3> DEFINE x == now - startTimer[Scanned] + Offset
    <3> SUFFICES ASSUME exact[Scanned] PROVE (x % Word) \div period = x \div Period(Scanned)
      BY <2>1 DEF Due
    <3>1. Active(Scanned) /\ period = Period(Scanned)
      BY <1>1, <2>1 DEF Knows
    <3>2. x \in 0..(Word - 1) /\ Word \in Nat \ {0}
      BY <2>1, <3>1, Countable, TimerAssumption DEF Scanning
    <3> HIDE DEF x
    <3>3. x % Word = x
      BY <3>2, Remainder
    <3> QED
      BY <3>1, <3>3
  <2>4. exact[Scanned] => Knows'
    BY <1>1, <2>1, <2>2, <2>3 DEF Knows, Active, Period, Due, Storing
  <2> QED
    BY <2>1, <2>2, <2>4
<1>9. CASE Compare
  <2>1. /\ pc = "compare" /\ Holding /\ Scanned \in Timers
        /\ pc' = IF callback[Scanned] THEN "push" ELSE "record"
        /\ expactCount > loopCount[Scanned] /\ offset_i = 0
        /\ UNCHANGED <<timer, timerList, scan, user, history>>
    BY <1>1, <1>9 DEF Compare, NextTimer, Holding, CallbackInv
  <2>2. exact[Scanned] => /\ Active(Scanned) /\ callback[Scanned]
                          /\ fired[Scanned] = loopCount[Scanned]
    BY <1>1, <2>1 DEF Knows, CallbackInv, CountInv
  <2>3. exact[Scanned] => /\ fired[Scanned] = loopCount[Scanned] + offset_i
                          /\ fired[Scanned] <= expactCount
    BY <1>0, <2>1, <2>2
  <2> QED
    BY <1>1, <2>1, <2>2, <2>3 DEF Knows, Active, Period, Due, Storing, Scanned
<1>10. CASE Push
  <2>1. /\ pc = "push" /\ Holding /\ Scanned \in Timers /\ Scanned' = Scanned
        /\ UNCHANGED <<timer, timerList, pos, now, period, expactCount, user, exact>>
    BY <1>1, <1>10 DEF Push, Holding, Scanned
  <2> SUFFICES ASSUME exact[Scanned] PROVE Knows'
    BY <2>1
  <2>2. /\ Active(Scanned) /\ ~Storing(Scanned)
        /\ period = Period(Scanned) /\ expactCount = Due(Scanned)
        /\ fired[Scanned] = loopCount[Scanned] + offset_i /\ fired[Scanned] <= expactCount
    BY <1>1, <2>1 DEF Knows
  <2>3. fired[Scanned] \in Nat /\ loopCount[Scanned] \in Nat
    BY <1>0, <2>1
  <2>4. CASE offset_i < expactCount - loopCount[Scanned]
    <3>1. /\ fired'[Scanned] = fired[Scanned] + 1 /\ offset_i' = offset_i + 1
          /\ pc' \in {"push", "stop"}
      BY <1>0, <1>10, <2>1, <2>4 DEF Push, Set
    <3>2. fired'[Scanned] = loopCount[Scanned] + offset_i' /\ fired'[Scanned] <= expactCount
      BY <1>0, <2>2, <2>3, <2>4, <3>1
    <3> QED
      BY <2>1, <2>2, <3>1, <3>2 DEF Knows, Active, Period, Due, Storing
  <2>5. CASE ~(offset_i < expactCount - loopCount[Scanned])
    <3>1. fired' = fired /\ pc' = "record"
      BY <1>10, <2>5 DEF Push
    <3>2. fired[Scanned] = expactCount
      BY <1>0, <2>2, <2>3, <2>5
    <3> QED
      BY <2>1, <2>2, <3>1, <3>2 DEF Knows, Active, Period, Due, Storing
  <2> QED
    BY <2>4, <2>5
<1>13. CASE StopOneShot \/ ClearOneShot
  <2>1. /\ Holding /\ Scanned \in Timers /\ Scanned' = Scanned
        /\ UNCHANGED <<timerList, scan, user, exact>>
        /\ pc' \in {"clear", "record"}
    BY <1>1, <1>13 DEF StopOneShot, ClearOneShot, Holding, Scanned
  <2>2. exact[Scanned] => startTimer'[Scanned] = 0
    BY <1>0, <1>1, <1>13, <2>1 DEF StopOneShot, ClearOneShot, Set, Knows, Active
  <2> QED
    BY <1>1, <2>1, <2>2 DEF Knows, Active, Storing
<1>11. CASE BeginScan \/ Record \/ Wake
  BY <1>11 DEF BeginScan, Record, Wake, NextTimer, Holding
<1>12. CASE Tick \/ UNCHANGED vars
  <2>1. UNCHANGED <<timer, timerList, pc, scan, user, history>>
    BY <1>12 DEF Tick, vars
  <2> QED
    BY <1>1, <2>1 DEF Knows, Active, Period, Due, Storing, Scanned, Holding
<1> QED
  BY <1>3, <1>4, <1>5, <1>6, <1>7, <1>8, <1>9, <1>10, <1>11, <1>12, <1>13 DEF Next, Scan
------------------------------------------------------------------------------
(* The count.                                                                 *)

\* What the scan owes has gone by: the callbacks of Due are not early.
LEMMA DueIsNotEarly ==
    ASSUME TypeOK, ClockInv, Scanning, NEW t \in Timers, Active(t), exact[t]
    PROVE  /\ Due(t) \in Nat
           /\ Due(t) * Period(t) <= now - startTimer[t] + Offset
           /\ now - startTimer[t] + Offset < (Due(t) + 1) * Period(t)
<1> DEFINE x == now - startTimer[t] + Offset
<1>1. x \in Nat
  BY Countable, TimerAssumption
<1>2. Period(t) \in Nat \ {0}
  BY PeriodIsPositive
<1> HIDE DEF x
<1>3. /\ x \div Period(t) \in Nat /\ (x \div Period(t)) * Period(t) <= x
      /\ x < ((x \div Period(t)) + 1) * Period(t)
  BY <1>1, <1>2, Quotient
<1> QED
  BY <1>3 DEF Due, x

LEMMA CountKept ==
    ASSUME TypeOK, ListInv, ClockInv, CountInv, ScanInv, [Next]_vars
    PROVE  CountInv'
<1> USE DEF timer, scan, history, Pushing
<1>0. /\ startTimer \in [Timers -> Nat] /\ loopCount \in [Timers -> Nat]
      /\ fired \in [Timers -> Nat] /\ interval \in [Timers -> Intervals]
      /\ exact \in [Timers -> BOOLEAN] /\ expactCount \in Nat /\ now \in Nat /\ clock \in Nat
      /\ user \in [place: {"free", "add", "start", "reset"}, timer: Timers]
      /\ now <= clock /\ Offset \in Nat
  BY TimerAssumption DEF TypeOK, ClockInv
<1> DEFINE Good(t) ==
              Active(t) /\ exact[t] =>
                 /\ Storing(t) => fired[t] = 0
                 /\ ~Storing(t) /\ ~(Pushing /\ Scanned = t) => loopCount[t] = fired[t]
                 /\ fired[t] = 0 \/ fired[t] * Period(t) <= now - startTimer[t] + Offset
<1> SUFFICES ASSUME NEW t \in Timers PROVE Good(t)'
  BY DEF CountInv
<1>1. Good(t)
  BY DEF CountInv
<1>2. ASSUME startTimer'[t] = startTimer[t], fired'[t] = fired[t],
             loopCount'[t] = loopCount[t], interval'[t] = interval[t],
             exact'[t] => exact[t], now' \in Nat, now' >= now,
             Storing(t)' <=> Storing(t),
             Pushing /\ Scanned = t => Pushing' /\ Scanned' = t
      PROVE  Good(t)'
  <2>1. Period(t)' = Period(t) /\ Period(t) \in Nat
    BY <1>2, PeriodIsPositive DEF Period
  <2>2. fired[t] \in Nat /\ startTimer[t] \in Nat /\ now \in Nat
    BY <1>0
  <2> DEFINE a == fired[t] * Period(t)
  <2>3. a \in Nat
    BY <2>1, <2>2
  <2>4. fired'[t] * Period(t)' = a
    BY <1>2, <2>1
  <2>5. Active(t)' <=> Active(t)
    BY <1>2 DEF Active
  <2> HIDE DEF a
  <2>6. a <= now - startTimer[t] + Offset => a <= now' - startTimer'[t] + Offset
    BY <1>0, <1>2, <2>2, <2>3
  <2>7. Active(t) /\ exact[t] => fired[t] = 0 \/ a <= now - startTimer[t] + Offset
    BY <1>1 DEF a
  <2> QED
    BY <1>1, <1>2, <2>4, <2>5, <2>6, <2>7
<1>3. ASSUME NEW u \in Timers,
             \/ OnceTimer(u) \/ CallStart(u) \/ SetLoop(u) \/ RemoveTimer(u)
             \/ RunCallbacks(u) \/ Stop(u)
             \/ \E i \in Intervals : SetInterval(u, i)
      PROVE  Good(t)'
  <2>1. CASE t = u /\ (Stop(u) \/ \E i \in Intervals : SetInterval(u, i))
    BY <1>0, <2>1 DEF Stop, SetInterval, Set, Active
  <2>2. CASE ~(t = u /\ (Stop(u) \/ \E i \in Intervals : SetInterval(u, i)))
    <3>1. /\ startTimer'[t] = startTimer[t] /\ fired'[t] = fired[t]
          /\ loopCount'[t] = loopCount[t] /\ interval'[t] = interval[t] /\ now' = now
      BY <1>0, <1>3, <2>2 DEF OnceTimer, CallStart, SetLoop, RemoveTimer, RunCallbacks,
         Stop, SetInterval, Set
    <3>2. exact'[t] => exact[t]
      BY <1>0, <1>3, <2>2 DEF OnceTimer, CallStart, SetLoop, RemoveTimer, RunCallbacks,
         Stop, SetInterval, Set, Meet
    <3>3. Storing(t)' <=> Storing(t)
      <4>1. \/ user' = user
            \/ user.place = "free" /\ user' = [place |-> "start", timer |-> u]
            \/ user.place = "free" /\ user' = [place |-> "reset", timer |-> u] /\ t # u
        BY <1>3, <2>2 DEF OnceTimer, CallStart, SetLoop, RemoveTimer, RunCallbacks,
           Stop, SetInterval
      <4> QED
        BY <4>1 DEF Storing
    <3>4. Pushing /\ Scanned = t => Pushing' /\ Scanned' = t
      BY <1>3 DEF OnceTimer, CallStart, SetLoop, RemoveTimer, RunCallbacks,
         Stop, SetInterval, Scanned
    <3> QED
      BY <1>0, <1>2, <3>1, <3>2, <3>3, <3>4
  <2> QED
    BY <2>1, <2>2
<1>4. CASE StoreStart
  <2>1. CASE user.timer = t
    <3>1. fired'[t] = 0 /\ Storing(t)'
      BY <1>0, <1>4, <2>1 DEF StoreStart, Set, Storing
    <3> QED
      BY <3>1
  <2>2. CASE user.timer # t
    <3>1. ~Storing(t)' /\ ~Storing(t)
      BY <1>0, <1>4, <2>2 DEF StoreStart, Storing
    <3>2. /\ startTimer'[t] = startTimer[t] /\ fired'[t] = fired[t]
          /\ exact'[t] = exact[t]
      BY <1>0, <1>4, <2>2 DEF StoreStart, Set
    <3>3. UNCHANGED <<loopCount, interval, now, pc, timerList, pos>>
      BY <1>4 DEF StoreStart
    <3> QED
      BY <1>0, <1>2, <3>1, <3>2, <3>3 DEF Scanned
  <2> QED
    BY <2>1, <2>2
<1>5. CASE ResetLoopCount
  <2>1. UNCHANGED <<startTimer, fired, interval, now, pc, timerList, pos>> /\ ~Storing(t)'
    BY <1>0, <1>5 DEF ResetLoopCount, Storing
  <2>2. exact'[t] => exact[t]
    BY <1>0, <1>5 DEF ResetLoopCount, Meet
  <2>3. CASE user.timer = t
    <3>1. Storing(t) /\ loopCount'[t] = 0
      BY <1>0, <1>5, <2>3 DEF ResetLoopCount, Set, Storing
    <3>2. Active(t)' /\ exact'[t] => fired'[t] = 0
      BY <1>1, <2>1, <2>2, <3>1 DEF Active
    <3> QED
      BY <2>1, <3>1, <3>2
  <2>4. CASE user.timer # t
    <3>1. ~Storing(t) /\ loopCount'[t] = loopCount[t]
      BY <1>0, <1>5, <2>4 DEF ResetLoopCount, Set, Storing
    <3> QED
      BY <1>0, <1>2, <2>1, <2>2, <3>1 DEF Scanned
  <2> QED
    BY <2>3, <2>4
<1>6. CASE BeginScan \/ Look \/ Count \/ Compare \/ Wake \/ Tick \/ UNCHANGED vars
  <2>1. UNCHANGED <<startTimer, fired, loopCount, interval, user>>
    BY <1>6 DEF BeginScan, Look, Count, Compare, Wake, Tick, vars
  <2>2. now' \in {now, clock} /\ (exact'[t] => exact[t])
    BY <1>0, <1>6 DEF BeginScan, Look, Count, Compare, Wake, Tick, vars
  <2>3. Pushing /\ Scanned = t => Pushing' /\ Scanned' = t
    BY <1>6 DEF BeginScan, Look, Count, Compare, Wake, Tick, vars, Scanned
  <2> QED
    BY <1>0, <1>2, <2>1, <2>2, <2>3 DEF Storing
<1>7. CASE Push
  <2>1. /\ pc = "push" /\ pc' \in {"push", "stop", "record"} /\ Scanned' = Scanned
        /\ UNCHANGED <<timer, now, user, exact, timerList, expactCount>>
        /\ Holding /\ Scanning
    BY <1>7 DEF Push, Holding, Scanning, Scanned
  <2>2. CASE fired'[t] = fired[t]
    BY <1>0, <1>2, <2>1, <2>2 DEF Storing
  <2>3. CASE fired'[t] # fired[t]
    <3> SUFFICES ASSUME Active(t)', exact'[t]
                 PROVE  /\ ~Storing(t)' /\ Scanned' = t
                        /\ fired'[t] * Period(t)' <= now' - startTimer'[t] + Offset
      BY <2>1
    <3>1. Active(t) /\ exact[t]
      BY <2>1 DEF Active
    <3>2. Scanned = t /\ fired'[t] = fired[t] + 1 /\ offset_i < expactCount - loopCount[t]
      BY <1>0, <1>7, <2>3, <3>1 DEF Push, Set
    <3>3. /\ ~Storing(t) /\ expactCount = Due(t)
          /\ fired[t] = loopCount[t] + offset_i
      BY <2>1, <3>1, <3>2 DEF ScanInv, Holding
    <3>4. Due(t) \in Nat /\ Due(t) * Period(t) <= now - startTimer[t] + Offset
      BY <2>1, <3>1, DueIsNotEarly
    <3>5. fired'[t] \in Nat /\ fired'[t] <= Due(t) /\ Period(t) \in Nat
      <4>1. /\ fired[t] \in Nat /\ loopCount[t] \in Nat /\ offset_i \in Nat
            /\ expactCount \in Nat
        BY <1>0 DEF TypeOK
      <4> QED
        BY <3>2, <3>3, <4>1, PeriodIsPositive
    <3> DEFINE a == fired'[t] * Period(t)
               b == Due(t) * Period(t)
    <3>6. a <= b /\ a \in Nat /\ b \in Nat
      BY <3>4, <3>5, Monotone
    <3>7. Period(t)' = Period(t) /\ b <= now - startTimer[t] + Offset
      BY <2>1, <3>4 DEF Period
    <3>8. now - startTimer[t] + Offset \in Int
      BY <1>0
    <3> HIDE DEF b
    <3>9. a <= now - startTimer[t] + Offset
      <4> HIDE DEF a
      <4> QED
        BY <3>6, <3>7, <3>8
    <3> QED
      BY <2>1, <3>2, <3>3, <3>7, <3>9 DEF Storing
  <2> QED
    BY <2>2, <2>3
<1>9. CASE StopOneShot \/ ClearOneShot
  <2>1. /\ pc \in {"stop", "clear"} /\ pc' \in {"clear", "record"} /\ Scanned' = Scanned
        /\ UNCHANGED <<fired, interval, now, user, exact, timerList>>
        /\ startTimer'[t] \in {startTimer[t], 0}
    BY <1>0, <1>9 DEF StopOneShot, ClearOneShot, Scanned, Set
  <2>2. CASE Scanned # t
    <3>1. startTimer'[t] = startTimer[t] /\ loopCount'[t] = loopCount[t]
      BY <1>0, <1>9, <2>2 DEF StopOneShot, ClearOneShot, Set
    <3> QED
      BY <1>0, <1>2, <2>1, <2>2, <3>1 DEF Storing
  <2>3. CASE Scanned = t /\ startTimer'[t] = 0
    BY <2>3 DEF Active
  <2>4. CASE Scanned = t /\ startTimer'[t] = startTimer[t]
    <3>1. Period(t)' = Period(t)
      BY <2>1 DEF Period
    <3> QED
      BY <1>1, <2>1, <2>4, <3>1 DEF Active, Storing
  <2> QED
    BY <2>1, <2>2, <2>3, <2>4
<1>8. CASE Record
  <2>1. /\ UNCHANGED <<startTimer, interval, now, user, history, timerList>>
        /\ pc = "record" /\ Holding /\ ~Pushing'
    BY <1>8 DEF Record, NextTimer, Holding
  <2>2. CASE Scanned # t
    <3>1. loopCount'[t] = loopCount[t]
      BY <1>0, <1>8, <2>2 DEF Record, Set
    <3> QED
      BY <1>0, <1>2, <2>1, <2>2, <3>1 DEF Storing
  <2>3. CASE Scanned = t
    <3> SUFFICES ASSUME Active(t)', exact'[t]
                 PROVE  /\ ~Storing(t)' /\ loopCount'[t] = fired'[t]
                        /\ fired'[t] = 0 \/ fired'[t] * Period(t)' <= now' - startTimer'[t] + Offset
      OBVIOUS
    <3>1. Active(t) /\ exact[t]
      BY <2>1 DEF Active
    <3>2. loopCount'[t] = expactCount
      BY <1>0, <1>8, <2>3, <3>1 DEF Record, Set
    <3>3. ~Storing(t) /\ fired[t] = expactCount
      BY <2>1, <2>3, <3>1 DEF ScanInv, Holding
    <3>4. Period(t)' = Period(t)
      BY <2>1 DEF Period
    <3> QED
      BY <1>1, <2>1, <3>1, <3>2, <3>3, <3>4 DEF Storing
  <2> QED
    BY <2>2, <2>3
<1> QED
  BY <1>3, <1>4, <1>5, <1>6, <1>7, <1>8, <1>9 DEF Next, Scan
------------------------------------------------------------------------------
(* What the scan leaves behind it.                                            *)

\* The scan goes on: done with are the timers it was done with, and the one it held.
LEMMA NextPasses ==
    ASSUME TypeOK, ListInv, Scanning, NextTimer, timerList' = timerList,
           NEW t \in Timers, Listed(t), Passed(t)'
    PROVE  Passed(t) \/ Scanned = t
<1>1. /\ Len(timerList) \in Nat /\ DOMAIN timerList = 1..Len(timerList)
      /\ pos \in 1..Len(timerList)
  BY LenProperties DEF TypeOK, ListInv
<1>2. PICK k \in 1..Len(timerList) : timerList[k] = t
  BY <1>1 DEF Listed
<1>3. CASE pos = Len(timerList)
  <2>1. k \in Int /\ pos \in Int /\ 1 <= k /\ k <= pos
    BY <1>1, <1>2, <1>3
  <2>2. k \in 1..(pos - 1) \/ k = pos
    BY <2>1
  <2> QED
    BY <1>2, <2>2 DEF Passed, Scanned
<1>4. CASE pos # Len(timerList)
  <2>1. pc' = "look" /\ pos' = pos + 1
    BY <1>4 DEF NextTimer
  <2>2. PICK i \in 1..(pos' - 1) : timerList[i] = t
    BY <2>1 DEF Passed, Scanning
  <2>3. i \in 1..(pos - 1) \/ i = pos
    BY <1>1, <2>1
  <2> QED
    BY <2>2, <2>3 DEF Passed, Scanned
<1> QED
  BY <1>3, <1>4

\* The timer that the scan is at is not one it is done with.
LEMMA ScannedIsNotPassed ==
    ASSUME TypeOK, ListInv, Scanning PROVE ~Passed(Scanned)
<1>1. Len(timerList) \in Nat /\ pos \in 1..Len(timerList)
  BY LenProperties DEF TypeOK, ListInv
<1>2. \A i \in 1..(pos - 1) : timerList[i] # timerList[pos]
  BY <1>1 DEF ListInv
<1> QED
  BY <1>2 DEF Passed, Scanning, Scanned

\* What is left of the interval that runs, from the scan on, ends before the
\* next callback is due.
LEMMA RemainIsInTime ==
    ASSUME NEW n \in Nat, NEW s \in Nat, NEW p \in Nat \ {0}, NEW o \in Nat, s <= n
    PROVE  LET remain == p - ((n - s) % p) IN
           /\ remain \in Nat
           /\ n + remain <= s + (((n - s + o) \div p) + 1) * p
<1> DEFINE y == n - s
           r == y % p
           a == y \div p
           b == (y + o) \div p
<1>1. y \in Nat /\ y + o \in Nat /\ y <= y + o
  OBVIOUS
<1> HIDE DEF y
<1>2. r \in 0..(p - 1) /\ y = a * p + r
  BY <1>1, Remainder
<1>3. a \in Nat /\ b \in Nat /\ a <= b
  BY <1>1, Quotient, QuotientGrows
<1> HIDE DEF r, a, b
<1>4. a + 1 \in Nat /\ b + 1 \in Nat /\ a + 1 <= b + 1
  BY <1>3
<1>5. (a + 1) * p <= (b + 1) * p
  BY <1>4, Monotone
<1>6. (a + 1) * p = a * p + p /\ a * p \in Nat /\ (b + 1) * p \in Nat
  BY <1>3
<1>7. y = n - s
  BY DEF y
<1>8. p - r \in Nat /\ n + (p - r) <= s + (b + 1) * p
  BY <1>1, <1>2, <1>5, <1>6, <1>7
<1> QED
  BY <1>8 DEF r, b, y

\* A timer the scan counted and did not find due has got what it was owed.
LEMMA NotDueIsEven ==
    ASSUME TypeOK, ListInv, ClockInv, CountInv, ScanInv, pc = "compare", exact[Scanned],
           ~(expactCount > loopCount[Scanned])
    PROVE  fired[Scanned] = Due(Scanned) /\ ~Storing(Scanned) /\ period = Period(Scanned)
<1> DEFINE t == Scanned
           x == now - startTimer[t] + Offset
<1>1. Holding /\ Scanning /\ t \in Timers
  BY ScannedIsATimer DEF Holding, Scanning
<1>2. Active(t) /\ ~Storing(t) /\ expactCount = Due(t) /\ period = Period(t)
  BY <1>1 DEF ScanInv, Holding
<1>3. loopCount[t] = fired[t] /\ fired[t] \in Nat /\ Due(t) \in Nat
  BY <1>1, <1>2, DueIsNotEarly DEF CountInv, Pushing, TypeOK
<1>4. x \in Nat /\ Period(t) \in Nat \ {0}
  BY <1>1, <1>2, Countable, PeriodIsPositive, TimerAssumption
<1>5. fired[t] = 0 \/ fired[t] * Period(t) <= x
  BY <1>1, <1>2 DEF CountInv
<1> HIDE DEF x
<1>6. Due(t) = x \div Period(t)
  BY DEF Due, x
<1> HIDE DEF t
<1>7. fired[t] * Period(t) <= x => fired[t] <= x \div Period(t)
  BY <1>3, <1>4, QuotientIsLargest
<1>8. fired[t] <= Due(t)
  BY <1>3, <1>5, <1>6, <1>7
<1>9. fired[t] >= Due(t)
  BY <1>2, <1>3 DEF t
<1>10. fired[t] = Due(t)
  BY <1>3, <1>8, <1>9
<1> QED
  BY <1>2, <1>10 DEF t

LEMMA PassedKept ==
    ASSUME TypeOK, ListInv, ClockInv, CountInv, ScanInv, PassedInv, OnceInv, [Next]_vars
    PROVE  PassedInv'
<1> USE DEF timer, scan, history
<1>0. /\ startTimer \in [Timers -> Nat] /\ fired \in [Timers -> Nat]
      /\ interval \in [Timers -> Intervals] /\ exact \in [Timers -> BOOLEAN]
      /\ now \in Nat /\ clock \in Nat /\ now <= clock /\ miniTime \in Nat \union {-1}
      /\ user \in [place: {"free", "add", "start", "reset"}, timer: Timers]
      /\ Offset \in Nat
  BY TimerAssumption DEF TypeOK, ClockInv
<1> DEFINE Good(t) == /\ ~Storing(t)
                      /\ fired[t] = Due(t)
                      /\ miniTime >= 0
                      /\ now + miniTime <= startTimer[t] + (fired[t] + 1) * Period(t)
<1> SUFFICES ASSUME NEW t \in Timers, Seen(t)', Passed(t)' PROVE Good(t)'
  BY DEF PassedInv
<1>1. Seen(t) /\ Passed(t) => Good(t)
  BY DEF PassedInv
\* The timer was passed before, and nothing but the sleep got less.
<1>2. ASSUME startTimer'[t] = startTimer[t], fired'[t] = fired[t],
             interval'[t] = interval[t], exact'[t] => exact[t], now' = now,
             Listed(t)' => Listed(t), Passed(t), Storing(t)' => Storing(t),
             miniTime' = miniTime \/ (miniTime >= 0 => miniTime' \in 0..miniTime)
      PROVE  Good(t)'
  <2>1. Period(t)' = Period(t) /\ Due(t)' = Due(t)
    BY <1>2 DEF Period, Due
  <2>2. Seen(t)
    BY <1>2 DEF Seen, Active
  <2>3. Good(t)
    BY <1>1, <1>2, <2>2
  <2> DEFINE end == startTimer[t] + (fired[t] + 1) * Period(t)
  <2>4. end \in Int
    BY <1>0, PeriodIsPositive
  <2>5. startTimer'[t] + (fired'[t] + 1) * Period(t)' = end
    BY <1>2, <2>1
  <2> HIDE DEF end
  <2>6. miniTime \in Nat /\ now + miniTime <= end
    BY <1>0, <2>3 DEF end
  <2>7. miniTime' >= 0 /\ now' + miniTime' <= end
    BY <1>0, <1>2, <2>4, <2>6
  <2> QED
    BY <1>2, <2>1, <2>3, <2>5, <2>7
<1>3. ASSUME NEW u \in Timers, OnceTimer(u) PROVE Good(t)'
  <2>1. /\ UNCHANGED <<startTimer, fired, interval, exact, now, pc, pos, miniTime>>
        /\ pc \in {"run", "asleep"} /\ ~Storing(t)' /\ u \in Onces /\ ~Listed(u)
    BY <1>3 DEF OnceTimer, Storing
  <2>2. Passed(t)
    BY <2>1 DEF Passed, Scanning
  <2>3. u # t
    <3>1. startTimer[u] = 0
      BY <2>1 DEF OnceInv, Once
    <3> QED
      BY <2>1, <3>1 DEF Seen, Active
  <2>4. Listed(t)' => Listed(t)
    BY <1>3, <2>1, <2>3, Appended DEF OnceTimer
  <2> QED
    BY <1>2, <2>1, <2>2, <2>4
<1>4. ASSUME NEW u \in Timers,
             \/ CallStart(u) \/ Stop(u) \/ SetLoop(u)
             \/ \E i \in Intervals : SetInterval(u, i)
      PROVE  Good(t)'
  <2>1. UNCHANGED <<fired, now, pc, pos, miniTime, timerList>>
    BY <1>4 DEF CallStart, Stop, SetLoop, SetInterval
  <2>2. exact'[t] => exact[t]
    BY <1>0, <1>4 DEF CallStart, Stop, SetLoop, SetInterval, Meet, Set
  <2>3. u = t => CallStart(u) \/ SetLoop(u)
    BY <1>0, <1>4 DEF Stop, SetInterval, Set, Seen, Active
  <2>4. startTimer'[t] = startTimer[t] /\ interval'[t] = interval[t]
    BY <1>0, <1>4, <2>3 DEF CallStart, Stop, SetLoop, SetInterval, Set
  <2>5. Storing(t)' => Storing(t)
    <3>1. \/ user' = user \/ user' = [place |-> "start", timer |-> u]
          \/ user' = [place |-> "reset", timer |-> u] /\ u # t
      <4>1. CallStart(u) \/ SetLoop(u) => user' = user \/ user' = [place |-> "start", timer |-> u]
        BY DEF CallStart, SetLoop
      <4>2. \A i \in Intervals : SetInterval(u, i) => user' = user
        BY DEF SetInterval
      <4>3. Stop(u) => user' = [place |-> "reset", timer |-> u]
        BY DEF Stop
      <4> QED
        BY <1>4, <2>3, <4>1, <4>2, <4>3
    <3> QED
      BY <3>1 DEF Storing
  <2>6. (Listed(t)' => Listed(t)) /\ Passed(t)
    BY <2>1 DEF Listed, Passed, Scanning
  <2> QED
    BY <1>2, <2>1, <2>2, <2>4, <2>5, <2>6
<1>5. ASSUME NEW u \in Timers, RemoveTimer(u) PROVE Good(t)'
  <2>1. /\ UNCHANGED <<startTimer, fired, interval, exact, now, pc, pos, miniTime, user>>
        /\ pc \in {"run", "asleep"}
    BY <1>5 DEF RemoveTimer
  <2>2. Passed(t)
    BY <2>1 DEF Passed, Scanning
  <2>3. Listed(t)' => Listed(t)
    BY <1>5, Erased DEF RemoveTimer
  <2> QED
    BY <1>2, <2>1, <2>2, <2>3 DEF Storing
<1>6. CASE StoreStart
  <2>1. UNCHANGED <<interval, now, pc, pos, miniTime, timerList>>
    BY <1>6 DEF StoreStart
  <2>2. user.timer # t
    <3>1. user.timer = t => startTimer'[t] = clock
      BY <1>0, <1>6 DEF StoreStart, Set
    <3> QED
      BY <1>0, <2>1, <3>1 DEF Seen
  <2>3. /\ startTimer'[t] = startTimer[t] /\ fired'[t] = fired[t] /\ exact'[t] = exact[t]
        /\ ~Storing(t)'
    BY <1>0, <1>6, <2>2 DEF StoreStart, Set, Storing
  <2>4. (Listed(t)' => Listed(t)) /\ Passed(t)
    BY <2>1 DEF Listed, Passed, Scanning
  <2> QED
    BY <1>2, <2>1, <2>3, <2>4
<1>7. CASE ResetLoopCount
  <2>1. /\ UNCHANGED <<startTimer, fired, interval, now, pc, pos, miniTime, timerList>>
        /\ exact'[t] => exact[t]
        /\ ~Storing(t)'
    BY <1>0, <1>7 DEF ResetLoopCount, Meet, Storing
  <2>2. (Listed(t)' => Listed(t)) /\ Passed(t)
    BY <2>1 DEF Listed, Passed, Scanning
  <2> QED
    BY <1>2, <2>1, <2>2
<1>8. CASE (\E u \in Timers : RunCallbacks(u)) \/ Wake
  BY <1>8 DEF RunCallbacks, Wake, Passed, Scanning
<1>9. CASE BeginScan
  <2>1. pos' = 1 /\ timerList' = timerList /\ (pc' = "asleep" => timerList = <<>>)
    BY <1>9 DEF BeginScan
  <2>2. CASE pc' = "asleep"
    <3>1. DOMAIN timerList = {}
      BY <2>1, <2>2
    <3> QED
      BY <2>1, <3>1 DEF Seen, Listed
  <2>3. CASE pc' # "asleep"
    BY <2>1, <2>3 DEF Passed
  <2> QED
    BY <2>2, <2>3
<1>10. CASE Look
  <2>1. /\ UNCHANGED <<startTimer, fired, interval, now, miniTime, user, timerList>>
        /\ (exact'[t] => exact[t]) /\ pc = "look" /\ Scanning
    BY <1>0, <1>10 DEF Look, Scanning
  <2>2. Listed(t)' => Listed(t)
    BY <2>1 DEF Listed
  <2>3. Listed(t) /\ Active(t)
    BY <2>1, <2>2 DEF Seen, Active
  <2>4. Passed(t)
    <3>1. CASE Active(Scanned)
      BY <1>10, <2>1, <3>1 DEF Look, Passed, Scanning
    <3>2. CASE ~Active(Scanned)
      BY <1>10, <2>1, <2>3, <3>2, NextPasses DEF Look
    <3> QED
      BY <3>1, <3>2
  <2> QED
    BY <1>2, <2>1, <2>2, <2>4 DEF Storing
<1>11. CASE Count
  <2>1. /\ UNCHANGED <<startTimer, fired, interval, exact, now, miniTime, user, timerList>>
        /\ Passed(t)
    BY <1>11 DEF Count, Passed, Scanning
  <2> QED
    BY <1>2, <2>1 DEF Storing, Listed
<1>12. CASE Compare
  <2>1. /\ UNCHANGED <<startTimer, fired, interval, exact, now, user, timerList>>
        /\ pc = "compare" /\ Scanning /\ Scanned \in Timers /\ Word \in Nat /\ period \in Nat \ {0}
    BY <1>12, ScannedIsATimer, TimerAssumption DEF Compare, Scanning, TypeOK
  <2>2. Listed(t) /\ exact[t] /\ startTimer[t] < now
    BY <2>1 DEF Seen, Listed
  <2>3. CASE expactCount > loopCount[Scanned]
    <3>1. miniTime' = miniTime /\ Passed(t)
      BY <1>12, <2>1, <2>3 DEF Compare, Passed, Scanning
    <3> QED
      BY <1>2, <2>1, <3>1 DEF Storing, Listed
  <2>4. CASE ~(expactCount > loopCount[Scanned])
    <3> DEFINE remain == period - (((now - startTimer[Scanned]) % Word) % period)
    <3>1. /\ NextTimer
          /\ miniTime' = IF miniTime < 0 \/ remain < miniTime THEN remain ELSE miniTime
      BY <1>12, <2>4 DEF Compare
    <3>2. remain \in Nat
      <4> DEFINE age == now - startTimer[Scanned]
                 x == age % Word
      <4>1. age \in Int /\ Word \in Nat \ {0}
        BY <1>0, <2>1, TimerAssumption
      <4> HIDE DEF age
      <4>2. x \in Int
        BY <4>1, Remainder
      <4> HIDE DEF x
      <4>3. x % period \in 0..(period - 1)
        BY <2>1, <4>2, Remainder
      <4>4. period - (x % period) \in Nat
        BY <2>1, <4>3
      <4> QED
        BY <4>4 DEF x, age
    <3>3. CASE Scanned = t
      <4> DEFINE s == startTimer[t]
                 p == Period(t)
                 left == p - ((now - s) % p)
      <4>1. fired[t] = Due(t) /\ ~Storing(t) /\ period = p
        BY <2>1, <2>2, <2>4, <3>3, NotDueIsEven
      <4>2. (now - s) % Word = now - s
        <5>1. now - s \in 0..(Word - 1) /\ now - s \in Int /\ Word \in Nat \ {0}
          BY <1>0, <2>2, TimerAssumption DEF TypeOK
        <5> QED
          BY <5>1, Remainder
      <4>3. remain = left
        BY <3>3, <4>1, <4>2
      <4>4. s \in Nat /\ s <= now /\ p \in Nat \ {0}
        BY <1>0, <2>2, PeriodIsPositive
      <4> HIDE DEF p, s
      <4>5. left \in Nat /\ now + left <= s + (((now - s + Offset) \div p) + 1) * p
        BY <1>0, <4>4, RemainIsInTime
      <4> DEFINE end == s + (fired[t] + 1) * p
      <4>6. end \in Int
        BY <1>0, <4>4
      <4>7. now + left <= end
        BY <4>1, <4>5 DEF Due, s, p
      <4> HIDE DEF remain, left, end
      <4>8. miniTime' >= 0 /\ miniTime' <= left /\ miniTime' \in Int
        BY <1>0, <3>1, <3>2, <4>3, <4>5
      <4>9. now' + miniTime' <= end
        <5>1. now' = now /\ now \in Int /\ left \in Int
          BY <1>0, <2>1, <4>5
        <5>2. \A m, l, e \in Int : m <= l /\ now + l <= e => now + m <= e
          BY <5>1
        <5>3. now + miniTime' <= end
          BY <4>6, <4>7, <4>8, <5>1, <5>2
        <5> QED
          BY <5>1, <5>3
      <4>10. Due(t)' = Due(t) /\ Period(t)' = p /\ (Storing(t)' <=> Storing(t))
        BY <2>1 DEF Due, Period, Storing, p
      <4> QED
        BY <2>1, <4>1, <4>8, <4>9, <4>10 DEF end, s
    <3>4. CASE Scanned # t
      <4>1. Passed(t)
        BY <2>1, <2>2, <3>1, <3>4, NextPasses
      <4> HIDE DEF remain
      <4>2. miniTime >= 0 => miniTime' \in 0..miniTime
        BY <1>0, <3>1, <3>2
      <4> QED
        BY <1>2, <2>1, <4>1, <4>2 DEF Storing, Listed
    <3> QED
      BY <3>3, <3>4
  <2> QED
    BY <2>3, <2>4
<1>13. CASE Push \/ StopOneShot \/ ClearOneShot
  <2>1. /\ UNCHANGED <<interval, exact, now, miniTime, user, timerList>>
        /\ Passed(t) /\ Scanning
    BY <1>13 DEF Push, StopOneShot, ClearOneShot, Passed, Scanning
  <2>2. Scanned # t
    BY <2>1, ScannedIsNotPassed
  <2>3. startTimer'[t] = startTimer[t] /\ fired'[t] = fired[t]
    BY <1>0, <1>13, <2>2 DEF Push, StopOneShot, ClearOneShot, Set
  <2> QED
    BY <1>2, <2>1, <2>3 DEF Storing, Listed
<1>14. CASE Record
  <2>1. /\ UNCHANGED <<startTimer, fired, interval, exact, now, user, timerList>>
        /\ pc = "record" /\ Scanning /\ Holding /\ NextTimer /\ miniTime' = 0
    BY <1>14 DEF Record, Scanning, Holding, Pushing
  <2>2. Listed(t) /\ exact[t] /\ Active(t)
    BY <2>1 DEF Seen, Listed, Active
  <2>3. CASE Scanned = t
    <3>1. ~Storing(t) /\ fired[t] = Due(t)
      BY <2>1, <2>2, <2>3 DEF ScanInv, Holding
    <3>2. /\ Due(t) \in Nat
          /\ now - startTimer[t] + Offset < (Due(t) + 1) * Period(t)
      BY <2>1, <2>2, DueIsNotEarly
    <3> DEFINE end == (Due(t) + 1) * Period(t)
    <3>3. end \in Int /\ startTimer[t] \in Nat
      BY <1>0, <3>2, PeriodIsPositive
    <3>4. now - startTimer[t] + Offset < end
      BY <3>2
    <3> HIDE DEF end
    <3>5. now <= startTimer[t] + end
      BY <1>0, <3>3, <3>4
    <3>6. Due(t)' = Due(t) /\ Period(t)' = Period(t) /\ (Storing(t)' <=> Storing(t))
      BY <2>1 DEF Due, Period, Storing
    <3> QED
      BY <1>0, <2>1, <3>1, <3>5, <3>6 DEF end
  <2>4. CASE Scanned # t
    <3>1. Passed(t)
      BY <2>1, <2>2, <2>4, NextPasses
    <3>2. miniTime >= 0 => miniTime' \in 0..miniTime
      BY <1>0, <2>1
    <3> QED
      BY <1>2, <2>1, <3>1, <3>2 DEF Storing, Listed
  <2> QED
    BY <2>3, <2>4
<1>15. CASE Tick \/ UNCHANGED vars
  <2>1. UNCHANGED <<timer, timerList, pc, scan, user, history>>
    BY <1>15 DEF Tick, vars
  <2>2. Passed(t)
    BY <2>1 DEF Passed, Scanning
  <2> QED
    BY <1>2, <2>1, <2>2 DEF Storing, Listed
<1> QED
  BY <1>3, <1>4, <1>5, <1>6, <1>7, <1>8, <1>9, <1>10, <1>11, <1>12, <1>13, <1>14, <1>15
     DEF Next, Scan
------------------------------------------------------------------------------
(* What holds of every behaviour.                                             *)

LEMMA InitHolds == Init => Inv
<1> SUFFICES ASSUME Init PROVE Inv
  OBVIOUS
<1>1. /\ timerList \in Seq(Timers) /\ Len(timerList) = Cardinality(Handles)
      /\ \A i, j \in 1..Len(timerList) : timerList[i] = timerList[j] => i = j
      /\ \A t \in Onces : ~Listed(t)
  <2> DEFINE n == Cardinality(Handles)
  <2>1. n \in Nat
    BY TimerAssumption, FS_CardinalityType
  <2>2. /\ timerList \in [1..n -> Handles]
        /\ \A i, j \in DOMAIN timerList : timerList[i] = timerList[j] => i = j
    BY DEF Init, Orders
  <2> HIDE DEF n
  <2>3. timerList \in Seq(Handles) /\ Len(timerList) = n /\ DOMAIN timerList = 1..n
    BY <2>1, <2>2
  <2>4. timerList \in Seq(Timers)
    BY <2>1, <2>2, Kinds
  <2>5. \A t \in Onces : ~Listed(t)
    BY <2>2, <2>3, TimerAssumption DEF Listed
  <2> QED
    BY <2>2, <2>3, <2>4, <2>5 DEF n
<1>2. TypeOK
  BY <1>1, TimerAssumption, Kinds DEF Init, TypeOK
<1>3. ListInv /\ ScanInv /\ PassedInv
  BY <1>1 DEF Init, ListInv, ScanInv, PassedInv, Scanning, Pushing, Passed
<1>4. ClockInv /\ CallbackInv /\ CountInv
  BY DEF Init, ClockInv, CallbackInv, CountInv, Active
<1>5. OnceInv
  <2> SUFFICES ASSUME NEW t \in Onces PROVE Once(t)
    BY DEF OnceInv
  <2>1. t \in Timers /\ t \notin Handles /\ ~Listed(t)
    BY <1>1, Kinds, TimerAssumption
  <2>2. startTimer[t] = 0 /\ lane[t] = 0 /\ ran[t] = 0 /\ ~loop[t]
    BY <2>1 DEF Init
  <2>3. user.place = "free" /\ pc = "run"
    BY DEF Init
  <2> QED
    BY <2>1, <2>2, <2>3 DEF Once, Active, Holds
<1> QED
  BY <1>2, <1>3, <1>4, <1>5 DEF Inv

LEMMA TypesKept == ASSUME TypeOK, ListInv, ScanInv, [Next]_vars PROVE TypeOK'
<1>1. CASE UNCHANGED vars
  BY <1>1 DEF vars, timer, scan, history, TypeOK
<1>2. CASE Scan \/ Tick \/ \E t \in Timers : RunCallbacks(t)
  BY <1>2, LoopKeepsTypes
<1>3. CASE StoreStart \/ ResetLoopCount
  <2>1. user.timer \in Timers
    BY DEF TypeOK
  <2> QED
    BY <1>3, <2>1, CallsKeepTypes
<1>4. ASSUME NEW t \in Timers,
             \/ OnceTimer(t) \/ CallStart(t) \/ Stop(t) \/ SetLoop(t) \/ RemoveTimer(t)
             \/ \E i \in Intervals : SetInterval(t, i)
      PROVE  TypeOK'
  BY <1>4, CallsKeepTypes
<1> QED
  BY <1>1, <1>2, <1>3, <1>4 DEF Next

\* The inductive invariant holds of every state.
LEMMA Invariance == Spec => []Inv
<1>1. Inv /\ [Next]_vars => Inv'
  BY TypesKept, ListKept, ClockKept, CallbackKept, CountKept, ScanKept, PassedKept, OnceKept
     DEF Inv
<1> QED
  BY InitHolds, <1>1, PTL DEF Spec

\* The types: in particular the loop is never told to sleep for a time that wrapped
\* below zero, and the scan stays inside the list (queue.cpp:341-397).
THEOREM TypeCorrect == Spec => []TypeOK
<1>1. Inv => TypeOK
  BY DEF Inv
<1> QED
  BY Invariance, <1>1, PTL

\* However late the scans, and whatever start, stop and the setters do between two
\* of its steps: as long as no call met the scan at the timer, the callbacks that
\* processNextSleepTime queued since the start are not more than the intervals that
\* have gone by, the last counted TIMER_ERROR_OFFSET early (queue.cpp:362-376).
THEOREM NeverFiresEarly == Spec => []NeverEarly
<1>1. Inv => NeverEarly
  <2> SUFFICES ASSUME Inv, NEW t \in Timers, Active(t), exact[t]
               PROVE  fired[t] * Period(t) <= clock - startTimer[t] + Offset
    BY DEF NeverEarly
  <2>0. TypeOK /\ ClockInv /\ CountInv
    BY DEF Inv
  <2>1. /\ clock \in Nat /\ now \in Nat /\ now <= clock /\ Offset \in Nat
        /\ startTimer[t] \in Nat /\ startTimer[t] <= clock /\ fired[t] \in Nat
    <3>1. clock \in Nat /\ now \in Nat /\ startTimer[t] \in Nat /\ fired[t] \in Nat
      BY <2>0, TimerAssumption DEF TypeOK
    <3> QED
      BY <2>0, <3>1, TimerAssumption DEF ClockInv
  <2> DEFINE a == fired[t] * Period(t)
  <2>2. a \in Nat /\ (fired[t] = 0 => a = 0)
    <3>1. Period(t) \in Nat
      BY <2>0, PeriodIsPositive
    <3> QED
      BY <2>1, <3>1
  <2>3. fired[t] = 0 \/ a <= now - startTimer[t] + Offset
    BY <2>0 DEF CountInv
  <2> HIDE DEF a
  <2>4. a <= clock - startTimer[t] + Offset
    <3>1. fired[t] # 0 => a <= now - startTimer[t] + Offset
      BY <2>3
    <3> QED
      BY <2>1, <2>2, <3>1
  <2> QED
    BY <2>4 DEF a
<1> QED
  BY Invariance, <1>1, PTL

\* ... and not fewer: at the end of a scan every listed timer that was started before
\* it has had one callback per interval, however many went by since the last scan
\* (queue.cpp:362-372).
THEOREM NothingIsLost == Spec => []NoneLost
<1>1. Inv => NoneLost
  BY DEF Inv, NoneLost, PassedInv, Passed, Settled, Seen, Storing, Due
<1> QED
  BY Invariance, <1>1, PTL

\* The sleep that processNextSleepTime returns ends before the next callback of any
\* of those timers is due (queue.cpp:377-397).
THEOREM SleepsInTime == Spec => []WakesInTime
<1>1. Inv => WakesInTime
  <2> SUFFICES ASSUME Inv, pc = "asleep", NEW t \in Timers, Settled(t)
               PROVE  /\ miniTime >= 0
                      /\ now + miniTime <= startTimer[t] + (loopCount[t] + 1) * Period(t)
    BY DEF WakesInTime
  <2>1. ~Storing(t) /\ Active(t) /\ exact[t] /\ Seen(t) /\ Passed(t)
    BY DEF Settled, Storing, Seen, Passed
  <2>2. loopCount[t] = fired[t]
    BY <2>1 DEF Inv, CountInv, Pushing
  <2> QED
    BY <2>1, <2>2 DEF Inv, PassedInv
<1> QED
  BY Invariance, <1>1, PTL

\* The callback of onceTimer runs once: no scan queues its timer again, although its
\* start comes in two stores that may meet a scan (queue.cpp:364-376), and the timer
\* is gone from the list when the callback has run.
THEOREM OnceOnly == Spec => []OnceRunsOnce
<1>1. Inv => OnceRunsOnce
  BY DEF Inv, OnceInv, Once, OnceRunsOnce
<1> QED
  BY Invariance, <1>1, PTL
===============================================================================
