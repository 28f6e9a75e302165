--------------------------- MODULE SemaphoreProofs ---------------------------
(* Proofs about mifsa::Semaphore for any number of callers, any bound on the  *)
(* counter and any arguments of reset.                                        *)
EXTENDS Semaphore, FiniteSetTheorems, TLAPS

\* The type invariant: the counter stays in its range and every caller is at
\* one of the places of acquire_nano, whatever calls and wakeups interleave.
THEOREM TypeCorrect == Spec => []TypeOK
<1> USE SemaphoreAssumption DEF TypeOK, Places, Modes
<1>1. Init => TypeOK
  BY DEF Init
<1>2. TypeOK /\ [Next]_vars => TypeOK'
  <2> SUFFICES ASSUME TypeOK, [Next]_vars PROVE TypeOK'
    OBVIOUS
  <2>1. ASSUME NEW t \in Threads, NEW m \in Modes, BeginAcquire(t, m) PROVE TypeOK'
    BY <2>1 DEF BeginAcquire
  <2>2. ASSUME NEW t \in Threads, Enter(t) PROVE TypeOK'
    BY <2>2 DEF Enter
  <2>3. ASSUME NEW t \in Threads, Expire(t) \/ SpuriousWake(t) \/ Resume(t) PROVE TypeOK'
    BY <2>3 DEF Expire, SpuriousWake, Resume
  <2>4. ASSUME NEW t \in Threads, TimeOut(t) PROVE TypeOK'
    BY <2>4 DEF TimeOut
  <2>5. CASE Release
    BY <2>5 DEF Release, NotifyOne, Asleep, At
  <2>6. ASSUME NEW n \in ResetCounts, Reset(n) PROVE TypeOK'
    BY <2>6 DEF Reset, NotifyAll, Asleep, At
  <2>7. CASE UNCHANGED vars
    BY <2>7 DEF vars
  <2> QED
    BY <2>1, <2>2, <2>3, <2>4, <2>5, <2>6, <2>7 DEF Next
<1> QED
  BY <1>1, <1>2, PTL DEF Spec
------------------------------------------------------------------------------
(* The two facts about cardinalities the counting arguments rest on.          *)

\* The callers at some place are finitely many.
LEMMA CallersFinite ==
    ASSUME NEW S \in SUBSET Threads
    PROVE  /\ IsFiniteSet(S)
           /\ Cardinality(S) \in Nat
           /\ Cardinality(S) = 0 <=> S = {}
BY SemaphoreAssumption, FS_Subset, FS_CardinalityType, FS_EmptySet

\* One caller more, or one caller less.
LEMMA OneCaller ==
    ASSUME NEW S \in SUBSET Threads, NEW t \in Threads
    PROVE  /\ t \notin S => Cardinality(S \union {t}) = Cardinality(S) + 1
           /\ t \in S => Cardinality(S \ {t}) = Cardinality(S) - 1
BY CallersFinite, FS_AddElement, FS_RemoveElement
------------------------------------------------------------------------------
\* Lines 39-40, 58 and 70: until a deadline passes nobody sleeps unseen by
\* release and reset, spurious wakeups or not.
THEOREM SleepersAreCounted == Spec => []NoStrandedSleeper
<1> USE SemaphoreAssumption
<1>1. Init => NoStrandedSleeper
  BY DEF Init, NoStrandedSleeper, Asleep, At
<1>2. TypeOK /\ NoStrandedSleeper /\ [Next]_vars => NoStrandedSleeper'
  <2> SUFFICES ASSUME TypeOK, NoStrandedSleeper, [Next]_vars,
                      "deadline" \notin seen'
               PROVE  Asleep' # {} => count' <= -Cardinality(Asleep')
    BY DEF NoStrandedSleeper
  <2> DEFINE Goal == Asleep' # {} => count' <= -Cardinality(Asleep')
  <2>0. /\ Asleep \in SUBSET Threads
        /\ Cardinality(Asleep) \in Nat
        /\ Cardinality(Asleep) = 0 <=> Asleep = {}
        /\ count \in Int
    BY CallersFinite DEF TypeOK, Asleep, At
  <2>1. ASSUME NEW t \in Threads, NEW m \in Modes, BeginAcquire(t, m) PROVE Goal
    <3>1. Asleep' = Asleep
      BY <2>1 DEF BeginAcquire, TypeOK, Asleep, At
    <3> QED
      BY <2>1, <3>1 DEF BeginAcquire, NoStrandedSleeper
  <2>2. ASSUME NEW t \in Threads, Enter(t) PROVE Goal
    <3>0. count' = count - 1 /\ seen' = seen
      BY <2>2 DEF Enter
    <3>1. CASE count' < 0
      <4>1. t \notin Asleep /\ Asleep' = Asleep \union {t}
        BY <2>2, <3>1 DEF Enter, TypeOK, Asleep, At
      <4>2. Cardinality(Asleep') = Cardinality(Asleep) + 1
        BY <4>1, <2>0, OneCaller
      <4> QED
        BY <2>0, <3>0, <3>1, <4>2 DEF NoStrandedSleeper
    <3>2. CASE ~(count' < 0)
      <4>1. Asleep' = Asleep
        BY <2>2, <3>2 DEF Enter, TypeOK, Asleep, At
      <4>2. Asleep = {}
        BY <2>0, <3>0, <3>2 DEF NoStrandedSleeper
      <4> QED
        BY <4>1, <4>2
    <3> QED
      BY <3>1, <3>2
  <2>3. ASSUME NEW t \in Threads, Expire(t) \/ TimeOut(t) PROVE Goal
    BY <2>3 DEF Expire, TimeOut
  <2>4. ASSUME NEW t \in Threads, SpuriousWake(t) PROVE Goal
    <3>1. t \in Asleep /\ Asleep' = Asleep \ {t}
      BY <2>4 DEF SpuriousWake, TypeOK, Asleep, At
    <3>2. Cardinality(Asleep') = Cardinality(Asleep) - 1
      BY <3>1, <2>0, OneCaller
    <3>3. count' = count /\ "deadline" \notin seen
      BY <2>4 DEF SpuriousWake
    <3> QED
      BY <2>0, <3>1, <3>2, <3>3 DEF NoStrandedSleeper
  <2>5. ASSUME NEW t \in Threads, Resume(t) PROVE Goal
    <3>1. Asleep' = Asleep
      BY <2>5 DEF Resume, TypeOK, Asleep, At
    <3> QED
      BY <2>5, <3>1 DEF Resume, NoStrandedSleeper
  <2>6. CASE Release
    <3>0. count' = count + 1 /\ seen' = seen
      BY <2>6 DEF Release
    <3>1. CASE Asleep = {}
      <4>1. Asleep' = {}
        BY <2>6, <3>1 DEF Release, NotifyOne, Asleep, At
      <4> QED
        BY <4>1
    <3>2. CASE Asleep # {}
      <4>1. count < 0
        BY <2>0, <3>0, <3>2 DEF NoStrandedSleeper
      <4>2. PICK t \in Asleep : call' = [call EXCEPT ![t] = "notified"]
        BY <2>6, <3>2, <4>1 DEF Release, NotifyOne
      <4>3. Asleep' = Asleep \ {t}
        BY <4>2 DEF TypeOK, Asleep, At
      <4>4. Cardinality(Asleep') = Cardinality(Asleep) - 1
        BY <4>2, <4>3, <2>0, OneCaller
      <4> QED
        BY <2>0, <3>0, <3>2, <4>4 DEF NoStrandedSleeper
    <3> QED
      BY <3>1, <3>2
  <2>7. ASSUME NEW n \in ResetCounts, Reset(n) PROVE Goal
    <3>1. CASE count < 0
      <4>1. Asleep' = {}
        BY <2>7, <3>1 DEF Reset, NotifyAll, Asleep, At
      <4> QED
        BY <4>1
    <3>2. CASE ~(count < 0)
      <4>1. Asleep' = Asleep /\ seen' = seen
        BY <2>7, <3>2 DEF Reset, Asleep, At
      <4> QED
        BY <2>0, <3>2, <4>1 DEF NoStrandedSleeper
    <3> QED
      BY <3>1, <3>2
  <2>8. CASE UNCHANGED vars
    BY <2>8 DEF vars, NoStrandedSleeper, Asleep, At
  <2> QED
    BY <2>1, <2>2, <2>3, <2>4, <2>5, <2>6, <2>7, <2>8 DEF Next
<1> QED
  BY <1>1, <1>2, TypeCorrect, PTL DEF Spec
------------------------------------------------------------------------------
\* Lines 45, 58-60 and 70-72: without spurious wakeups a negative counter never
\* announces more waiters than are still to be served, whatever times out.
THEOREM NoPhantoms == Spec => []NoPhantomWaiter
<1> DEFINE U == At("asleep") \union At("expired")
<1> USE SemaphoreAssumption
<1>1. Init => NoPhantomWaiter
  BY DEF Init, NoPhantomWaiter
<1>2. TypeOK /\ NoPhantomWaiter /\ [Next]_vars => NoPhantomWaiter'
  <2> SUFFICES ASSUME TypeOK, NoPhantomWaiter, [Next]_vars,
                      "spurious" \notin seen', count' < 0
               PROVE  -count' <= Cardinality(U')
    BY DEF NoPhantomWaiter
  <2> DEFINE Goal == -count' <= Cardinality(U')
  <2>0. /\ U \in SUBSET Threads
        /\ Cardinality(U) \in Nat
        /\ count \in Int
    BY CallersFinite DEF TypeOK, At
  <2>a. ("spurious" \notin seen /\ count < 0) => -count <= Cardinality(U)
    BY DEF NoPhantomWaiter
  <2> HIDE DEF U
  <2>1. ASSUME NEW t \in Threads, NEW m \in Modes, BeginAcquire(t, m) PROVE Goal
    <3>1. U' = U
      BY <2>1 DEF BeginAcquire, TypeOK, At, U
    <3> QED
      BY <2>1, <2>a, <3>1 DEF BeginAcquire
  <2>2. ASSUME NEW t \in Threads, Enter(t) PROVE Goal
    <3>1. t \notin U /\ U' = U \union {t} /\ count' = count - 1 /\ seen' = seen
      BY <2>2 DEF Enter, TypeOK, At, U
    <3>2. Cardinality(U') = Cardinality(U) + 1
      BY <3>1, <2>0, OneCaller
    <3> QED
      BY <2>0, <2>a, <3>1, <3>2
  <2>3. ASSUME NEW t \in Threads, Expire(t) PROVE Goal
    <3>1. U' = U /\ count' = count /\ "spurious" \notin seen
      BY <2>3 DEF Expire, TypeOK, At, U
    <3> QED
      BY <2>a, <3>1
  <2>4. ASSUME NEW t \in Threads, SpuriousWake(t) PROVE Goal
    BY <2>4 DEF SpuriousWake
  <2>5. ASSUME NEW t \in Threads, Resume(t) PROVE Goal
    <3>1. U' = U
      BY <2>5 DEF Resume, TypeOK, At, U
    <3> QED
      BY <2>5, <2>a, <3>1 DEF Resume
  <2>6. ASSUME NEW t \in Threads, TimeOut(t) PROVE Goal
    <3>1. U' = U \ {t} /\ count' = count + 1 /\ "spurious" \notin seen
      BY <2>6 DEF TimeOut, TypeOK, At, U
    <3>2. Cardinality(U') >= Cardinality(U) - 1
      <4>1. CASE t \in U
        BY <4>1, <3>1, <2>0, OneCaller
      <4>2. CASE t \notin U
        <5>1. U' = U
          BY <3>1, <4>2
        <5> QED
          BY <5>1, <2>0
      <4> QED
        BY <4>1, <4>2
    <3>3. Cardinality(U') \in Nat
      BY <2>0, <3>1, CallersFinite
    <3> QED
      BY <2>0, <2>a, <3>1, <3>2, <3>3
  <2>7. CASE Release
    <3>0. count' = count + 1 /\ seen' = seen
      BY <2>7 DEF Release
    <3>1. CASE Asleep = {}
      <4>1. U' = U
        BY <2>7, <3>1 DEF Release, NotifyOne, Asleep, At, U
      <4> QED
        BY <2>0, <2>a, <3>0, <4>1
    <3>2. CASE Asleep # {}
      <4>1. PICK t \in Asleep : call' = [call EXCEPT ![t] = "notified"]
        BY <2>0, <2>7, <3>0, <3>2 DEF Release, NotifyOne
      <4>2. t \in U /\ t \in Threads /\ U' = U \ {t}
        BY <4>1 DEF TypeOK, Asleep, At, U
      <4>3. Cardinality(U') = Cardinality(U) - 1
        BY <4>2, <2>0, OneCaller
      <4> QED
        BY <2>0, <2>a, <3>0, <4>3
    <3> QED
      BY <3>1, <3>2
  <2>8. ASSUME NEW n \in ResetCounts, Reset(n) PROVE Goal
    BY <2>8 DEF Reset
  <2>9. CASE UNCHANGED vars
    <3>1. U' = U
      BY <2>9 DEF vars, At, U
    <3> QED
      BY <2>9, <2>a, <3>1 DEF vars
  <2> QED
    BY <2>1, <2>2, <2>3, <2>4, <2>5, <2>6, <2>7, <2>8, <2>9 DEF Next
<1> QED
  BY <1>1, <1>2, TypeCorrect, PTL DEF Spec
------------------------------------------------------------------------------
\* While no deadline has passed nobody is on his way out of a timed wait.
NobodyExpired == At("expired") # {} => "deadline" \in seen

\* What the calls before any timeout or spurious wakeup can rely on: there is a
\* sleeper exactly when the counter is negative.
SignTellsSleepers == seen = {} => (Asleep # {} <=> count < 0)

LEMMA ExpiredIsSeen == Spec => []NobodyExpired
<1>1. Init => NobodyExpired
  BY DEF Init, NobodyExpired, At
<1>2. TypeOK /\ NobodyExpired /\ [Next]_vars => NobodyExpired'
  BY DEF TypeOK, NobodyExpired, At, Asleep, Next, vars, BeginAcquire, Enter, Expire,
         SpuriousWake, Resume, TimeOut, Release, Reset, NotifyOne, NotifyAll
<1> QED
  BY <1>1, <1>2, TypeCorrect, PTL DEF Spec

LEMMA SignFromCounts ==
    TypeOK /\ NoStrandedSleeper /\ NoPhantomWaiter /\ NobodyExpired => SignTellsSleepers
<1> SUFFICES ASSUME TypeOK, NoStrandedSleeper, NoPhantomWaiter, NobodyExpired, seen = {}
             PROVE  Asleep # {} <=> count < 0
  BY DEF SignTellsSleepers
<1>1. Asleep \in SUBSET Threads /\ count \in Int
  BY DEF TypeOK, Asleep, At
<1>2. Cardinality(Asleep) \in Nat /\ (Cardinality(Asleep) = 0 <=> Asleep = {})
  BY <1>1, CallersFinite
<1>3. At("asleep") \union At("expired") = Asleep
  BY DEF NobodyExpired, Asleep
<1>4. count < 0 => -count <= Cardinality(Asleep)
  BY <1>3 DEF NoPhantomWaiter
<1>5. Asleep # {} => count <= -Cardinality(Asleep)
  BY DEF NoStrandedSleeper
<1> QED
  BY <1>1, <1>2, <1>4, <1>5

\* Lines 67-77: however the calls before it interleaved, a reset leaves nobody
\* asleep as long as no deadline has passed.
THEOREM ResetWakes == Spec => ResetWakesAll
<1>1. TypeOK /\ NoStrandedSleeper /\ [Next]_vars =>
        [\A n \in ResetCounts :
            Reset(n) /\ "deadline" \notin seen => Asleep' = {}]_vars
  <2> SUFFICES ASSUME TypeOK, NoStrandedSleeper, NEW n \in ResetCounts, Reset(n),
                      "deadline" \notin seen
               PROVE  Asleep' = {}
    OBVIOUS
  <2>1. Asleep \in SUBSET Threads /\ count \in Int
    BY DEF TypeOK, Asleep, At
  <2>2. Cardinality(Asleep) \in Nat /\ (Cardinality(Asleep) = 0 <=> Asleep = {})
    BY <2>1, CallersFinite
  <2>3. CASE count < 0
    BY <2>3 DEF Reset, NotifyAll, Asleep, At
  <2>4. CASE ~(count < 0)
    <3>1. Asleep = {}
      BY <2>1, <2>2, <2>4 DEF NoStrandedSleeper
    <3>2. Asleep' = Asleep
      BY <2>4 DEF Reset, Asleep, At
    <3> QED
      BY <3>1, <3>2
  <2> QED
    BY <2>3, <2>4
<1> QED
  BY <1>1, TypeCorrect, SleepersAreCounted, PTL DEF Spec, ResetWakesAll
------------------------------------------------------------------------------
\* A step of the code that sees no deadline pass and no spurious wakeup is a
\* step of the counting semaphore, or one its callers cannot tell.
LEMMA StepKeepsPromise ==
    TypeOK /\ SignTellsSleepers /\ [Next]_vars /\ seen' = {}
        => [Promise!PromiseNext]_(Promise!promiseVars)
<1> SUFFICES ASSUME TypeOK, SignTellsSleepers, [Next]_vars, seen' = {}
             PROVE  Promise!PromiseNext \/ UNCHANGED Promise!promiseVars
  OBVIOUS
<1> DEFINE permits == IF count > 0 THEN count ELSE 0
           woken == At("notified")
           Goal == Promise!PromiseNext \/ UNCHANGED Promise!promiseVars
<1>0. count \in Int
  BY DEF TypeOK
<1>s. UNCHANGED <<permits, Asleep, woken>> => Goal
  BY DEF Promise!promiseVars
<1>1. ASSUME NEW t \in Threads, NEW m \in Modes, BeginAcquire(t, m) PROVE Goal
  <2>1. UNCHANGED <<permits, Asleep, woken>>
    BY <1>1 DEF BeginAcquire, TypeOK, Asleep, At
  <2> QED
    BY <2>1, <1>s
<1>2. ASSUME NEW t \in Threads, Enter(t) PROVE Goal
  <2>0. t \notin Asleep \union woken /\ woken' = woken /\ count' = count - 1
    BY <1>2 DEF Enter, TypeOK, Asleep, At
  <2>1. CASE count > 0
    <3>1. Asleep' = Asleep
      BY <1>0, <1>2, <2>0, <2>1 DEF Enter, TypeOK, Asleep, At
    <3>2. permits > 0 /\ permits' = permits - 1
      BY <1>0, <2>0, <2>1
    <3>3. Promise!TakePermit(t)
      BY <2>0, <3>1, <3>2 DEF Promise!TakePermit
    <3> QED
      BY <3>3 DEF Promise!PromiseNext
  <2>2. CASE ~(count > 0)
    <3>1. Asleep' = Asleep \union {t}
      BY <1>0, <1>2, <2>0, <2>2 DEF Enter, TypeOK, Asleep, At
    <3>2. permits = 0 /\ permits' = permits
      BY <1>0, <2>0, <2>2
    <3>3. Promise!StartWaiting(t)
      BY <2>0, <3>1, <3>2 DEF Promise!StartWaiting
    <3> QED
      BY <3>3 DEF Promise!PromiseNext
  <2> QED
    BY <2>1, <2>2
<1>3. ASSUME NEW t \in Threads, Expire(t) \/ SpuriousWake(t) \/ TimeOut(t) PROVE Goal
  BY <1>3 DEF Expire, SpuriousWake, TimeOut
<1>4. ASSUME NEW t \in Threads, Resume(t) PROVE Goal
  <2>1. t \in woken /\ woken' = woken \ {t} /\ UNCHANGED <<permits, Asleep>>
    BY <1>4 DEF Resume, TypeOK, Asleep, At
  <2>2. Promise!Leave(t)
    BY <2>1 DEF Promise!Leave
  <2> QED
    BY <2>2 DEF Promise!PromiseNext
<1>5. CASE Release
  <2>0. count' = count + 1 /\ seen = {}
    BY <1>5 DEF Release
  <2>1. CASE count < 0
    <3>1. Asleep # {}
      BY <2>0, <2>1 DEF SignTellsSleepers
    <3>2. PICK t \in Asleep : call' = [call EXCEPT ![t] = "notified"]
      BY <1>5, <2>1, <3>1 DEF Release, NotifyOne
    <3>3. t \in Threads /\ Asleep' = Asleep \ {t} /\ woken' = woken \union {t}
      BY <3>2 DEF TypeOK, Asleep, At
    <3>4. permits' = permits
      BY <1>0, <2>0, <2>1
    <3>5. Promise!Serve(t)
      BY <3>2, <3>3, <3>4 DEF Promise!Serve
    <3> QED
      BY <3>3, <3>5 DEF Promise!PromiseNext
  <2>2. CASE ~(count < 0)
    <3>1. Asleep = {} /\ Asleep' = Asleep /\ woken' = woken
      BY <1>5, <2>0, <2>2 DEF Release, SignTellsSleepers, Asleep, At
    <3>2. permits' = permits + 1
      BY <1>0, <2>0, <2>2
    <3>3. Promise!StorePermit
      BY <3>1, <3>2 DEF Promise!StorePermit
    <3> QED
      BY <3>3 DEF Promise!PromiseNext
  <2> QED
    BY <2>1, <2>2
<1>6. ASSUME NEW n \in ResetCounts, Reset(n) PROVE Goal
  <2>0. count' = n /\ n \in Nat /\ seen = {}
    BY <1>6, SemaphoreAssumption DEF Reset
  <2>1. Asleep' = {} /\ woken' = woken \union Asleep
    <3>1. CASE count < 0
      BY <1>6, <3>1 DEF Reset, NotifyAll, TypeOK, Asleep, At
    <3>2. CASE ~(count < 0)
      BY <1>6, <2>0, <3>2 DEF Reset, SignTellsSleepers, Asleep, At
    <3> QED
      BY <3>1, <3>2
  <2>2. permits' \in Nat
    BY <2>0
  <2>3. Promise!ServeAll
    BY <2>1, <2>2 DEF Promise!ServeAll
  <2> QED
    BY <2>3 DEF Promise!PromiseNext
<1>7. CASE UNCHANGED vars
  <2>1. UNCHANGED <<permits, Asleep, woken>>
    BY <1>7 DEF vars, Asleep, At
  <2> QED
    BY <2>1, <1>s
<1> QED
  BY <1>1, <1>2, <1>3, <1>4, <1>5, <1>6, <1>7 DEF Next

\* The whole class, until a deadline passes or a wakeup is spurious, is the
\* counting semaphore: permits handed out once, waiters served by releases,
\* and everybody let go by a reset.
THEOREM ImplementsCountingSemaphore == Spec => KeepsPromise
<1>1. Init => Promise!PromiseInit
  BY SemaphoreAssumption DEF Init, Promise!PromiseInit, Asleep, At
<1>2. TypeOK /\ SignTellsSleepers /\ [Next]_vars =>
        [seen' = {} => [Promise!PromiseNext]_(Promise!promiseVars)]_vars
  BY StepKeepsPromise
<1> QED
  BY <1>1, <1>2, TypeCorrect, SleepersAreCounted, NoPhantoms, ExpiredIsSeen,
     SignFromCounts, PTL DEF Spec, KeepsPromise
===============================================================================
