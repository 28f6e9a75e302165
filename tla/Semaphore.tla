------------------------------ MODULE Semaphore ------------------------------
(* mifsa::Semaphore (src/src/base/semaphore.cpp): a signed counter guarded by *)
(* a mutex, and a condition variable.  A negative counter is meant to be the  *)
(* number of callers asleep.                                                  *)
(*                                                                            *)
(* Every critical section of the mutex is one action.  The condition variable *)
(* is the set of callers whose call is "asleep"; what the C++ library may do  *)
(* to a sleeper -- wake it for no reason, or let its deadline pass before or  *)
(* after a notification reaches it -- is an action of its own.                *)
EXTENDS Integers, FiniteSets

CONSTANTS
    Threads,          \* the callers of acquire
    InitialCount,     \* the constructor's argument
    ResetCounts,      \* the arguments reset is called with
    CountBound        \* bound on |m_count|, which stands for int32_t

ASSUME SemaphoreAssumption ==
    /\ IsFiniteSet(Threads)
    /\ CountBound \in Nat
    /\ InitialCount \in 0..CountBound
    /\ ResetCounts \subseteq 0..CountBound

VARIABLES
    count,   \* m_count
    call,    \* where each caller is inside acquire_nano
    mode,    \* how long the caller's current call may wait
    seen     \* history: has a deadline passed, was there a spurious wakeup?

vars == <<count, call, mode, seen>>

Places == {"idle", "entering", "asleep", "notified", "expired"}
Modes == {"forever", "timed", "poll"}

TypeOK ==
    /\ count \in -CountBound..CountBound
    /\ call \in [Threads -> Places]
    /\ mode \in [Threads -> Modes]
    /\ seen \subseteq {"deadline", "spurious"}

At(place) == {t \in Threads : call[t] = place}
Asleep == At("asleep")

Init ==
    /\ count = InitialCount
    /\ call = [t \in Threads |-> "idle"]
    /\ mode = [t \in Threads |-> "forever"]
    /\ seen = {}
------------------------------------------------------------------------------
(* acquire_nano.                                                              *)

\* The call, up to the mutex.  A call with a zero timeout first reads the
\* counter without the mutex and returns false when it sees no permit.
BeginAcquire(t, m) ==
    /\ call[t] = "idle"
    /\ m = "poll" => count > 0
    /\ call' = [call EXCEPT ![t] = "entering"]
    /\ mode' = [mode EXCEPT ![t] = m]
    /\ UNCHANGED <<count, seen>>

\* A mutation: the caller that takes the last permit goes to sleep.
EnterOffByOne(t) ==
    /\ call[t] = "entering"
    /\ count > -CountBound
    /\ count' = count - 1
    /\ call' = [call EXCEPT ![t] = IF count' <= 0 THEN "asleep" ELSE "idle"]
    /\ UNCHANGED <<mode, seen>>

\* Under the mutex: take a permit and return (the code returns false here), or
\* start waiting, which releases the mutex.
Enter(t) ==
    /\ call[t] = "entering"
    /\ count > -CountBound
    /\ count' = count - 1
    /\ call' = [call EXCEPT ![t] = IF count' < 0 THEN "asleep" ELSE "idle"]
    /\ UNCHANGED <<mode, seen>>

\* The deadline of wait_for passes before anybody notified the caller.
Expire(t) ==
    /\ call[t] = "asleep"
    /\ mode[t] # "forever"
    /\ call' = [call EXCEPT ![t] = "expired"]
    /\ seen' = seen \union {"deadline"}
    /\ UNCHANGED <<count, mode>>

\* wait and wait_for have no predicate: a spurious wakeup is taken for a
\* notification, and the decrement of Enter stays.
SpuriousWake(t) ==
    /\ call[t] = "asleep"
    /\ call' = [call EXCEPT ![t] = "notified"]
    /\ seen' = seen \union {"spurious"}
    /\ UNCHANGED <<count, mode>>

\* A woken caller has the mutex again and returns true.
Resume(t) ==
    /\ call[t] = "notified"
    /\ call' = [call EXCEPT ![t] = "idle"]
    /\ UNCHANGED <<count, mode, seen>>

\* A mutation: a call that timed out keeps its decrement.
TimeOutKeepsDecrement(t) ==
    /\ \/ call[t] = "expired"
       \/ call[t] = "notified" /\ mode[t] # "forever"
    /\ call' = [call EXCEPT ![t] = "idle"]
    /\ seen' = seen \union {"deadline"}
    /\ UNCHANGED <<count, mode>>

\* cv_status::timeout: reported whenever the deadline has passed by the time
\* the caller runs again, even if it had been notified.
TimeOut(t) ==
    /\ \/ call[t] = "expired"
       \/ call[t] = "notified" /\ mode[t] # "forever"
    /\ count < CountBound
    /\ count' = count + 1
    /\ call' = [call EXCEPT ![t] = "idle"]
    /\ seen' = seen \union {"deadline"}
    /\ UNCHANGED mode
------------------------------------------------------------------------------
(* release and reset.                                                         *)

NotifyOne ==
    IF Asleep = {} THEN UNCHANGED call
    ELSE \E t \in Asleep : call' = [call EXCEPT ![t] = "notified"]

NotifyAll ==
    call' = [t \in Threads |-> IF t \in Asleep THEN "notified" ELSE call[t]]

\* A mutation: the counter moves whether or not a waiter was served, and again.
ReleaseTwice ==
    /\ count < CountBound
    /\ count' = count + 2
    /\ IF count < 0 THEN NotifyOne ELSE UNCHANGED call
    /\ UNCHANGED <<mode, seen>>

Release ==
    /\ count < CountBound
    /\ count' = count + 1
    /\ IF count < 0 THEN NotifyOne ELSE UNCHANGED call
    /\ UNCHANGED <<mode, seen>>

Reset(n) ==
    /\ count' = n
    /\ IF count < 0 THEN NotifyAll ELSE UNCHANGED call
    /\ UNCHANGED <<mode, seen>>

Next ==
    \/ \E t \in Threads :
          \/ \E m \in Modes : BeginAcquire(t, m)
          \/ Enter(t) \/ Expire(t) \/ SpuriousWake(t) \/ Resume(t) \/ TimeOut(t)
    \/ Release
    \/ \E n \in ResetCounts : Reset(n)

Spec == Init /\ [][Next]_vars
------------------------------------------------------------------------------
(* Properties.                                                                *)

\* Nobody sleeps unseen: release and reset notify only while the counter is
\* negative (lines 58 and 70), so until a deadline passes the counter accounts
\* for every caller asleep on the condition variable.  Once a call has timed
\* out its late increment (line 45) may hide a sleeper from them.
NoStrandedSleeper ==
    "deadline" \notin seen /\ Asleep # {} => count <= -Cardinality(Asleep)

\* The counter never announces more waiters than there are, timeouts included,
\* because a call that timed out gives its decrement back (line 45): otherwise
\* later releases would be swallowed by waiters that left long ago.  A spurious
\* wakeup breaks it, the code having no predicate to go back to sleep on.
NoPhantomWaiter ==
    "spurious" \notin seen /\ count < 0 =>
        -count <= Cardinality(At("asleep") \union At("expired"))

\* A reset leaves nobody asleep, whatever the calls before it were, as long as
\* no deadline has passed: the queue and the client stop their loops with it.
ResetWakesAll ==
    [][\A n \in ResetCounts :
          Reset(n) /\ "deadline" \notin seen => Asleep' = {}]_vars

\* Until a deadline passes or a wakeup is spurious the counter is the permits
\* less the sleepers, and every step of the code is a step of the counting
\* semaphore or changes nothing its callers can tell.
Promise == INSTANCE CountingSemaphore
    WITH permits <- IF count > 0 THEN count ELSE 0,
         waiting <- Asleep,
         woken <- At("notified")

KeepsPromise ==
    /\ Promise!PromiseInit
    /\ [][seen' = {} => [Promise!PromiseNext]_(Promise!promiseVars)]_vars
===============================================================================
