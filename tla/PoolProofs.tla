------------------------------ MODULE PoolProofs ------------------------------
(* Proofs about mifsa::Pool for any workers and any tasks.                    *)
EXTENDS Pool, SequenceTheorems, TLAPS

\* The steps of the owner and of the workers that touch neither the list nor
\* its histories.
LEMMA ListFrame ==
    ASSUME [Next]_vars
    PROVE  \/ UNCHANGED <<tasks, enqueued, started, orphans>>
           \/ \E k \in Tasks : Enqueue(k)
           \/ \E w \in Workers : TakeTask(w)
BY DEF Next, Working, Spawn, SpuriousWake, Built, Shutdown, NotifyAll, Joined, TestList,
       ObeyExit, FindNothing, Block, TaskReturns, vars

\* The type invariant: places, mutex and list keep their types under every
\* interleaving of the owner and the workers.
THEOREM TypeCorrect == Spec => []TypeOK
<1> USE PoolAssumption DEF TypeOK, Places
<1>1. Init => TypeOK
  BY EmptySeq DEF Init
<1>2. TypeOK /\ [Next]_vars => TypeOK'
  <2> SUFFICES ASSUME TypeOK, [Next]_vars PROVE TypeOK'
    OBVIOUS
  <2>1. ASSUME NEW w \in Workers, Spawn(w) \/ Working(w) \/ SpuriousWake(w)
        PROVE  TypeOK'
    <3>1. CASE TakeTask(w)
      <4>1. Head(tasks) \in Tasks /\ Tail(tasks) \in Seq(Tasks)
        BY <3>1, HeadTailProperties DEF TakeTask
      <4> QED
        BY <3>1, <4>1 DEF TakeTask, Go
    <3>2. CASE ~TakeTask(w)
      BY <2>1, <3>2 DEF Working, Spawn, SpuriousWake, TestList, ObeyExit, FindNothing,
         Block, TaskReturns, Go
    <3> QED
      BY <3>1, <3>2
  <2>2. CASE Built \/ Shutdown \/ NotifyAll \/ Joined \/ UNCHANGED vars
    BY <2>2 DEF Built, Shutdown, NotifyAll, Joined, vars
  <2>3. ASSUME NEW k \in Tasks, Enqueue(k) PROVE TypeOK'
    <3>1. Append(tasks, k) \in Seq(Tasks)
      BY AppendProperties
    <3>2. place' \in [Workers -> Places]
      BY <2>3 DEF Enqueue, NotifyOne, Go
    <3> QED
      BY <2>3, <3>1, <3>2 DEF Enqueue
  <2> QED
    BY <2>1, <2>2, <2>3 DEF Next
<1> QED
  BY <1>1, <1>2, PTL DEF Spec
------------------------------------------------------------------------------
\* The workers that leave find the list empty, and an enqueue that leaves its
\* task to nobody is remembered: no order of leaving, enqueueing and shutdown
\* abandons a task that had a worker (lines 39 and 44-46).
THEOREM NothingAbandoned == Spec => []NoTaskAbandoned
<1> USE DEF NoTaskAbandoned, AllGone
<1>1. Init => NoTaskAbandoned
  BY DEF Init
<1>2. TypeOK /\ NoTaskAbandoned /\ [Next]_vars => NoTaskAbandoned'
  <2> SUFFICES ASSUME TypeOK, NoTaskAbandoned, [Next]_vars, AllGone'
               PROVE  \A i \in DOMAIN tasks' : tasks'[i] \in orphans'
    OBVIOUS
  <2>0. place \in [Workers -> Places] /\ tasks \in Seq(Tasks)
    BY DEF TypeOK
  <2>1. ASSUME NEW w \in Workers, Spawn(w) \/ Working(w) \/ SpuriousWake(w)
        PROVE  tasks' = <<>>
    BY <2>0, <2>1 DEF Working, Spawn, SpuriousWake, TestList, TakeTask, ObeyExit,
       FindNothing, Block, TaskReturns, Go
  <2>2. CASE Built \/ Shutdown \/ NotifyAll \/ Joined \/ UNCHANGED vars
    BY <2>0, <2>2 DEF Built, Shutdown, NotifyAll, Joined, vars, Places
  <2>3. ASSUME NEW k \in Tasks, Enqueue(k)
        PROVE  \A i \in DOMAIN tasks' : tasks'[i] \in orphans'
    <3>1. AllGone
      BY <2>0, <2>3 DEF Enqueue, NotifyOne, Go
    <3>2. orphans' = orphans \union {k} /\ tasks' = Append(tasks, k)
      BY <2>3, <3>1 DEF Enqueue
    <3>3. \A i \in DOMAIN Append(tasks, k) :
             \/ i \in DOMAIN tasks /\ Append(tasks, k)[i] = tasks[i]
             \/ Append(tasks, k)[i] = k
      BY <2>0, AppendProperties, LenProperties
    <3> QED
      BY <3>1, <3>2, <3>3
  <2> QED
    BY <2>1, <2>2, <2>3 DEF Next
<1> QED
  BY <1>1, <1>2, TypeCorrect, PTL DEF Spec
------------------------------------------------------------------------------
\* What the list and the started tasks were once enqueued, each task once.
FromEnqueue ==
    /\ \A i \in DOMAIN tasks : tasks[i] \in enqueued
    /\ started \subseteq enqueued

\* No task is handed to two workers and none is queued again after it ran: the
\* worker reads and pops the front in one critical section (lines 42-49).
THEOREM TasksStartOnce == Spec => []StartedOnce
<1> USE DEF StartedOnce, FromEnqueue
<1>1. Init => StartedOnce /\ FromEnqueue
  BY DEF Init
<1>2. TypeOK /\ StartedOnce /\ FromEnqueue /\ [Next]_vars => (StartedOnce /\ FromEnqueue)'
  <2> SUFFICES ASSUME tasks \in Seq(Tasks), StartedOnce, FromEnqueue, [Next]_vars
               PROVE  StartedOnce' /\ FromEnqueue'
    BY DEF TypeOK
  <2>1. CASE UNCHANGED <<tasks, enqueued, started, orphans>>
    BY <2>1
  <2>2. ASSUME NEW k \in Tasks, Enqueue(k) PROVE StartedOnce' /\ FromEnqueue'
    <3>1. /\ tasks' = Append(tasks, k) /\ k \notin enqueued
          /\ enqueued' = enqueued \union {k} /\ started' = started
      BY <2>2 DEF Enqueue
    <3>2. \A i \in DOMAIN Append(tasks, k) :
             \/ i \in DOMAIN tasks /\ Append(tasks, k)[i] = tasks[i]
             \/ (i = Len(tasks) + 1) /\ Append(tasks, k)[i] = k
      BY AppendProperties, LenProperties
    <3> QED
      BY <3>1, <3>2
  <2>3. ASSUME NEW w \in Workers, TakeTask(w) PROVE StartedOnce' /\ FromEnqueue'
    <3>1. /\ tasks # <<>> /\ tasks' = Tail(tasks) /\ enqueued' = enqueued
          /\ started' = started \union {Head(tasks)}
      BY <2>3 DEF TakeTask
    <3>2. /\ 1 \in DOMAIN tasks /\ tasks[1] = Head(tasks)
          /\ \A i \in DOMAIN Tail(tasks) :
                i \in Nat /\ i + 1 # 1 /\ i + 1 \in DOMAIN tasks
                  /\ Tail(tasks)[i] = tasks[i + 1]
      BY <3>1, HeadTailProperties, LenProperties
    <3> HIDE DEF StartedOnce, FromEnqueue
    <3>3. Head(tasks) \in enqueued /\ \A i \in DOMAIN Tail(tasks) : Tail(tasks)[i] \in enqueued
      BY <3>2 DEF FromEnqueue
    <3>4. \A i \in DOMAIN Tail(tasks) : Tail(tasks)[i] \notin started \union {Head(tasks)}
      BY <3>2 DEF StartedOnce
    <3>5. \A i, j \in DOMAIN Tail(tasks) : i # j => Tail(tasks)[i] # Tail(tasks)[j]
      <4> SUFFICES ASSUME NEW i \in DOMAIN Tail(tasks), NEW j \in DOMAIN Tail(tasks), i # j
                   PROVE  tasks[i + 1] # tasks[j + 1]
        BY <3>2
      <4>1. i + 1 # j + 1
        BY <3>2
      <4> QED
        BY <3>2, <4>1 DEF StartedOnce
    <3> QED
      BY <3>1, <3>3, <3>4, <3>5 DEF StartedOnce, FromEnqueue
  <2> QED
    BY <2>1, <2>2, <2>3, ListFrame
<1> QED
  BY <1>1, <1>2, TypeCorrect, PTL DEF Spec
------------------------------------------------------------------------------
\* While a worker is between its predicate and its sleep it holds the mutex,
\* and nothing has been enqueued since it looked.
NothingNewWhileBlocking ==
    \A w \in Workers : place[w] = "blocking" => mutex = w /\ tasks = <<>>

\* No wakeup of enqueue is lost: while there is a task and a worker is left,
\* some worker is awake (lines 65-67 against 42-43).
THEOREM NoLostWakeup == Spec => []SomebodyIsAwake
<1> DEFINE Inv == NothingNewWhileBlocking /\ SomebodyIsAwake
<1> USE DEF NothingNewWhileBlocking, SomebodyIsAwake, AllGone
<1>1. Init => Inv
  BY DEF Init
<1>2. TypeOK /\ Inv /\ [Next]_vars => Inv'
  <2> SUFFICES ASSUME TypeOK, NothingNewWhileBlocking, SomebodyIsAwake, [Next]_vars
               PROVE  NothingNewWhileBlocking' /\ SomebodyIsAwake'
    OBVIOUS
  <2>0. place \in [Workers -> Places]
    BY DEF TypeOK
  <2>1. ASSUME NEW w \in Workers, Spawn(w) \/ SpuriousWake(w) \/ TaskReturns(w) \/ TestList(w)
        PROVE  Inv'
    BY <2>0, <2>1 DEF Spawn, SpuriousWake, TaskReturns, TestList, Go
  <2>2. ASSUME NEW w \in Workers, TakeTask(w) PROVE Inv'
    BY <2>0, <2>2, PoolAssumption DEF TakeTask, Go
  <2>3. ASSUME NEW w \in Workers, ObeyExit(w) \/ FindNothing(w) PROVE Inv'
    BY <2>0, <2>3, PoolAssumption DEF ObeyExit, FindNothing, Go
  <2>4. ASSUME NEW w \in Workers, Block(w) PROVE Inv'
    BY <2>0, <2>4 DEF Block, Go
  <2>5. CASE Built \/ Shutdown \/ Joined \/ UNCHANGED vars
    BY <2>5 DEF Built, Shutdown, Joined, vars
  <2>6. CASE NotifyAll
    BY <2>0, <2>6 DEF NotifyAll
  <2>7. ASSUME NEW k \in Tasks, Enqueue(k) PROVE Inv'
    <3>1. \A w \in Workers : place[w] # "blocking"
      BY <2>7, PoolAssumption DEF Enqueue
    <3>2. ~AllGone => \E w \in Workers : place[w] \in {"unborn", "test", "lock", "running", "waiting"}
      BY <2>0, <3>1 DEF Places
    <3>3. \/ \E w \in Workers : place[w] = "waiting" /\ place' = [place EXCEPT ![w] = "lock"]
          \/ (\A w \in Workers : place[w] # "waiting") /\ place' = place
      BY <2>7 DEF Enqueue, NotifyOne, Go
    <3> QED
      BY <2>0, <3>1, <3>2, <3>3
  <2> QED
    BY <2>1, <2>2, <2>3, <2>4, <2>5, <2>6, <2>7 DEF Next, Working
<1> QED
  BY <1>1, <1>2, TypeCorrect, PTL DEF Spec
------------------------------------------------------------------------------
\* What was enqueued waits in the list or was started.
NothingLost == \A k \in enqueued : k \in started \/ \E i \in DOMAIN tasks : tasks[i] = k

LEMMA NothingIsLost == Spec => []NothingLost
<1>1. Init => NothingLost
  BY DEF Init, NothingLost
<1>2. TypeOK /\ NothingLost /\ [Next]_vars => NothingLost'
  <2> SUFFICES ASSUME tasks \in Seq(Tasks), NothingLost, [Next]_vars,
                      NEW k \in enqueued', k \notin started'
               PROVE  \E i \in DOMAIN tasks' : tasks'[i] = k
    BY DEF TypeOK, NothingLost
  <2>1. CASE UNCHANGED <<tasks, enqueued, started, orphans>>
    BY <2>1 DEF NothingLost
  <2>2. ASSUME NEW e \in Tasks, Enqueue(e) PROVE \E i \in DOMAIN tasks' : tasks'[i] = k
    <3>1. tasks' = Append(tasks, e) /\ enqueued' = enqueued \union {e} /\ started' = started
      BY <2>2 DEF Enqueue
    <3>2. /\ Len(tasks) + 1 \in DOMAIN Append(tasks, e)
          /\ Append(tasks, e)[Len(tasks) + 1] = e
          /\ \A i \in DOMAIN tasks : /\ i \in DOMAIN Append(tasks, e)
                                     /\ Append(tasks, e)[i] = tasks[i]
      BY AppendProperties, LenProperties
    <3>3. CASE k = e
      BY <3>1, <3>2, <3>3
    <3>4. CASE k # e
      <4>1. PICK i \in DOMAIN tasks : tasks[i] = k
        BY <3>1, <3>4 DEF NothingLost
      <4> QED
        BY <3>1, <3>2, <4>1
    <3> QED
      BY <3>3, <3>4
  <2>3. ASSUME NEW w \in Workers, TakeTask(w) PROVE \E i \in DOMAIN tasks' : tasks'[i] = k
    <3>1. /\ tasks # <<>> /\ tasks' = Tail(tasks) /\ enqueued' = enqueued
          /\ started' = started \union {Head(tasks)}
      BY <2>3 DEF TakeTask
    <3>2. PICK i \in DOMAIN tasks : tasks[i] = k
      BY <3>1 DEF NothingLost
    <3>3. /\ DOMAIN tasks = 1..Len(tasks) /\ Len(tasks) \in Nat
          /\ DOMAIN Tail(tasks) = 1..Len(tasks) - 1 /\ Head(tasks) = tasks[1]
          /\ \A j \in 1..Len(tasks) - 1 : Tail(tasks)[j] = tasks[j + 1]
      BY <3>1, HeadTailProperties, LenProperties
    <3>4. i # 1
      BY <3>1, <3>2, <3>3
    <3>5. i - 1 \in 1..Len(tasks) - 1 /\ (i - 1) + 1 = i
      BY <3>2, <3>3, <3>4
    <3>6. Tail(tasks)[i - 1] = k
      BY <3>2, <3>3, <3>5
    <3> QED
      BY <3>1, <3>3, <3>5, <3>6
  <2> QED
    BY <2>1, <2>2, <2>3, ListFrame
<1> QED
  BY <1>1, <1>2, TypeCorrect, PTL DEF Spec

\* Once the owner has joined the workers, every task that found a worker when it
\* was enqueued has been run: it was started, and nobody is running it any more.
JoinedMeansRun == owner = "done" => AllGone /\ enqueued \ orphans \subseteq started

\* The workers that shutdown joins (line 28) leave nothing behind, whatever was
\* enqueued before, during and after it by the owner or by tasks.
THEOREM ShutdownLeavesNothing == Spec => []JoinedMeansRun
<1> DEFINE Inv == owner = "done" => AllGone
<1>1. Init => Inv
  BY DEF Init
<1>2. TypeOK /\ Inv /\ [Next]_vars => Inv'
  <2> SUFFICES ASSUME place \in [Workers -> Places], Inv, [Next]_vars, owner' = "done"
               PROVE  AllGone'
    BY DEF TypeOK
  <2>1. CASE Joined
    BY <2>1 DEF Joined, AllGone
  <2>2. CASE ~Joined
    <3>1. owner = "done"
      BY <2>2 DEF Next, Working, Spawn, SpuriousWake, Built, Shutdown, NotifyAll, TestList,
         TakeTask, ObeyExit, FindNothing, Block, TaskReturns, Enqueue, vars
    <3>2. AllGone
      BY <3>1
    <3>3. place' = place
      BY <3>1, <3>2 DEF AllGone, Next, Working, Spawn, SpuriousWake, Built, Shutdown,
         NotifyAll, Joined, TestList, TakeTask, ObeyExit, FindNothing, Block, TaskReturns,
         Enqueue, vars
    <3> QED
      BY <3>2, <3>3 DEF AllGone
  <2> QED
    BY <2>1, <2>2
<1>3. Inv /\ NothingLost /\ NoTaskAbandoned => JoinedMeansRun
  BY DEF JoinedMeansRun, NothingLost, NoTaskAbandoned
<1> QED
  BY <1>1, <1>2, <1>3, TypeCorrect, NothingIsLost, NothingAbandoned, PTL DEF Spec
------------------------------------------------------------------------------
\* shutdown has notified, and no worker sleeps or is about to.
Quiet ==
    /\ owner \in {"joining", "done"}
    /\ \A w \in Workers : place[w] \notin {"blocking", "waiting"}

\* ... then none ever does: a worker that finds the list empty leaves.
NobodySleepsAgain == [][Quiet => Quiet']_vars

\* The flag is set before the notification (lines 72-73), so that after it the
\* predicate of every worker holds: whether shutdown returns is decided when
\* it notifies, by the workers that it then finds about to sleep.
THEOREM QuietForGood == Spec => NobodySleepsAgain
<1> DEFINE Inv == owner \in {"telling", "joining", "done"} => exitFlag
<1>1. Init => Inv
  BY DEF Init
<1>2. TypeOK /\ Inv /\ [Next]_vars => Inv'
  BY DEF Next, Working, Spawn, SpuriousWake, Built, Shutdown, NotifyAll, Joined, TestList,
     TakeTask, ObeyExit, FindNothing, Block, TaskReturns, Enqueue, vars
<1>3. TypeOK /\ Inv /\ [Next]_vars => [Quiet => Quiet']_vars
  <2> SUFFICES ASSUME place \in [Workers -> Places], Inv, Next, Quiet PROVE Quiet'
    BY DEF TypeOK
  <2> USE DEF Quiet
  <2>1. ASSUME NEW w \in Workers, Spawn(w) \/ Working(w) \/ SpuriousWake(w) PROVE Quiet'
    BY <2>1 DEF Working, Spawn, SpuriousWake, TestList, TakeTask, ObeyExit, FindNothing,
       Block, TaskReturns, Go
  <2>2. CASE Built \/ Shutdown \/ NotifyAll \/ Joined \/ UNCHANGED vars
    BY <2>2 DEF Built, Shutdown, NotifyAll, Joined, vars
  <2>3. ASSUME NEW k \in Tasks, Enqueue(k) PROVE Quiet'
    BY <2>3 DEF Enqueue, NotifyOne, Go
  <2> QED
    BY <2>1, <2>2, <2>3 DEF Next
<1> QED
  BY <1>1, <1>2, <1>3, TypeCorrect, PTL DEF Spec, NobodySleepsAgain
===============================================================================
