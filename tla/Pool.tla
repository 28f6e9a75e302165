--------------------------------- MODULE Pool ---------------------------------
(* mifsa::Pool (src/src/base/pool.cpp): workers started by the constructor, a *)
(* list of tasks under a mutex and a condition variable, and a shutdown that  *)
(* joins the workers.                                                         *)
(*                                                                            *)
(* A worker tests the list without the mutex before every turn (line 39) and  *)
(* leaves for good when it sees it empty.  Under the mutex it waits with a    *)
(* predicate; shutdown changes what the predicate reads without the mutex, so *)
(* evaluating the predicate and going to sleep are two steps.                 *)
EXTENDS Naturals, Sequences

CONSTANTS
    Workers,   \* the threads of the pool
    Tasks,     \* what is enqueued, each task once
    Nobody     \* the mutex is free

ASSUME PoolAssumption == Nobody \notin Workers

VARIABLES
    place,      \* where each worker is
    mutex,      \* who holds the mutex across steps
    tasks,      \* the list
    exitFlag,
    owner,      \* where the thread that owns the pool is
    enqueued,   \* history: the tasks enqueued so far
    started,    \* history: the tasks a worker has taken
    orphans     \* history: the tasks enqueued when no worker was left

vars == <<place, mutex, tasks, exitFlag, owner, enqueued, started, orphans>>

Places == {"unborn", "test", "lock", "blocking", "waiting", "running", "gone"}

TypeOK ==
    /\ place \in [Workers -> Places]
    /\ mutex \in Workers \union {Nobody}
    /\ tasks \in Seq(Tasks)
    /\ exitFlag \in BOOLEAN
    /\ owner \in {"building", "using", "telling", "joining", "done"}
    /\ enqueued \subseteq Tasks
    /\ started \subseteq Tasks
    /\ orphans \subseteq Tasks

Init ==
    /\ place = [w \in Workers |-> "unborn"]
    /\ mutex = Nobody
    /\ tasks = <<>>
    /\ exitFlag = FALSE
    /\ owner = "building"
    /\ enqueued = {} /\ started = {} /\ orphans = {}

Go(w, p) == place' = [place EXCEPT ![w] = p]
AllGone == \A w \in Workers : place[w] = "gone"
------------------------------------------------------------------------------
(* The owner: the constructor, enqueue and shutdown.                          *)

\* The workers run as soon as they are started, before the constructor returns.
Spawn(w) ==
    /\ owner = "building" /\ place[w] = "unborn"
    /\ Go(w, "test")
    /\ UNCHANGED <<mutex, tasks, exitFlag, owner, enqueued, started, orphans>>

Built ==
    /\ owner = "building" /\ \A w \in Workers : place[w] # "unborn"
    /\ owner' = "using"
    /\ UNCHANGED <<place, mutex, tasks, exitFlag, enqueued, started, orphans>>

\* A mutation: enqueue wakes nobody.
NotifyNobody == UNCHANGED place

\* The call under the mutex, of a worker that sleeps if there is one.
NotifyOne ==
    \/ \E w \in Workers : place[w] = "waiting" /\ Go(w, "lock")
    \/ (\A w \in Workers : place[w] # "waiting") /\ UNCHANGED place

\* A mutation: an empty entry is pushed in place of the task.
EnqueueEmpty(k) ==
    /\ owner = "using" \/ \E w \in Workers : place[w] = "running"
    /\ k \notin enqueued
    /\ mutex = Nobody
    /\ tasks' = Append(tasks, Nobody)
    /\ enqueued' = enqueued \union {k}
    /\ orphans' = IF AllGone THEN orphans \union {k} ELSE orphans
    /\ NotifyOne
    /\ UNCHANGED <<mutex, exitFlag, owner, started>>

\* enqueue, by the owner or by a task a worker runs.
Enqueue(k) ==
    /\ owner = "using" \/ \E w \in Workers : place[w] = "running"
    /\ k \notin enqueued
    /\ mutex = Nobody
    /\ tasks' = Append(tasks, k)
    /\ enqueued' = enqueued \union {k}
    /\ orphans' = IF AllGone THEN orphans \union {k} ELSE orphans
    /\ NotifyOne
    /\ UNCHANGED <<mutex, exitFlag, owner, started>>

\* shutdown: the flag and the notification, neither under the mutex, then join.
Shutdown ==
    /\ owner = "using"
    /\ exitFlag' = TRUE
    /\ owner' = "telling"
    /\ UNCHANGED <<place, mutex, tasks, enqueued, started, orphans>>

NotifyAll ==
    /\ owner = "telling"
    /\ place' = [w \in Workers |-> IF place[w] = "waiting" THEN "lock" ELSE place[w]]
    /\ owner' = "joining"
    /\ UNCHANGED <<mutex, tasks, exitFlag, enqueued, started, orphans>>

Joined ==
    /\ owner = "joining" /\ AllGone
    /\ owner' = "done"
    /\ UNCHANGED <<place, mutex, tasks, exitFlag, enqueued, started, orphans>>
------------------------------------------------------------------------------
(* A worker.                                                                  *)

\* while (!tasks.empty()), without the mutex.
TestList(w) ==
    /\ place[w] = "test"
    /\ Go(w, IF tasks = <<>> THEN "gone" ELSE "lock")
    /\ UNCHANGED <<mutex, tasks, exitFlag, owner, enqueued, started, orphans>>

\* A mutation: a worker that was told to exit leaves its tasks.
TakeUnlessExit(w) ==
    /\ place[w] = "lock" /\ mutex = Nobody
    /\ tasks # <<>>
    /\ IF exitFlag
       THEN Go(w, "gone") /\ UNCHANGED <<tasks, started>>
       ELSE /\ tasks' = Tail(tasks)
            /\ started' = started \union {Head(tasks)}
            /\ Go(w, "running")
    /\ UNCHANGED <<mutex, exitFlag, owner, enqueued, orphans>>

\* A mutation: the task stays in the list while it runs.
TakeWithoutPop(w) ==
    /\ place[w] = "lock" /\ mutex = Nobody
    /\ tasks # <<>>
    /\ started' = started \union {Head(tasks)}
    /\ Go(w, "running")
    /\ UNCHANGED <<mutex, tasks, exitFlag, owner, enqueued, orphans>>

\* The predicate holds and there is a task: the worker takes it.
TakeTask(w) ==
    /\ place[w] = "lock" /\ mutex = Nobody
    /\ tasks # <<>>
    /\ tasks' = Tail(tasks)
    /\ started' = started \union {Head(tasks)}
    /\ Go(w, "running")
    /\ UNCHANGED <<mutex, exitFlag, owner, enqueued, orphans>>

\* The predicate holds because of the flag alone: the worker leaves.
ObeyExit(w) ==
    /\ place[w] = "lock" /\ mutex = Nobody
    /\ tasks = <<>> /\ exitFlag
    /\ Go(w, "gone")
    /\ UNCHANGED <<mutex, tasks, exitFlag, owner, enqueued, started, orphans>>

\* A mutation: the predicate of the wait leaves the flag out.
FindNothingDespiteExit(w) ==
    /\ place[w] = "lock" /\ mutex = Nobody
    /\ tasks = <<>>
    /\ mutex' = w
    /\ Go(w, "blocking")
    /\ UNCHANGED <<tasks, exitFlag, owner, enqueued, started, orphans>>

\* The predicate does not hold: the worker is about to sleep, and until then
\* it keeps enqueue out -- but not shutdown.
FindNothing(w) ==
    /\ place[w] = "lock" /\ mutex = Nobody
    /\ tasks = <<>> /\ ~exitFlag
    /\ mutex' = w
    /\ Go(w, "blocking")
    /\ UNCHANGED <<tasks, exitFlag, owner, enqueued, started, orphans>>

Block(w) ==
    /\ place[w] = "blocking"
    /\ mutex' = Nobody
    /\ Go(w, "waiting")
    /\ UNCHANGED <<tasks, exitFlag, owner, enqueued, started, orphans>>

SpuriousWake(w) ==
    /\ place[w] = "waiting"
    /\ Go(w, "lock")
    /\ UNCHANGED <<mutex, tasks, exitFlag, owner, enqueued, started, orphans>>

TaskReturns(w) ==
    /\ place[w] = "running"
    /\ Go(w, "test")
    /\ UNCHANGED <<mutex, tasks, exitFlag, owner, enqueued, started, orphans>>
------------------------------------------------------------------------------
Working(w) ==
    \/ TestList(w) \/ TakeTask(w) \/ ObeyExit(w) \/ FindNothing(w) \/ Block(w)
    \/ TaskReturns(w)

Next ==
    \/ \E w \in Workers : Spawn(w) \/ Working(w) \/ SpuriousWake(w)
    \/ Built \/ Shutdown \/ NotifyAll \/ Joined
    \/ \E k \in Tasks : Enqueue(k)
    \/ owner = "done" /\ UNCHANGED vars

Spec == Init /\ [][Next]_vars

\* Every worker runs when it can; the owner finishes what it has begun.
FairSpec ==
    /\ Spec
    /\ \A w \in Workers : WF_vars(Working(w)) /\ WF_vars(Spawn(w))
    /\ WF_vars(Built) /\ WF_vars(NotifyAll) /\ WF_vars(Joined)
------------------------------------------------------------------------------
(* Properties.                                                                *)

\* The last worker to leave leaves no task behind, at the unlocked test, at the
\* flag and in whatever order shutdown and enqueue come: what is still in the
\* list afterwards was enqueued to a pool with no worker.
NoTaskAbandoned == AllGone => \A i \in DOMAIN tasks : tasks[i] \in orphans

\* A task taken by a worker is out of the list, so that no two workers run it:
\* a task waits or has been started, never both, and never waits twice.
StartedOnce ==
    /\ \A i \in DOMAIN tasks : tasks[i] \notin started
    /\ \A i, j \in DOMAIN tasks : i # j => tasks[i] # tasks[j]

\* A list that is not empty never meets only workers that sleep or are gone:
\* notify_one is called under the mutex, so it cannot fall between the predicate
\* of a worker and its sleep, and a worker that is woken for a task somebody
\* else has taken leaves somebody to look again.
SomebodyIsAwake ==
    tasks # <<>> /\ ~AllGone =>
        \E w \in Workers : place[w] \in {"unborn", "test", "lock", "running"}

\* A task enqueued while a worker is left is started, even if every worker was
\* asleep or on its way to sleep, and even during shutdown.
AcceptedTasksRun == \A k \in Tasks : k \in enqueued \ orphans ~> k \in started

\* shutdown returns if its notification finds no worker between the predicate
\* and its sleep: whoever sleeps then is woken, and nobody goes to sleep later.
\* A worker caught in between sleeps through it and the join never ends.
ShutdownJoins ==
    (owner = "joining" /\ \A w \in Workers : place[w] \notin {"blocking", "waiting"})
        ~> owner = "done"

\* What the example of the class expects: whatever is enqueued is run.
EveryTaskRuns == \A k \in Tasks : k \in enqueued ~> k \in started
===============================================================================
