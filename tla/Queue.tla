-------------------------------- MODULE Queue --------------------------------
(* mifsa::Queue (src/src/base/queue.cpp) run on one thread: the event loop of *)
(* run(), the two lanes it drains, and the calls other threads -- or the      *)
(* callbacks it runs -- make on it: postEvent, postTask, Timer::start and     *)
(* stop, quit, waitforQuit, a second run and at last the destructor.          *)
(*                                                                            *)
(* A step of a call is what the code does under one mutex or to one atomic:   *)
(* everything may happen between two steps.  The loop sleeps on one Semaphore *)
(* and the callers of waitforQuit on another; both are module Semaphore.      *)
EXTENDS Integers, Sequences, FiniteSets

CONSTANTS
    Worker,          \* the thread that calls run
    Callers,         \* the other threads
    Events, Tasks,   \* what is posted, each item once
    Tick,            \* the callback of the queue's timer
    Codes,           \* the arguments of quit
    Posters, Quitters, Waiters, TimerUsers, SecondRunners,  \* who calls what
    InitTimer,       \* the timer before anybody calls it
    MaxQueue,        \* QUEUE_MAX_NUM
    MaxBurst,        \* bound on the callbacks one pass queues for a timer
    CountBound,      \* bound of the two semaphores' counters
    None             \* run has not returned

Threads == Callers \union {Worker}

ASSUME QueueAssumption ==
    /\ Worker \notin Callers
    /\ UNION {Posters, Quitters, Waiters, TimerUsers} \subseteq Threads
    /\ SecondRunners \subseteq Callers
    /\ IsFiniteSet(Callers)
    /\ Codes \subseteq Nat
    /\ Tick \notin Events \union Tasks /\ Events \intersect Tasks = {}
    /\ InitTimer \in {"off", "loop"}
    /\ MaxQueue \in Nat /\ MaxBurst \in Nat \ {0}
    /\ CountBound \in Nat /\ CountBound >= 3

VARIABLES
    eventQueue, taskQueue,     \* the two lanes
    posted, handled,           \* history: what was pushed, and what callbacks got
    quitFlag, quitCode,
    requested,                 \* history: codes that quit has stored
    due,                       \* history: what had been pushed when quitFlag was set
    pc,                        \* where the worker is in run
    final,                     \* is it in the last processEvent (line 106)?
    mini,                      \* timeMethod.miniTime, as a way to wait
    isRunning, workThreadId,
    returned,                  \* what run last returned
    step, code,                \* where each thread is in a call, and quit's argument
    timer,                     \* the timer: off, or its loop flag
    fate,                      \* up, destroyed, or ended by std::terminate
    wakeCount, wakeCall, wakeMode,              \* eventSemaphore
    quitCount, quitCall, quitMode, quitSeen,    \* quitSemaphore
    misled                     \* history: who of its sleepers was not woken by run

lanes == <<eventQueue, taskQueue, posted, handled>>
quitVars == <<quitFlag, quitCode, requested, due>>
runVars == <<pc, final, mini, isRunning, workThreadId, returned>>
callVars == <<step, code>>
wakeVars == <<wakeCount, wakeCall, wakeMode>>
waitVars == <<quitCount, quitCall, quitMode, quitSeen, misled>>
vars == <<lanes, quitVars, runVars, callVars, timer, fate, wakeVars, waitVars>>

\* Nothing about the loop depends on what its semaphore has been through.
Wake == INSTANCE Semaphore
    WITH Threads <- {Worker}, InitialCount <- 0, ResetCounts <- {0},
         count <- wakeCount, call <- wakeCall, mode <- wakeMode,
         seen <- {"deadline", "spurious"}

QuitSem == INSTANCE Semaphore
    WITH Threads <- Threads, InitialCount <- 0, ResetCounts <- {0},
         count <- quitCount, call <- quitCall, mode <- quitMode, seen <- quitSeen

Places == {"out", "entering", "begin", "loop", "tasks", "task", "events", "event",
           "check", "plan", "sleep", "acquire", "end", "stopped", "returning"}
Callbacks == {"begin", "task", "event", "end"}
Steps == {"free", "wake", "setFlag", "setCode", "resetQuit", "toWait", "waiting"}

LaneTypes ==
    /\ eventQueue \in Seq(Events)
    /\ taskQueue \in Seq(Tasks \union {Tick})
    /\ posted \subseteq Events \union Tasks
    /\ handled \subseteq Events \union Tasks

QuitTypes ==
    /\ quitFlag \in BOOLEAN
    /\ quitCode \in Codes \union {0}
    /\ requested \subseteq Codes \union {0}
    /\ due \subseteq Events \union Tasks

RunTypes ==
    /\ pc \in Places
    /\ final \in BOOLEAN
    /\ mini \in {"forever", "timed", "poll"}
    /\ isRunning \in BOOLEAN
    /\ workThreadId \in Threads \union {None}
    /\ returned \in Codes \union {0, -1, None}
    /\ timer \in {"off", "loop", "once"}
    /\ fate \in {"up", "destroyed", "terminated"}

CallTypes ==
    /\ step \in [Threads -> Steps]
    /\ code \in [Threads -> Codes \union {0}]

TypeOK ==
    /\ LaneTypes /\ QuitTypes /\ RunTypes /\ CallTypes
    /\ Wake!TypeOK /\ QuitSem!TypeOK /\ misled \subseteq Threads

Init ==
    /\ eventQueue = <<>> /\ taskQueue = <<>>
    /\ posted = {} /\ handled = {}
    /\ quitFlag = FALSE /\ quitCode = 0 /\ requested = {} /\ due = {}
    /\ pc = "out" /\ final = FALSE /\ mini = "forever"
    /\ isRunning = FALSE /\ workThreadId = None /\ returned = None
    /\ step = [t \in Threads |-> "free"]
    /\ code = [t \in Threads |-> 0]
    /\ timer = InitTimer
    /\ fate = "up"
    /\ wakeCount = 0 /\ wakeCall = [t \in {Worker} |-> "idle"]
    /\ wakeMode = [t \in {Worker} |-> "forever"]
    /\ QuitSem!Init /\ misled = {}
------------------------------------------------------------------------------
(* Calls.  A thread is in one call at a time; the worker calls before and     *)
(* after run, and from the callbacks run makes.                               *)

In(t, s) == step[t] = s /\ fate = "up"

MayCall(t) == In(t, "free") /\ (t = Worker => pc \in Callbacks \union {"out"})

Go(t, s) == step' = [step EXCEPT ![t] = s]

\* postEvent and postTask: push under eventMutex, then wake the loop.  One item
\* more than QUEUE_MAX_NUM fits; the next post ends the process.
PostEvent(t, e) ==
    /\ t \in Posters /\ MayCall(t)
    /\ e \in Events \ posted
    /\ IF Len(eventQueue) > MaxQueue
       THEN fate' = "terminated" /\ UNCHANGED <<lanes, step>>
       ELSE /\ eventQueue' = Append(eventQueue, e)
            /\ posted' = posted \union {e}
            /\ Go(t, "wake")
            /\ UNCHANGED <<taskQueue, handled, fate>>
    /\ UNCHANGED <<quitVars, runVars, code, timer, wakeVars, waitVars>>

PostTask(t, k) ==
    /\ t \in Posters /\ MayCall(t)
    /\ k \in Tasks \ posted
    /\ IF Len(taskQueue) > MaxQueue
       THEN fate' = "terminated" /\ UNCHANGED <<lanes, step>>
       ELSE /\ taskQueue' = Append(taskQueue, k)
            /\ posted' = posted \union {k}
            /\ Go(t, "wake")
            /\ UNCHANGED <<eventQueue, handled, fate>>
    /\ UNCHANGED <<quitVars, runVars, code, timer, wakeVars, waitVars>>

\* A mutation: quit and the posts reset the other semaphore.
WakeWaiters(t) ==
    /\ In(t, "wake")
    /\ QuitSem!Reset(0)
    /\ Go(t, "free")
    /\ UNCHANGED <<lanes, quitVars, runVars, code, timer, fate, wakeVars, misled>>

\* eventSemaphore.reset(): the last step of every call that wakes the loop.
WakeUp(t) ==
    /\ In(t, "wake")
    /\ Wake!Reset(0)
    /\ Go(t, "free")
    /\ UNCHANGED <<lanes, quitVars, runVars, code, timer, fate, waitVars>>

\* Timer::start stores the start time, then wakes the loop; stop wakes nobody.
StartTimer(t, kind) ==
    /\ t \in TimerUsers /\ MayCall(t)
    /\ timer' = kind
    /\ Go(t, "wake")
    /\ UNCHANGED <<lanes, quitVars, runVars, code, fate, wakeVars, waitVars>>

StopTimer(t) ==
    /\ t \in TimerUsers /\ MayCall(t)
    /\ timer' = "off"
    /\ UNCHANGED <<lanes, quitVars, runVars, callVars, fate, wakeVars, waitVars>>

\* quit: test the flag, set it, store the code, wake the loop -- four steps.
Quit(t, n) ==
    /\ t \in Quitters /\ MayCall(t)
    /\ ~quitFlag
    /\ Go(t, "setFlag")
    /\ code' = [code EXCEPT ![t] = n]
    /\ UNCHANGED <<lanes, quitVars, runVars, timer, fate, wakeVars, waitVars>>

SetQuitFlag(t) ==
    /\ In(t, "setFlag")
    /\ quitFlag' = TRUE
    /\ due' = IF quitFlag THEN due ELSE posted
    /\ Go(t, "setCode")
    /\ UNCHANGED <<lanes, quitCode, requested, runVars, code, timer, fate,
                   wakeVars, waitVars>>

\* A mutation: the code is never stored.
ForgetQuitCode(t) ==
    /\ In(t, "setCode")
    /\ requested' = requested \union {code[t]}
    /\ Go(t, "wake")
    /\ code' = [code EXCEPT ![t] = 0]
    /\ UNCHANGED <<lanes, quitFlag, quitCode, due, runVars, timer, fate, wakeVars,
                   waitVars>>

SetQuitCode(t) ==
    /\ In(t, "setCode")
    /\ quitCode' = code[t]
    /\ requested' = requested \union {code[t]}
    /\ Go(t, "wake")
    /\ code' = [code EXCEPT ![t] = 0]
    /\ UNCHANGED <<lanes, quitFlag, due, runVars, timer, fate, wakeVars, waitVars>>

\* waitforQuit, when no Thread runs the queue: refused to the thread that last
\* called run; otherwise reset quitSemaphore and acquire it, for ever when the
\* timeout is zero.
WaitForQuit(t) ==
    /\ t \in Waiters /\ MayCall(t)
    /\ t # workThreadId
    /\ Go(t, "resetQuit")
    /\ UNCHANGED <<lanes, quitVars, runVars, code, timer, fate, wakeVars, waitVars>>

ResetQuitSemaphore(t) ==
    /\ In(t, "resetQuit")
    /\ QuitSem!Reset(0)
    /\ misled' = misled \union {u \in Threads : quitCall'[u] # quitCall[u]}
    /\ Go(t, "toWait")
    /\ UNCHANGED <<lanes, quitVars, runVars, code, timer, fate, wakeVars>>

BeginWait(t, m) ==
    /\ In(t, "toWait")
    /\ QuitSem!BeginAcquire(t, m)
    /\ misled' = misled \ {t}
    /\ Go(t, "waiting")
    /\ UNCHANGED <<lanes, quitVars, runVars, code, timer, fate, wakeVars>>

\* The call returns when its acquire does.
Waiting(t) ==
    /\ In(t, "waiting")
    /\ \/ QuitSem!Enter(t) \/ QuitSem!Expire(t)
       \/ QuitSem!Resume(t) \/ QuitSem!TimeOut(t)
    /\ Go(t, IF quitCall'[t] = "idle" THEN "free" ELSE "waiting")
    /\ UNCHANGED <<lanes, quitVars, runVars, code, timer, fate, wakeVars, misled>>

\* A wakeup nobody asked for; the bound leaves the counter room for the next call.
WaiterWakesUnasked(t) ==
    /\ In(t, "waiting")
    /\ quitCount > 2 - CountBound
    /\ QuitSem!SpuriousWake(t)
    /\ misled' = misled \union {t}
    /\ UNCHANGED <<lanes, quitVars, runVars, callVars, timer, fate, wakeVars>>

\* run on another thread while the worker runs: refused, but only after the
\* caller has been recorded as the thread of the queue (line 88).  Before line
\* 93 it would not be refused: two loops at once are AsyncQueue's subject.
SecondRun(t) ==
    /\ t \in SecondRunners /\ MayCall(t)
    /\ isRunning
    /\ workThreadId' = t
    /\ UNCHANGED <<lanes, quitVars, pc, final, mini, isRunning, returned, callVars,
                   timer, fate, wakeVars, waitVars>>
------------------------------------------------------------------------------
(* run.  The worker moves on only between its calls.                          *)

At(place) == pc = place /\ In(Worker, "free")

\* run when isRunning is still set, for instance by RunAfterQuit.
RejectedRun ==
    /\ At("out") /\ isRunning
    /\ workThreadId' = Worker
    /\ returned' = -1
    /\ UNCHANGED <<lanes, quitVars, pc, final, mini, isRunning, callVars, timer,
                   fate, wakeVars, waitVars>>

\* Nobody else writes isRunning: between its test and its store others move.
Run ==
    /\ At("out") /\ ~isRunning
    /\ workThreadId' = Worker
    /\ returned' = None
    /\ pc' = "entering"
    /\ UNCHANGED <<lanes, quitVars, final, mini, isRunning, callVars, timer, fate,
                   wakeVars, waitVars>>

\* A queue that was quit first returns at once: nothing is drained, nobody who
\* waits is told, and isRunning stays set (lines 93-96).
RunAfterQuit ==
    /\ At("entering") /\ quitFlag
    /\ isRunning' = TRUE
    /\ returned' = quitCode
    /\ pc' = "out"
    /\ UNCHANGED <<lanes, quitVars, final, mini, workThreadId, callVars, timer, fate,
                   wakeVars, waitVars>>

Begin ==
    /\ At("entering") /\ ~quitFlag
    /\ isRunning' = TRUE
    /\ pc' = "begin"
    /\ UNCHANGED <<lanes, quitVars, final, mini, workThreadId, returned, callVars,
                   timer, fate, wakeVars, waitVars>>

\* A step of the worker that only moves it through run.
Move(from, to) ==
    /\ At(from)
    /\ pc' = to
    /\ UNCHANGED <<lanes, quitVars, mini, isRunning, workThreadId, returned, callVars,
                   timer, fate, wakeVars, waitVars>>

BeginReturns == Move("begin", "loop") /\ UNCHANGED final

\* A mutation: the loop ends without the processEvent of line 106.
TestQuitNoDrain ==
    \/ ~quitFlag /\ Move("loop", "tasks") /\ UNCHANGED final
    \/ ~quitFlag /\ Move("check", "plan") /\ UNCHANGED final
    \/ quitFlag /\ (Move("loop", "end") \/ Move("check", "end")) /\ final' = TRUE

\* Lines 98 and 100: both tests of quitFlag lead to a processEvent or a pause.
TestQuit ==
    \/ Move("loop", "tasks") /\ final' = quitFlag
    \/ ~quitFlag /\ Move("check", "plan") /\ UNCHANGED final
    \/ quitFlag /\ Move("check", "tasks") /\ final' = TRUE

\* A mutation: the newest task is handed out instead of the oldest.
TakeNewestTask ==
    /\ At("tasks") /\ taskQueue # <<>>
    /\ taskQueue' = SubSeq(taskQueue, 1, Len(taskQueue) - 1)
    /\ handled' = (handled \union {taskQueue[Len(taskQueue)]}) \ {Tick}
    /\ pc' = "task"
    /\ UNCHANGED <<eventQueue, posted, quitVars, final, mini, isRunning, workThreadId,
                   returned, callVars, timer, fate, wakeVars, waitVars>>

\* processEvent: tasks until none is left, then events until none is left.
\* The callbacks run without the mutex.
TakeTask ==
    /\ At("tasks") /\ taskQueue # <<>>
    /\ taskQueue' = Tail(taskQueue)
    /\ handled' = (handled \union {Head(taskQueue)}) \ {Tick}
    /\ pc' = "task"
    /\ UNCHANGED <<eventQueue, posted, quitVars, final, mini, isRunning, workThreadId,
                   returned, callVars, timer, fate, wakeVars, waitVars>>

TakeEvent ==
    /\ At("events") /\ eventQueue # <<>>
    /\ eventQueue' = Tail(eventQueue)
    /\ handled' = handled \union {Head(eventQueue)}
    /\ pc' = "event"
    /\ UNCHANGED <<taskQueue, posted, quitVars, final, mini, isRunning, workThreadId,
                   returned, callVars, timer, fate, wakeVars, waitVars>>

CallbackReturns ==
    /\ Move("task", "tasks") \/ Move("event", "events")
    /\ UNCHANGED final

LaneEmpty ==
    /\ \/ taskQueue = <<>> /\ Move("tasks", "events")
       \/ eventQueue = <<>> /\ Move("events", IF final THEN "end" ELSE "check")
    /\ UNCHANGED final

\* A mutation: a timer that is not due is forgotten.
PlanForgetsTimer ==
    /\ At("plan")
    /\ pc' = "sleep"
    /\ mini' = "forever"
    /\ UNCHANGED <<lanes, quitVars, final, isRunning, workThreadId, returned, callVars,
                   timer, fate, wakeVars, waitVars>>

\* processNextSleepTime, as far as the loop can tell: a timer that is due queues
\* its callback -- more than once when the pass is late, and without regard to
\* QUEUE_MAX_NUM -- and the loop does not sleep; otherwise it sleeps until the
\* timer is due, or for ever.
Plan ==
    /\ At("plan")
    /\ pc' = "sleep"
    /\ \/ /\ timer = "off"
          /\ mini' = "forever"
          /\ UNCHANGED <<taskQueue, timer>>
       \/ /\ timer # "off"
          /\ mini' = "timed"
          /\ UNCHANGED <<taskQueue, timer>>
       \/ /\ timer # "off"
          /\ mini' = "poll"
          /\ \E n \in 1..(IF timer = "once" THEN 1 ELSE MaxBurst) :
                taskQueue' = taskQueue \o [i \in 1..n |-> Tick]
          /\ timer' = IF timer = "once" THEN "off" ELSE timer
    /\ UNCHANGED <<eventQueue, posted, handled, quitVars, final, isRunning,
                   workThreadId, returned, callVars, fate, wakeVars, waitVars>>

\* acquire_nano(miniTime).
SkipSleep ==
    /\ mini = "poll" /\ wakeCount <= 0
    /\ Move("sleep", "loop") /\ UNCHANGED final

\* A mutation: acquire() instead of acquire_nano(miniTime).
BeginSleepForever ==
    /\ At("sleep")
    /\ Wake!BeginAcquire(Worker, "forever")
    /\ pc' = "acquire"
    /\ UNCHANGED <<lanes, quitVars, final, mini, isRunning, workThreadId, returned,
                   callVars, timer, fate, waitVars>>

BeginSleep ==
    /\ At("sleep")
    /\ Wake!BeginAcquire(Worker, mini)
    /\ pc' = "acquire"
    /\ UNCHANGED <<lanes, quitVars, final, mini, isRunning, workThreadId, returned,
                   callVars, timer, fate, waitVars>>

Sleeping ==
    /\ At("acquire")
    /\ \/ Wake!Enter(Worker) \/ Wake!Expire(Worker)
       \/ Wake!Resume(Worker) \/ Wake!TimeOut(Worker)
    /\ pc' = IF wakeCall'[Worker] = "idle" THEN "loop" ELSE "acquire"
    /\ UNCHANGED <<lanes, quitVars, final, mini, isRunning, workThreadId, returned,
                   callVars, timer, fate, waitVars>>

LoopWakesUnasked ==
    /\ At("acquire")
    /\ wakeCount > 2 - CountBound
    /\ Wake!SpuriousWake(Worker)
    /\ UNCHANGED <<lanes, quitVars, runVars, callVars, timer, fate, waitVars>>

\* Lines 107-110: end(), then isRunning, then quitSemaphore, then the code.
EndReturns ==
    /\ At("end")
    /\ pc' = "stopped"
    /\ isRunning' = FALSE
    /\ UNCHANGED <<lanes, quitVars, final, mini, workThreadId, returned, callVars,
                   timer, fate, wakeVars, waitVars>>

TellWaiters ==
    /\ At("stopped")
    /\ QuitSem!Reset(0)
    /\ pc' = "returning"
    /\ UNCHANGED <<lanes, quitVars, final, mini, isRunning, workThreadId, returned,
                   callVars, timer, fate, wakeVars, misled>>

Return ==
    /\ At("returning")
    /\ returned' = quitCode
    /\ pc' = "out"
    /\ UNCHANGED <<lanes, quitVars, final, mini, isRunning, workThreadId, callVars,
                   timer, fate, wakeVars, waitVars>>

\* ~Queue: resets both semaphores, drops what is pending and takes the queue
\* from its timers.  Nobody may be inside it, the worker included.
Destroy ==
    /\ fate = "up" /\ fate' = "destroyed"
    /\ pc = "out" /\ \A t \in Threads : step[t] = "free"
    /\ Wake!Reset(0) /\ QuitSem!Reset(0)
    /\ eventQueue' = <<>> /\ taskQueue' = <<>>
    /\ timer' = "off"
    /\ UNCHANGED <<posted, handled, quitVars, runVars, callVars, misled>>
------------------------------------------------------------------------------
Calling(t) ==
    \/ \E e \in Events : PostEvent(t, e)
    \/ \E k \in Tasks : PostTask(t, k)
    \/ \E kind \in {"loop", "once"} : StartTimer(t, kind)
    \/ StopTimer(t)
    \/ \E n \in Codes : Quit(t, n)
    \/ WaitForQuit(t)
    \/ SecondRun(t)

\* The rest of a call that a thread has begun.
Continue(t) ==
    \/ WakeUp(t) \/ SetQuitFlag(t) \/ SetQuitCode(t) \/ ResetQuitSemaphore(t)
    \/ \E m \in {"forever", "timed"} : BeginWait(t, m)
    \/ Waiting(t)

CallRun == RejectedRun \/ Run

Working ==
    \/ RunAfterQuit \/ Begin \/ BeginReturns \/ TestQuit
    \/ TakeTask \/ TakeEvent \/ CallbackReturns \/ LaneEmpty \/ Plan \/ SkipSleep \/ BeginSleep \/ Sleeping
    \/ EndReturns \/ TellWaiters \/ Return

\* The queue, or the process, is gone.
Over == fate # "up" /\ UNCHANGED vars

Next ==
    \/ CallRun \/ Working \/ LoopWakesUnasked
    \/ \E t \in Threads : Calling(t) \/ Continue(t) \/ WaiterWakesUnasked(t)
    \/ Destroy \/ Over

Spec == Init /\ [][Next]_vars

\* The worker calls run, the scheduler runs every thread that can run, and the
\* clock goes on.  Nobody else has to call anything, and no wakeup is owed to
\* anybody but by a notification or a deadline.
Fairness ==
    /\ WF_vars(Run \/ Working)
    /\ \A t \in Threads : WF_vars(Continue(t))

FairSpec == Spec /\ Fairness
------------------------------------------------------------------------------
(* Properties.                                                                *)

Ended == {"end", "stopped", "returning"}

\* The queue seen from outside: the worker's place in run as a phase, and the
\* lanes without the timer's callbacks, which nobody posted.
Phase ==
    IF fate = "destroyed" THEN "closed"
    ELSE IF pc \in {"out", "entering"} THEN "idle"
    ELSE IF pc \in Ended THEN "ended" ELSE "running"
Pending == IF fate = "destroyed" THEN {} ELSE posted \ handled
AheadIn(s, x) == {s[i] : i \in {i \in 1..Len(s) : \E j \in i + 1..Len(s) : s[j] = x}}
Ahead == [x \in Events \union Tasks |->
            (AheadIn(eventQueue, x) \union AheadIn(taskQueue, x)) \ {Tick}]
Owed == IF fate = "destroyed" THEN {} ELSE due \ handled

Promise == INSTANCE EventLoop
    WITH Lanes <- {Events, Tasks}, phase <- Phase, pending <- Pending, ahead <- Ahead,
         asked <- quitFlag, owed <- Owed

\* The loop is the one EventLoop describes: whatever the threads, the timer and
\* the callbacks do to its lanes, an item is handled once, in the order of its
\* lane and inside run, and run ends after all that was posted before quit.
KeepsLoopPromise ==
    Promise!PromiseInit /\ [][[Promise!PromiseNext]_(Promise!promiseVars)]_vars

\* Whatever was posted before quit set its flag has been given to a callback
\* by the time end() runs, whoever posted it and whatever was posted since:
\* line 106 drains both lanes once more after the loop.
DrainedBeforeEnd == pc \in Ended => due \subseteq handled

\* A waitforQuit woken by run finds the queue stopped: its callbacks and end()
\* are over, and run, when called again, returns at once.  However many wait:
\* one that was woken otherwise -- every call of waitforQuit resets the
\* semaphore the others wait on -- is misled, and misleads none of the others.
WaiterSeesTheEnd ==
    \A t \in Waiters :
        quitCall[t] = "notified" /\ t \notin misled =>
            quitFlag /\ pc \in {"returning", "out", "entering"}

\* run returns a code that quit was asked for, unless at that very moment a
\* call of quit has set the flag and not yet stored its code (lines 131-132):
\* then the code may be the one of before.
ReturnsRequestedCode ==
    [][(Return \/ RunAfterQuit) /\ (\A t \in Threads : step[t] # "setCode")
          => returned' \in requested]_vars

\* A sleeping loop can be woken: whatever resets, late timeouts and spurious
\* wakeups came before, the counter is negative, so the next post reaches it.
SleeperCanBeWoken == wakeCall[Worker] = "asleep" => wakeCount < 0

\* Without a timer the loop sleeps through a reset that comes after its last
\* look at the queues and before it enters the semaphore.  With a loop timer
\* that nobody stops it looks again: all that is posted is handled, unless the
\* queue quits or is destroyed first.
EverythingIsHandled ==
    \A x \in Events \union Tasks :
        x \in posted ~> (x \in handled \/ quitFlag \/ fate = "destroyed")

\* ... and a queue that was quit while it ran returns from run.
QuitEndsRun == quitFlag ~> pc = "out"
===============================================================================
