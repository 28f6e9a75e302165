------------------------------ MODULE AsyncQueue ------------------------------
(* mifsa::Queue run on a thread of its own (src/src/base/queue.cpp): asyncRun *)
(* makes a Thread, whose callback is run; quit and waitforQuit stop it.  What *)
(* happens inside the loop, its sleep and its lanes are module Queue's; here  *)
(* it is the composition with Thread that can go wrong: who waits for whom,   *)
(* and what isRunning and workThreadId say when more than one thread asks.    *)
(*                                                                            *)
(* The owner makes, starts and destroys the queue.  The others -- a signal    *)
(* handler's thread, say -- quit it, wait for it, or call run themselves; the *)
(* callbacks of the loop quit it and wait for it.  No stop of the Thread      *)
(* by another thread begins while the owner is inside Thread::start or its    *)
(* destructor.                                                                *)
EXTENDS Naturals

CONSTANTS Owner, Stoppers, Self, Nobody

ASSUME AsyncQueueAssumption ==
    /\ Owner \notin Stoppers /\ Self \notin Stoppers \union {Owner}
    /\ Nobody \notin Stoppers \union {Owner, Self, 1}

VARIABLES
    isRunning, isReadyFinished, handle, joinable, mutex, body, call, inside,
    fate, past, late,   \* Thread
    queueRunning,       \* QueueHelper::isRunning
    quitFlag,
    queueThread,        \* has asyncRun made the Thread?
    workThreadId,
    loop,               \* where each thread that may call run is in it
    calling,            \* where each caller is in a call
    seen                \* history: what the properties make exceptions of

thread == <<isRunning, isReadyFinished, handle, joinable, mutex, body, call, inside,
            fate, past, late>>
queue == <<queueRunning, quitFlag, queueThread>>
vars == <<thread, queue, workThreadId, loop, calling, seen>>

Callers == Stoppers \union {Owner, Self}
Runners == Stoppers \union {Self}

\* asyncRun starts one thread at most: queueThread is never reset.
T == INSTANCE Thread WITH MaxBodies <- 1, SelfLimits <- {"timed", "forever"}

TypeOK ==
    /\ T!TypeOK
    /\ queueRunning \in BOOLEAN /\ quitFlag \in BOOLEAN /\ queueThread \in BOOLEAN
    /\ workThreadId \in Runners \union {Nobody}
    /\ loop \in [Runners -> {"out", "enter", "loop", "ended", "done"}]
    /\ calling \in [Callers -> {"free", "mark", "make", "start", "starting", "setFlag",
                                "stop", "stopping", "destroying"}]
    /\ seen \subseteq {"early", "doubled", "overwritten"}

Init ==
    /\ T!Init
    /\ queueRunning = FALSE /\ quitFlag = FALSE /\ queueThread = FALSE
    /\ workThreadId = Nobody
    /\ loop = [r \in Runners |-> "out"]
    /\ calling = [c \in Callers |-> "free"]
    /\ seen = {}

In(c, place) == fate = "up" /\ calling[c] = place
Go(c, place) == calling' = [calling EXCEPT ![c] = place]
Move(r, place) == loop' = [loop EXCEPT ![r] = place]

\* The callbacks call from within the loop, the others from outside of it.
MayCall(c) ==
    /\ In(c, "free")
    /\ c = Self => loop[Self] = "loop"
    /\ c \in Stoppers => loop[c] = "out"
------------------------------------------------------------------------------
(* asyncRun, and the destruction of the queue.                                *)

AsyncRun ==
    /\ MayCall(Owner)
    /\ ~queueRunning /\ ~queueThread
    /\ Go(Owner, "mark")
    /\ UNCHANGED <<thread, queue, workThreadId, loop, seen>>

\* Line 119, some time after the test: another thread may have begun to run.
SayItRuns ==
    /\ In(Owner, "mark")
    /\ queueRunning' = TRUE
    /\ Go(Owner, "make")
    /\ UNCHANGED <<thread, quitFlag, queueThread, workThreadId, loop, seen>>

MakeThread ==
    /\ In(Owner, "make")
    /\ queueThread' = TRUE
    /\ Go(Owner, "start")
    /\ UNCHANGED <<thread, queueRunning, quitFlag, workThreadId, loop, seen>>

StartThread ==
    /\ \/ In(Owner, "start") /\ T!BeginOwn("start") /\ Go(Owner, "starting")
       \/ In(Owner, "starting") /\ T!Start /\ UNCHANGED calling
       \/ In(Owner, "starting") /\ (T!AssignHandle \/ T!StartFails) /\ Go(Owner, "free")
    /\ UNCHANGED <<queue, workThreadId, loop, seen>>

\* Deleting the helper deletes the Thread, once nobody else is in a call.
Destroy ==
    /\ \A c \in Callers \ {Self} : MayCall(c)
    /\ queueThread
    /\ T!BeginOwn("destroy")
    /\ Go(Owner, "destroying")
    /\ UNCHANGED <<queue, workThreadId, loop, seen>>

Destroying ==
    /\ In(Owner, "destroying")
    /\ T!Stopping(Owner) \/ T!Destroy
    /\ UNCHANGED <<queue, workThreadId, loop, calling, seen>>
------------------------------------------------------------------------------
(* run, by the callback of the Thread or by another thread.                   *)

Busy(r) == loop[r] \in {"enter", "loop", "ended"}

MayEnter(r) ==
    IF r = Self THEN fate = "up" /\ body[1] = "running" /\ loop[Self] = "out"
    ELSE MayCall(r)

\* Lines 88-92: the caller is recorded before anything is tested; a queue with
\* a Thread refuses nobody.
Enter(r) ==
    /\ MayEnter(r)
    /\ workThreadId' = r
    /\ seen' = IF r # Self /\ loop[Self] # "out" THEN seen \union {"overwritten"} ELSE seen
    /\ IF queueRunning /\ ~queueThread THEN UNCHANGED loop ELSE Move(r, "enter")
    /\ UNCHANGED <<thread, queue, calling>>

Leave(r) == Move(r, IF r = Self THEN "done" ELSE "out")

\* Lines 93-97: with the flag set it returns, and isRunning stays.
Begin(r) ==
    /\ fate = "up" /\ loop[r] = "enter"
    /\ queueRunning' = TRUE
    /\ IF quitFlag THEN Leave(r) ELSE Move(r, "loop")
    /\ seen' = seen \union (IF quitFlag THEN {"early"} ELSE {})
                    \union (IF \E q \in Runners \ {r} : Busy(q) THEN {"doubled"} ELSE {})
    /\ UNCHANGED <<thread, quitFlag, queueThread, workThreadId, calling>>

\* A mutation: the end of run leaves isRunning as it is.
EndStillRunning(r) ==
    /\ fate = "up" /\ loop[r] = "ended"
    /\ Leave(r)
    /\ UNCHANGED <<thread, queue, workThreadId, calling, seen>>

SeesFlag(r) ==
    /\ fate = "up" /\ loop[r] = "loop" /\ calling[r] = "free"
    /\ quitFlag
    /\ Move(r, "ended")
    /\ UNCHANGED <<thread, queue, workThreadId, calling, seen>>

End(r) ==
    /\ fate = "up" /\ loop[r] = "ended"
    /\ queueRunning' = FALSE
    /\ Leave(r)
    /\ UNCHANGED <<thread, quitFlag, queueThread, workThreadId, calling, seen>>

\* A mutation: the thread ends although its callback has not returned.
BodyEndsEarly ==
    /\ loop[Self] = "loop"
    /\ T!CallbackReturns(1)
    /\ UNCHANGED <<queue, workThreadId, loop, calling, seen>>

\* The callback of the Thread is run and nothing else.
BodyReturns ==
    /\ loop[Self] = "done"
    /\ T!CallbackReturns(1)
    /\ UNCHANGED <<queue, workThreadId, loop, calling, seen>>

BodyEnds ==
    /\ T!Ending(1)
    /\ UNCHANGED <<queue, workThreadId, loop, calling, seen>>
------------------------------------------------------------------------------
(* quit and waitforQuit.                                                      *)

Quit(c) ==
    /\ MayCall(c)
    /\ ~quitFlag
    /\ Go(c, "setFlag")
    /\ UNCHANGED <<thread, queue, workThreadId, loop, seen>>

SetFlag(c) ==
    /\ In(c, "setFlag")
    /\ quitFlag' = TRUE
    /\ Go(c, "stop")
    /\ UNCHANGED <<thread, queueRunning, queueThread, workThreadId, loop, seen>>

\* A mutation: quit has the patience that zero stands for.
StopThreadForever(c) ==
    /\ In(c, "stop")
    /\ IF queueThread
       THEN T!BeginStop(c, "forever") /\ Go(c, "stopping")
       ELSE Go(c, "free") /\ UNCHANGED thread
    /\ UNCHANGED <<queue, workThreadId, loop, seen>>

StopThread(c) ==
    /\ In(c, "stop")
    /\ IF queueThread
       THEN T!BeginStop(c, "timed") /\ Go(c, "stopping")
       ELSE Go(c, "free") /\ UNCHANGED thread
    /\ UNCHANGED <<queue, workThreadId, loop, seen>>

\* A mutation: anybody may wait.
WaitUnasked(c, limit) ==
    /\ MayCall(c)
    /\ queueThread
    /\ T!BeginStop(c, limit)
    /\ Go(c, "stopping")
    /\ UNCHANGED <<queue, workThreadId, loop, seen>>

\* Refused to the thread recorded by run; without a Thread it is Queue's.
WaitForQuit(c, limit) ==
    /\ MayCall(c)
    /\ c # workThreadId
    /\ queueThread
    /\ T!BeginStop(c, limit)
    /\ Go(c, "stopping")
    /\ UNCHANGED <<queue, workThreadId, loop, seen>>

Stopping(c) ==
    /\ In(c, "stopping")
    /\ T!Stopping(c)
    /\ Go(c, IF call'[c].place = "idle" THEN "free" ELSE "stopping")
    /\ UNCHANGED <<queue, workThreadId, loop, seen>>

WakesUnasked(c) ==
    /\ T!SpuriousWake(c)
    /\ UNCHANGED <<queue, workThreadId, loop, calling, seen>>
------------------------------------------------------------------------------
Continue(c) == SetFlag(c) \/ StopThread(c) \/ Stopping(c)
Running(r) == Begin(r) \/ SeesFlag(r) \/ End(r)
Body == Enter(Self) \/ BodyReturns \/ BodyEnds

Next ==
    \/ AsyncRun \/ SayItRuns \/ MakeThread \/ StartThread \/ Destroy \/ Destroying
    \/ \E r \in Runners : Enter(r) \/ Running(r)
    \/ BodyReturns \/ BodyEnds
    \/ \E c \in Callers :
          \/ Quit(c) \/ Continue(c) \/ WakesUnasked(c)
          \/ \E limit \in {"timed", "forever"} : WaitForQuit(c, limit)

Spec == Init /\ [][Next]_vars

\* Every thread that can run does; deadlines pass; the loop comes back to its
\* look at quitFlag, as it does while a timer is active (module Queue).
FairSpec ==
    /\ Spec
    /\ WF_vars(SayItRuns \/ MakeThread \/ StartThread \/ Destroying) /\ WF_vars(Body)
    /\ \A r \in Runners : WF_vars(Running(r))
    /\ \A c \in Callers : WF_vars(Continue(c))
------------------------------------------------------------------------------
(* Properties.                                                                *)

\* The loop never waits for its own end: waitforQuit without a deadline from a
\* callback would never return.  It is kept from it by workThreadId, which any
\* other run overwrites, be it refused or not (line 88).
NeverWaitsForItself ==
    calling[Self] = "stopping" /\ call[Self].limit = "forever" => "overwritten" \in seen

\* When quit or waitforQuit comes back to another thread, having found a thread
\* to stop, run is over on it and nothing of the queue is used there any more
\* -- as long as no patience ended, not theirs and not an earlier caller's.
StoppedMeansEnded ==
    [][\A c \in Callers \ {Self} :
          calling[c] = "stopping" /\ calling'[c] = "free" /\ handle # 0
                 /\ "forced" \notin past => body[1] = "gone" /\ loop[Self] = "done"]_vars

\* A queue that says it runs has a loop that runs or is about to, unless the
\* system gave it no thread, or quit had come before run and run returned with
\* isRunning set (line 95): then no run is ever possible again, and no waiter
\* hears of it.  And a loop that runs is one of a queue that says so, unless
\* two threads ran it at once.
SaysItRuns ==
    /\ queueRunning =>
          \/ \E r \in Runners : Busy(r)
          \/ calling[Owner] \in {"make", "start", "starting"} /\ body[1] = "unborn"
          \/ body[1] = "running" /\ loop[Self] = "out"
          \/ "failed" \in past \/ "early" \in seen
    /\ "doubled" \notin seen => \A r \in Runners : loop[r] = "loop" => queueRunning

\* quit returns to whoever calls it, on the loop's own thread too and whatever
\* other stops overlap it -- unless the process ends or a join under the mutex
\* is trapped (see Thread): its patience ends although it waits for itself.
QuitReturns ==
    \A c \in Callers :
        calling[c] \in {"setFlag", "stop"} ~>
            calling[c] = "free" \/ fate # "up" \/ T!Trapped
===============================================================================
