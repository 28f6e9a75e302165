--------------------------- MODULE AsyncQueueProofs ---------------------------
(* What holds of a queue on a thread of its own, for any number of threads    *)
(* that quit it, wait for it and run it.  The queue uses its Thread as module *)
(* Thread allows, so what ThreadProofs proves of that holds here.             *)
EXTENDS AsyncQueue, TLAPS

TP == INSTANCE ThreadProofs WITH MaxBodies <- 1, SelfLimits <- {"timed", "forever"}

LEMMA ThreadIsGiven == TP!ThreadAssumption
BY AsyncQueueAssumption DEF TP!ThreadAssumption, TP!Callers, TP!Bodies

\* Every step of the queue is a step of its Thread or leaves it alone.
LEMMA ThreadStep == [Next]_vars => [T!Next]_(T!vars)
<1> SUFFICES ASSUME [Next]_vars PROVE T!Next \/ UNCHANGED thread
  BY DEF thread, T!vars, T!flags, T!thread
<1>0. Owner \in T!Callers /\ 1 \in T!Bodies /\ T!Callers = Callers
  BY DEF T!Callers, T!Bodies, Callers
<1>1. CASE StartThread \/ Destroy \/ Destroying
  BY <1>0, <1>1 DEF StartThread, Destroy, Destroying, T!Next
<1>2. CASE BodyReturns \/ BodyEnds
  BY <1>0, <1>2 DEF BodyReturns, BodyEnds, T!Next
<1>3. CASE \E c \in Callers : Continue(c) \/ WakesUnasked(c)
  BY <1>0, <1>3 DEF Continue, SetFlag, StopThread, Stopping, WakesUnasked, T!Next
<1>4. CASE \E c \in Callers, limit \in {"timed", "forever"} : WaitForQuit(c, limit)
  BY <1>0, <1>4 DEF WaitForQuit, T!Next
<1>5. CASE \/ AsyncRun \/ SayItRuns \/ MakeThread \/ \E c \in Callers : Quit(c)
           \/ \E r \in Runners : Enter(r) \/ Running(r)
           \/ UNCHANGED vars
  BY <1>5 DEF AsyncRun, SayItRuns, MakeThread, Quit, Enter, Running, Begin, SeesFlag, End, vars
<1> QED
  BY <1>1, <1>2, <1>3, <1>4, <1>5 DEF Next

\* The Thread of a queue is a Thread.
THEOREM UsesThread == Spec => T!Spec
<1>1. Init => T!Init
  BY DEF Init
<1> QED
  BY <1>1, ThreadStep, PTL DEF Spec, T!Spec

\* T and TP are the same module: what ThreadProofs proves is true of T.
LEMMA SameThread == T!Spec => []TP!Inv
<1>1. T!Init => TP!Init
  BY DEF T!Init, TP!Init, T!Bodies, T!Callers, TP!Bodies, TP!Callers
<1>2. [T!Next]_(T!vars) => [TP!Next]_(TP!vars)
  BY DEF T!Bodies, T!Callers, T!vars, T!flags, T!thread, T!Next, T!Init, T!BeginStop, T!BeginOwn,
     T!Start, T!AssignHandle, T!Newest, T!StartFails, T!Destroy, T!Stopping, T!SpuriousWake,
     T!CallbackReturns, T!Ending, T!Test, T!Join, T!Wait, T!Expire, T!Decide, T!Detach, T!Clear,
     T!Notify, T!Leave, T!NotifyOne, T!CannotJoin, T!Return, T!Go, T!At, T!Busy, T!InStop,
     TP!Bodies, TP!Callers, TP!vars, TP!flags, TP!thread, TP!Next, TP!Init, TP!BeginStop,
     TP!BeginOwn, TP!Start, TP!AssignHandle, TP!Newest, TP!StartFails, TP!Destroy, TP!Stopping,
     TP!SpuriousWake, TP!CallbackReturns, TP!Ending, TP!Test, TP!Join, TP!Wait, TP!Expire,
     TP!Decide, TP!Detach, TP!Clear, TP!Notify, TP!Leave, TP!NotifyOne, TP!CannotJoin,
     TP!Return, TP!Go, TP!At, TP!Busy, TP!InStop
<1>3. TP!Spec => []TP!Inv
  BY TP!Invariance, ThreadIsGiven, PTL
<1> QED
  BY <1>1, <1>2, <1>3, PTL DEF T!Spec, TP!Spec
------------------------------------------------------------------------------
(* The inductive invariant.                                                   *)

QueueType ==
    /\ queueRunning \in BOOLEAN /\ quitFlag \in BOOLEAN /\ queueThread \in BOOLEAN
    /\ workThreadId \in Runners \union {Nobody}
    /\ loop \in [Runners -> {"out", "enter", "loop", "ended", "done"}]
    /\ calling \in [Callers -> {"free", "mark", "make", "start", "starting", "setFlag",
                                "stop", "stopping", "destroying"}]
    /\ seen \subseteq {"early", "doubled", "overwritten"}

\* The thread runs run and nothing else.
BodyInv ==
    /\ body[1] = "unborn" => loop[Self] = "out" /\ handle = 0
    /\ body[1] \in {"cleared", "leaving", "gone"} => loop[Self] = "done"

\* asyncRun says that the queue runs before there is a thread to run it.
OwnerInv ==
    /\ ~queueThread => body[1] = "unborn"
    /\ calling[Owner] \in {"mark", "make"} => ~queueThread
    /\ calling[Owner] \in {"start", "starting"} => queueThread

\* The callback recorded itself, and only another run can have recorded another.
RecordInv == "overwritten" \notin seen /\ loop[Self] # "out" => workThreadId = Self

\* Of two loops that run at once the later one noticed.
DoubleInv ==
    "doubled" \notin seen =>
        \A r, q \in Runners :
            loop[r] \in {"loop", "ended"} /\ loop[q] \in {"loop", "ended"} => r = q

QInv ==
    /\ QueueType /\ BodyInv /\ OwnerInv /\ RecordInv /\ DoubleInv
    /\ NeverWaitsForItself /\ SaysItRuns
------------------------------------------------------------------------------
(* What the Thread's steps can do to what the queue looks at.                 *)

LEMMA TypedThread == TP!Inv => T!TypeOK
BY DEF TP!Inv, TP!TypeOK, T!TypeOK, T!Bodies, TP!Bodies, T!Callers, TP!Callers, T!Places,
   TP!Places

\* A step of a stop, of its beginning or of the end of the thread.
LEMMA StopMoves ==
    ASSUME T!TypeOK, NEW c \in Callers,
           T!Stopping(c) \/ T!SpuriousWake(c) \/ T!Destroy \/ T!Ending(1)
    PROVE  /\ past \subseteq past' /\ handle' = handle
           /\ call'[Self].limit = call[Self].limit
           /\ \/ body'[1] = body[1]
              \/ body[1] = "cleared" /\ body'[1] = "leaving"
              \/ body[1] = "leaving" /\ body'[1] = "gone"
<1>0. Self \in T!Callers /\ 1 \in T!Bodies /\ c \in T!Callers
  BY DEF T!Callers, T!Bodies, Callers
<1>1. CASE T!Stopping(c) \/ T!SpuriousWake(c) \/ T!Destroy
  BY <1>0, <1>1 DEF T!Stopping, T!SpuriousWake, T!Destroy, T!Test, T!Join, T!Wait, T!Expire,
     T!Decide, T!Detach, T!Clear, T!Return, T!Go, T!TypeOK, T!thread
<1>2. CASE T!Ending(1)
  <2>1. \A d \in T!Callers : call'[d].limit = call[d].limit
    BY <1>2 DEF T!Ending, T!Notify, T!Leave, T!NotifyOne, T!Go, T!TypeOK
  <2> QED
    BY <1>0, <1>2, <2>1 DEF T!Ending, T!Notify, T!Leave, T!TypeOK, T!thread
<1> QED
  BY <1>1, <1>2

\* start either starts the one thread there is, and has its handle later, or fails.
LEMMA StartMoves ==
    ASSUME T!TypeOK, T!Start \/ T!AssignHandle \/ T!StartFails
    PROVE  /\ past \subseteq past' /\ call'[Self].limit = call[Self].limit
           /\ T!Start => body[1] = "unborn" /\ body'[1] = "running" /\ handle' = handle
           /\ T!AssignHandle => body' = body /\ body[1] # "unborn"
           /\ T!StartFails => body' = body /\ handle' = handle /\ "failed" \in past'
<1>0. Self \in T!Callers /\ T!Bodies = {1}
  BY DEF T!Callers, T!Bodies
<1>1. CASE T!Start
  BY <1>0, <1>1 DEF T!Start, T!AssignHandle, T!StartFails, T!At, T!Go, T!TypeOK, T!thread
<1>2. CASE T!AssignHandle
  BY <1>0, <1>2 DEF T!Start, T!AssignHandle, T!Newest, T!StartFails, T!At, T!Go, T!TypeOK
<1>3. CASE T!StartFails
  BY <1>0, <1>3 DEF T!Start, T!AssignHandle, T!StartFails, T!At, T!Go, T!TypeOK, T!thread
<1> QED
  BY <1>1, <1>2, <1>3

\* A stop that begins: of another caller, or of the callback.
LEMMA CallMoves ==
    ASSUME T!TypeOK, NEW c \in Callers, NEW limit \in {"timed", "forever"},
           T!BeginStop(c, limit)
    PROVE  /\ past \subseteq past' /\ body' = body /\ handle' = handle
           /\ call'[Self].limit = IF c = Self THEN limit ELSE call[Self].limit
<1>0. Self \in T!Callers /\ c \in T!Callers
  BY DEF T!Callers, Callers
<1> QED
  BY <1>0 DEF T!BeginStop, T!TypeOK, T!thread

\* The owner's beginning of start or of the destructor.
LEMMA OwnMoves ==
    ASSUME T!TypeOK, NEW goal, T!BeginOwn(goal)
    PROVE  past' = past /\ body' = body /\ handle' = handle /\ call'[Self] = call[Self]
<1>0. Self \in T!Callers /\ Self # Owner
  BY AsyncQueueAssumption DEF T!Callers
<1> QED
  BY <1>0 DEF T!BeginOwn, T!TypeOK, T!thread
------------------------------------------------------------------------------
(* Each step keeps each part.                                                 *)

\* A step in terms of what the invariant is about.
QueueSteps ==
    \/ AsyncRun \/ SayItRuns \/ MakeThread \/ StartThread \/ Destroy \/ Destroying
    \/ BodyReturns \/ BodyEnds
    \/ \E r \in Runners : Enter(r) \/ Begin(r) \/ SeesFlag(r) \/ End(r)
    \/ \E c \in Callers :
          \/ Quit(c) \/ SetFlag(c) \/ StopThread(c) \/ Stopping(c) \/ WakesUnasked(c)
          \/ \E limit \in {"timed", "forever"} : WaitForQuit(c, limit)

LEMMA AllSteps == [Next]_vars => QueueSteps \/ UNCHANGED vars
BY DEF Next, QueueSteps, Running, Continue

LEMMA WhoIsWho ==
    /\ Self \in Runners /\ Self \in Callers /\ Owner \in Callers
    /\ Runners \subseteq Callers /\ Owner \notin Runners
BY AsyncQueueAssumption DEF Runners, Callers

LEMMA TypeStep == QueueType /\ [Next]_vars => QueueType'
<1> SUFFICES ASSUME QueueType, [Next]_vars PROVE QueueType'
  OBVIOUS
<1>1. CASE UNCHANGED vars
  BY <1>1 DEF vars, queue, QueueType
<1>2. CASE \/ AsyncRun \/ SayItRuns \/ MakeThread \/ StartThread \/ Destroy \/ Destroying
           \/ BodyReturns \/ BodyEnds
  BY <1>2, WhoIsWho DEF AsyncRun, SayItRuns, MakeThread, StartThread, Destroy, Destroying,
     BodyReturns, BodyEnds, Go, queue, QueueType
<1>3. ASSUME NEW r \in Runners, Enter(r) \/ Begin(r) \/ SeesFlag(r) \/ End(r)
      PROVE  QueueType'
  <2>1. CASE Enter(r)
    BY <2>1 DEF Enter, Move, queue, QueueType
  <2>2. CASE Begin(r)
    BY <2>2 DEF Begin, Leave, Move, QueueType
  <2>3. CASE SeesFlag(r) \/ End(r)
    BY <2>3 DEF SeesFlag, End, Leave, Move, queue, QueueType
  <2> QED
    BY <1>3, <2>1, <2>2, <2>3
<1>4. ASSUME NEW c \in Callers,
             \/ Quit(c) \/ SetFlag(c) \/ StopThread(c) \/ Stopping(c) \/ WakesUnasked(c)
             \/ \E limit \in {"timed", "forever"} : WaitForQuit(c, limit)
      PROVE  QueueType'
  BY <1>4 DEF Quit, SetFlag, StopThread, Stopping, WakesUnasked, WaitForQuit, Go, queue, QueueType
<1> QED
  BY <1>1, <1>2, <1>3, <1>4, AllSteps DEF QueueSteps

\* The places of the one thread, and how it goes through them.
Moved ==
    \/ body'[1] = body[1] /\ (handle' = handle \/ body[1] # "unborn")
    \/ body[1] = "unborn" /\ body'[1] = "running"
    \/ body[1] = "running" /\ body'[1] = "cleared" /\ handle' = handle /\ loop[Self] = "done"
    \/ body[1] = "cleared" /\ body'[1] = "leaving" /\ handle' = handle
    \/ body[1] = "leaving" /\ body'[1] = "gone" /\ handle' = handle

\* A step is one of the queue, which leaves the Thread alone, or one of the
\* Thread, in which only the callers move; and whoever starts a thread has one
\* afterwards, or knows why not.
ThreadMoves ==
    /\ UNCHANGED <<queue, workThreadId, loop, seen>>
    /\ past \subseteq past' /\ Moved
    /\ body[1] = "unborn" /\ body'[1] # "unborn" => calling[Owner] = "starting"
    /\ \/ calling'[Owner] = calling[Owner]
       \/ calling[Owner] = "start" /\ calling'[Owner] = "starting"
       \/ /\ calling[Owner] = "starting" /\ calling'[Owner] = "free"
          /\ body'[1] # "unborn" \/ "failed" \in past'
       \/ /\ calling[Owner] \notin {"mark", "make", "start", "starting"}
          /\ calling'[Owner] \notin {"mark", "make", "start", "starting"}

QueueMoves ==
    \/ AsyncRun \/ SayItRuns \/ MakeThread
    \/ \E r \in Runners : Enter(r) \/ Begin(r) \/ SeesFlag(r) \/ End(r)
    \/ \E c \in Callers : Quit(c) \/ SetFlag(c)

LEMMA Kinds == T!TypeOK /\ QueueType /\ [Next]_vars => QueueMoves \/ ThreadMoves
<1> SUFFICES ASSUME T!TypeOK, QueueType, [Next]_vars, ~QueueMoves PROVE ThreadMoves
  OBVIOUS
<1>1. CASE UNCHANGED vars
  BY <1>1 DEF vars, thread, queue, ThreadMoves, Moved
<1>2. CASE StartThread
  <2>1. CASE In(Owner, "start") /\ T!BeginOwn("start") /\ Go(Owner, "starting")
    BY <1>2, <2>1, OwnMoves, WhoIsWho DEF StartThread, In, Go, QueueType, ThreadMoves, Moved
  <2>2. CASE In(Owner, "starting") /\ (T!Start \/ T!AssignHandle \/ T!StartFails)
    BY <1>2, <2>2, StartMoves, WhoIsWho DEF StartThread, In, Go, QueueType, ThreadMoves, Moved
  <2> QED
    BY <1>2, <2>1, <2>2 DEF StartThread
<1>3. CASE Destroy
  BY <1>3, OwnMoves, WhoIsWho DEF Destroy, MayCall, In, Go, QueueType, ThreadMoves, Moved
<1>4. CASE Destroying
  BY <1>4, StopMoves, WhoIsWho DEF Destroying, In, ThreadMoves, Moved
<1>5. CASE BodyReturns
  BY <1>5 DEF BodyReturns, T!CallbackReturns, T!TypeOK, T!Bodies, T!thread, ThreadMoves, Moved
<1>6. CASE BodyEnds
  BY <1>6, StopMoves, WhoIsWho DEF BodyEnds, ThreadMoves, Moved
<1>7. ASSUME NEW c \in Callers, Stopping(c) \/ WakesUnasked(c) PROVE ThreadMoves
  <2>1. /\ past \subseteq past' /\ Moved /\ UNCHANGED <<queue, workThreadId, loop, seen>>
        /\ body[1] = "unborn" => body'[1] = "unborn"
    BY <1>7, StopMoves DEF Stopping, WakesUnasked, Moved
  <2>2. \/ calling'[Owner] = calling[Owner]
        \/ /\ calling[Owner] \notin {"mark", "make", "start", "starting"}
           /\ calling'[Owner] \notin {"mark", "make", "start", "starting"}
    BY <1>7, WhoIsWho DEF Stopping, WakesUnasked, In, Go, QueueType
  <2> QED
    BY <2>1, <2>2 DEF ThreadMoves
<1>8. ASSUME NEW c \in Callers, StopThread(c) PROVE ThreadMoves
  <2>1. past \subseteq past' /\ Moved /\ body' = body
    BY <1>8, CallMoves DEF StopThread, thread, Moved
  <2>2. \/ calling'[Owner] = calling[Owner]
        \/ /\ calling[Owner] \notin {"mark", "make", "start", "starting"}
           /\ calling'[Owner] \notin {"mark", "make", "start", "starting"}
    BY <1>8, WhoIsWho DEF StopThread, In, Go, QueueType
  <2> QED
    BY <1>8, <2>1, <2>2 DEF StopThread, ThreadMoves
<1>9. ASSUME NEW c \in Callers, NEW limit \in {"timed", "forever"}, WaitForQuit(c, limit)
      PROVE  ThreadMoves
  BY <1>9, CallMoves DEF WaitForQuit, MayCall, In, Go, QueueType, ThreadMoves, Moved
<1> QED
  BY <1>1, <1>2, <1>3, <1>4, <1>5, <1>6, <1>7, <1>8, <1>9, AllSteps DEF QueueSteps, QueueMoves

LEMMA BodyStep == T!TypeOK /\ QueueType /\ BodyInv /\ [Next]_vars => BodyInv'
<1> SUFFICES ASSUME T!TypeOK, QueueType, BodyInv, [Next]_vars PROVE BodyInv'
  OBVIOUS
<1>1. CASE ThreadMoves
  BY <1>1 DEF ThreadMoves, Moved, BodyInv
<1>2. body[1] \in {"unborn", "running", "cleared", "leaving", "gone"}
  BY DEF T!TypeOK, T!Bodies
<1>3. CASE AsyncRun \/ SayItRuns \/ MakeThread \/ \E c \in Callers : Quit(c) \/ SetFlag(c)
  BY <1>3 DEF AsyncRun, SayItRuns, MakeThread, Quit, SetFlag, thread, BodyInv
<1>4. ASSUME NEW r \in Runners, Enter(r) \/ Begin(r) \/ SeesFlag(r) \/ End(r)
      PROVE  BodyInv'
  <2>1. body' = body /\ handle' = handle
    BY <1>4 DEF Enter, Begin, SeesFlag, End, thread
  <2>2. loop'[Self] = loop[Self] \/ body[1] = "running"
    <3>1. CASE Enter(r)
      BY <3>1, WhoIsWho DEF Enter, MayEnter, Move, QueueType
    <3>2. CASE r # Self /\ (Begin(r) \/ SeesFlag(r) \/ End(r))
      BY <3>2, WhoIsWho DEF Begin, SeesFlag, End, Leave, Move, QueueType
    <3>3. CASE r = Self /\ (Begin(r) \/ SeesFlag(r) \/ End(r))
      <4>1. loop[Self] \in {"enter", "loop", "ended"}
        BY <3>3 DEF Begin, SeesFlag, End
      <4> QED
        BY <1>2, <4>1 DEF BodyInv
    <3> QED
      BY <1>4, <3>1, <3>2, <3>3
  <2> QED
    BY <2>1, <2>2 DEF BodyInv
<1> QED
  BY <1>1, <1>3, <1>4, Kinds DEF QueueMoves

LEMMA OwnerStep == T!TypeOK /\ QueueType /\ OwnerInv /\ [Next]_vars => OwnerInv'
<1> SUFFICES ASSUME T!TypeOK, QueueType, OwnerInv, [Next]_vars PROVE OwnerInv'
  OBVIOUS
<1>1. CASE ThreadMoves
  BY <1>1 DEF ThreadMoves, queue, OwnerInv
<1>2. CASE AsyncRun \/ SayItRuns \/ MakeThread
  BY <1>2, WhoIsWho DEF AsyncRun, SayItRuns, MakeThread, In, Go, queue, thread, QueueType,
     OwnerInv
<1>3. ASSUME NEW c \in Callers, Quit(c) \/ SetFlag(c) PROVE OwnerInv'
  BY <1>3, WhoIsWho DEF Quit, SetFlag, In, Go, queue, thread, QueueType, OwnerInv
<1>4. ASSUME NEW r \in Runners, Enter(r) \/ Begin(r) \/ SeesFlag(r) \/ End(r)
      PROVE  OwnerInv'
  BY <1>4 DEF Enter, Begin, SeesFlag, End, queue, thread, OwnerInv
<1> QED
  BY <1>1, <1>2, <1>3, <1>4, Kinds DEF QueueMoves

LEMMA RecordStep == T!TypeOK /\ QueueType /\ RecordInv /\ [Next]_vars => RecordInv'
<1> SUFFICES ASSUME T!TypeOK, QueueType, RecordInv, [Next]_vars PROVE RecordInv'
  OBVIOUS
<1>1. CASE ThreadMoves
  BY <1>1 DEF ThreadMoves, RecordInv
<1>2. CASE AsyncRun \/ SayItRuns \/ MakeThread \/ \E c \in Callers : Quit(c) \/ SetFlag(c)
  BY <1>2 DEF AsyncRun, SayItRuns, MakeThread, Quit, SetFlag, RecordInv
<1>3. ASSUME NEW r \in Runners, Enter(r) PROVE RecordInv'
  <2>1. CASE r = Self
    BY <1>3, <2>1 DEF Enter, RecordInv
  <2>2. CASE r # Self /\ loop[Self] # "out"
    BY <1>3, <2>2 DEF Enter, RecordInv
  <2>3. CASE r # Self /\ loop[Self] = "out"
    BY <1>3, <2>3, WhoIsWho DEF Enter, Move, QueueType, RecordInv
  <2> QED
    BY <2>1, <2>2, <2>3
<1>4. ASSUME NEW r \in Runners, Begin(r) \/ SeesFlag(r) \/ End(r) PROVE RecordInv'
  BY <1>4, WhoIsWho DEF Begin, SeesFlag, End, Leave, Move, QueueType, RecordInv
<1> QED
  BY <1>1, <1>2, <1>3, <1>4, Kinds DEF QueueMoves

LEMMA DoubleStep == T!TypeOK /\ QueueType /\ DoubleInv /\ [Next]_vars => DoubleInv'
<1> SUFFICES ASSUME T!TypeOK, QueueType, DoubleInv, [Next]_vars PROVE DoubleInv'
  OBVIOUS
<1>1. CASE ThreadMoves
  BY <1>1 DEF ThreadMoves, DoubleInv
<1>2. CASE AsyncRun \/ SayItRuns \/ MakeThread \/ \E c \in Callers : Quit(c) \/ SetFlag(c)
  BY <1>2 DEF AsyncRun, SayItRuns, MakeThread, Quit, SetFlag, DoubleInv
<1>3. ASSUME NEW r \in Runners, Enter(r) \/ SeesFlag(r) \/ End(r) PROVE DoubleInv'
  BY <1>3 DEF Enter, SeesFlag, End, Leave, Move, QueueType, DoubleInv
<1>4. ASSUME NEW r \in Runners, Begin(r) PROVE DoubleInv'
  BY <1>4 DEF Begin, Busy, Leave, Move, QueueType, DoubleInv
<1> QED
  BY <1>1, <1>2, <1>3, <1>4, Kinds DEF QueueMoves

LEMMA RunsStep ==
    T!TypeOK /\ QueueType /\ BodyInv /\ OwnerInv /\ DoubleInv /\ SaysItRuns /\ [Next]_vars
        => SaysItRuns'
<1> SUFFICES ASSUME T!TypeOK, QueueType, BodyInv, OwnerInv, DoubleInv, SaysItRuns, [Next]_vars
             PROVE  SaysItRuns'
  OBVIOUS
<1>1. CASE ThreadMoves
  <2>1. \/ body'[1] = body[1]
        \/ body[1] = "unborn" /\ body'[1] = "running" /\ loop[Self] = "out"
        \/ loop[Self] = "done"
    BY <1>1 DEF ThreadMoves, Moved, BodyInv
  <2>2. CASE body'[1] = body[1]
    BY <1>1, <2>2 DEF ThreadMoves, queue, BodyInv, OwnerInv, Busy, SaysItRuns
  <2>3. CASE body[1] = "unborn" /\ body'[1] = "running" /\ loop[Self] = "out"
    BY <1>1, <2>3 DEF ThreadMoves, queue, Busy, SaysItRuns
  <2>4. CASE loop[Self] = "done"
    BY <1>1, <2>4 DEF ThreadMoves, queue, BodyInv, Busy, SaysItRuns
  <2> QED
    BY <2>1, <2>2, <2>3, <2>4
<1>2. CASE AsyncRun \/ SayItRuns \/ MakeThread
  BY <1>2, WhoIsWho DEF AsyncRun, SayItRuns, MakeThread, MayCall, In, Go, queue, thread,
     QueueType, OwnerInv, Busy, SaysItRuns
<1>7. ASSUME NEW c \in Callers, Quit(c) \/ SetFlag(c) PROVE SaysItRuns'
  BY <1>7, WhoIsWho DEF Quit, SetFlag, MayCall, In, Go, queue, thread, QueueType, Busy,
     SaysItRuns
<1>3. ASSUME NEW r \in Runners, Enter(r) PROVE SaysItRuns'
  BY <1>3, WhoIsWho DEF Enter, MayEnter, MayCall, In, Move, queue, thread, QueueType, Busy,
     SaysItRuns
<1>4. ASSUME NEW r \in Runners, Begin(r) PROVE SaysItRuns'
  BY <1>4 DEF Begin, Busy, Leave, Move, QueueType, SaysItRuns
<1>5. ASSUME NEW r \in Runners, SeesFlag(r) PROVE SaysItRuns'
  BY <1>5 DEF SeesFlag, Move, queue, QueueType, Busy, SaysItRuns
<1>6. ASSUME NEW r \in Runners, End(r) PROVE SaysItRuns'
  BY <1>6 DEF End, Leave, Move, QueueType, DoubleInv, SaysItRuns
<1> QED
  BY <1>1, <1>2, <1>3, <1>4, <1>5, <1>6, <1>7, Kinds DEF QueueMoves

LEMMA WaitStep ==
    T!TypeOK /\ QueueType /\ RecordInv /\ NeverWaitsForItself /\ [Next]_vars
        => NeverWaitsForItself'
<1> SUFFICES ASSUME T!TypeOK, QueueType, RecordInv, NeverWaitsForItself, [Next]_vars,
                    calling'[Self] = "stopping", call'[Self].limit = "forever"
             PROVE  "overwritten" \in seen'
  BY DEF NeverWaitsForItself
<1>0. seen \subseteq seen'
  BY Kinds DEF ThreadMoves, QueueMoves, AsyncRun, SayItRuns, MakeThread, Enter, Begin, SeesFlag,
     End, Quit, SetFlag
<1>1. CASE calling[Self] = "stopping" /\ call[Self].limit = "forever"
  BY <1>0, <1>1 DEF NeverWaitsForItself
<1>2. CASE UNCHANGED vars
  BY <1>1, <1>2 DEF vars, thread
<1>3. CASE \/ AsyncRun \/ SayItRuns \/ MakeThread
           \/ \E r \in Runners : Enter(r) \/ Begin(r) \/ SeesFlag(r) \/ End(r)
  BY <1>1, <1>3, WhoIsWho DEF AsyncRun, SayItRuns, MakeThread, Enter, Begin, SeesFlag, End,
     Go, thread, QueueType
<1>4. CASE StartThread \/ Destroy
  <2>1. \/ \E goal : T!BeginOwn(goal)
        \/ T!Start \/ T!AssignHandle \/ T!StartFails
    BY <1>4 DEF StartThread, Destroy
  <2>2. call'[Self].limit = call[Self].limit
    BY <2>1, OwnMoves, StartMoves
  <2>3. calling'[Self] = calling[Self]
    BY <1>4, WhoIsWho DEF StartThread, Destroy, Go, QueueType
  <2> QED
    BY <1>1, <2>2, <2>3
<1>5. CASE Destroying \/ BodyEnds
  BY <1>1, <1>5, StopMoves, WhoIsWho DEF Destroying, BodyEnds
<1>6. CASE BodyReturns
  BY <1>1, <1>6 DEF BodyReturns, T!CallbackReturns
<1>7. ASSUME NEW c \in Callers, Quit(c) \/ SetFlag(c) PROVE "overwritten" \in seen'
  BY <1>1, <1>7, WhoIsWho DEF Quit, SetFlag, Go, thread, QueueType
<1>8. ASSUME NEW c \in Callers, Stopping(c) \/ WakesUnasked(c) PROVE "overwritten" \in seen'
  <2>1. call'[Self].limit = call[Self].limit
    BY <1>8, StopMoves DEF Stopping, WakesUnasked
  <2>2. calling[Self] = "stopping"
    BY <1>8, WhoIsWho DEF Stopping, WakesUnasked, In, Go, QueueType
  <2> QED
    BY <1>1, <2>1, <2>2
<1>9. ASSUME NEW c \in Callers, StopThread(c) PROVE "overwritten" \in seen'
  <2>1. call'[Self].limit = "timed" \/ c # Self
    BY <1>9, CallMoves, WhoIsWho DEF StopThread, Go, QueueType
  <2>2. c # Self => call'[Self].limit = call[Self].limit
    BY <1>9, CallMoves DEF StopThread, thread
  <2>3. c # Self => calling'[Self] = calling[Self]
    BY <1>9, WhoIsWho DEF StopThread, Go, QueueType
  <2> QED
    BY <1>1, <2>1, <2>2, <2>3
<1>10. ASSUME NEW c \in Callers, NEW limit \in {"timed", "forever"}, WaitForQuit(c, limit)
       PROVE  "overwritten" \in seen'
  <2>1. CASE c = Self
    <3>1. loop[Self] = "loop" /\ workThreadId # Self
      BY <1>10, <2>1 DEF WaitForQuit, MayCall
    <3> QED
      BY <1>0, <3>1 DEF RecordInv
  <2>2. CASE c # Self
    <3>1. call'[Self].limit = call[Self].limit
      BY <1>10, <2>2, CallMoves DEF WaitForQuit
    <3>2. calling'[Self] = calling[Self]
      BY <1>10, <2>2, WhoIsWho DEF WaitForQuit, Go, QueueType
    <3> QED
      BY <1>1, <3>1, <3>2
  <2> QED
    BY <2>1, <2>2
<1> QED
  BY <1>2, <1>3, <1>4, <1>5, <1>6, <1>7, <1>8, <1>9, <1>10, AllSteps DEF QueueSteps
------------------------------------------------------------------------------
(* The theorems.                                                              *)

\* The Thread's own invariant holds with no help from the queue.
LEMMA ThreadInvariance == Spec => []TP!Inv
BY UsesThread, SameThread, PTL

LEMMA Invariance == Spec => []QInv
<1>1. Init => QInv
  <2> SUFFICES ASSUME Init PROVE QInv
    OBVIOUS
  <2>1. QueueType /\ RecordInv /\ DoubleInv
    BY WhoIsWho DEF Init, QueueType, RecordInv, DoubleInv
  <2>2. body[1] = "unborn" /\ handle = 0 /\ loop[Self] = "out"
    BY WhoIsWho DEF Init, T!Init, T!Bodies
  <2>3. BodyInv /\ OwnerInv
    BY <2>2, WhoIsWho DEF Init, BodyInv, OwnerInv
  <2>4. NeverWaitsForItself /\ SaysItRuns
    BY WhoIsWho DEF Init, NeverWaitsForItself, SaysItRuns
  <2> QED
    BY <2>1, <2>3, <2>4 DEF QInv
<1>2. TP!Inv /\ QInv /\ [Next]_vars => QInv'
  BY TypedThread, TypeStep, BodyStep, OwnerStep, RecordStep, DoubleStep, WaitStep, RunsStep
     DEF QInv
<1> QED
  BY <1>1, <1>2, ThreadInvariance, PTL DEF Spec

\* The flags, the places and the histories of the queue and of its Thread keep
\* their types.
THEOREM TypeCorrect == Spec => []TypeOK
<1>1. TP!Inv /\ QInv => TypeOK
  BY TypedThread DEF QInv, QueueType, TypeOK
<1> QED
  BY <1>1, ThreadInvariance, Invariance, PTL

\* A callback that waits without a deadline for the end of its own loop, which
\* would never come, was let in by another run that overwrote workThreadId
\* (queue.cpp:88) -- whoever quits, waits and runs, and however often.
THEOREM NoSelfWait == Spec => []NeverWaitsForItself
<1>1. QInv => NeverWaitsForItself
  BY DEF QInv
<1> QED
  BY <1>1, Invariance, PTL

\* isRunning (queue.cpp:93, 107) tells of a loop that runs or will, but for the
\* failed start and the quit that came first; and a loop that runs is told of.
THEOREM RunningIsKnown == Spec => []SaysItRuns
<1>1. QInv => SaysItRuns
  BY DEF QInv
<1> QED
  BY <1>1, Invariance, PTL

\* Whoever comes back from quit or waitforQuit (queue.cpp:134, 154) with nobody's
\* patience at its end finds the loop over and its thread gone.
THEOREM StopIsTheEnd == Spec => StoppedMeansEnded
<1>1. ASSUME TP!Inv, QInv, [Next]_vars, NEW c \in Callers \ {Self},
             calling[c] = "stopping", calling'[c] = "free", handle # 0, "forced" \notin past
      PROVE  body[1] = "gone" /\ loop[Self] = "done"
  <2>0. T!TypeOK /\ T!Callers = Callers /\ T!Bodies = {1} /\ handle = 1
    BY <1>1, TypedThread DEF T!TypeOK, T!Callers, T!Bodies, Callers
  <2>1. T!Stopping(c) /\ call'[c].place = "idle"
    <3>1. calling[c] = "stopping" /\ calling'[c] = "free" /\ c \in Callers /\ c # Self
      BY <1>1
    <3>2. calling \in [Callers -> {"free", "mark", "make", "start", "starting", "setFlag",
                                  "stop", "stopping", "destroying"}]
      BY <1>1 DEF QInv, QueueType
    <3>3. Stopping(c)
      <4>1. CASE UNCHANGED calling
        BY <3>1, <4>1
      <4>2. CASE AsyncRun \/ SayItRuns \/ MakeThread \/ StartThread \/ Destroy
        BY <3>1, <3>2, <4>2, WhoIsWho DEF AsyncRun, SayItRuns, MakeThread, StartThread,
           Destroy, MayCall, In, Go
      <4>3. ASSUME NEW d \in Callers,
                   \/ Quit(d) \/ SetFlag(d) \/ StopThread(d) \/ Stopping(d)
                   \/ \E limit \in {"timed", "forever"} : WaitForQuit(d, limit)
            PROVE  Stopping(c)
        <5>1. CASE d = c
          BY <3>1, <3>2, <4>3, <5>1 DEF Quit, SetFlag, StopThread, WaitForQuit, MayCall, In
        <5>2. CASE d # c
          BY <3>1, <3>2, <4>3, <5>2 DEF Quit, SetFlag, StopThread, Stopping, WaitForQuit, Go
        <5> QED
          BY <5>1, <5>2
      <4> QED
        BY <1>1, <4>1, <4>2, <4>3, AllSteps DEF QueueSteps, Destroying, BodyReturns, BodyEnds,
           Enter, Begin, SeesFlag, End, WakesUnasked, vars
    <3> QED
      BY <3>1, <3>2, <3>3 DEF Stopping, Go
  <2>2. ~joinable \/ body[1] = "gone"
    BY <1>1, <2>0, <2>1 DEF T!Stopping, T!Test, T!Join, T!Wait, T!Expire, T!Decide, T!Detach,
       T!Clear, T!At, T!Go, T!Return, T!TypeOK, TP!Inv, TP!PastInv, TP!Callers, T!Callers
  <2>a. call[Owner].place # "assign"
    <3>1. call[c].place \notin {"idle", "assign"}
      BY <2>1 DEF T!Stopping, T!Test, T!Join, T!Wait, T!Expire, T!Decide, T!Detach, T!Clear,
         T!At
    <3>2. c = Owner \/ call[Owner].place # "assign"
      BY <1>1, <2>0, <3>1 DEF TP!Inv, TP!AssignInv, TP!Callers, T!Callers
    <3> QED
      BY <3>1, <3>2
  <2>3. body[1] \notin {"running", "cleared", "leaving"} \/ joinable
    BY <1>1, <2>0, <2>a DEF TP!Inv, TP!HeldInv, TP!Live, TP!Pending, TP!Bodies, T!Bodies
  <2>4. body[1] = "gone"
    BY <1>1, <2>0, <2>2, <2>3 DEF QInv, BodyInv, T!TypeOK
  <2> QED
    BY <1>1, <2>4 DEF QInv, BodyInv
<1>2. TP!Inv /\ QInv /\ [Next]_vars =>
        [\A c \in Callers \ {Self} :
            calling[c] = "stopping" /\ calling'[c] = "free" /\ handle # 0
                   /\ "forced" \notin past => body[1] = "gone" /\ loop[Self] = "done"]_vars
  BY <1>1
<1> QED
  BY <1>2, ThreadInvariance, Invariance, PTL DEF Spec, StoppedMeansEnded
===============================================================================
