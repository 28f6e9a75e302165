----------------------------- MODULE QueueProofs -----------------------------
(* Proofs about mifsa::Queue for any threads, any items, any codes and any    *)
(* limit on its queues.                                                       *)
EXTENDS Queue, FiniteSetTheorems, SequenceTheorems, TLAPS

QP == INSTANCE SemaphoreProofs
    WITH InitialCount <- 0, ResetCounts <- {0},
         count <- quitCount, call <- quitCall, mode <- quitMode, seen <- quitSeen

------------------------------------------------------------------------------
(* The items of a lane.                                                       *)

Items(s) == {s[i] : i \in 1..Len(s)}

LEMMA ItemsOfAppend ==
    ASSUME NEW S, NEW s \in Seq(S), NEW x \in S
    PROVE  Append(s, x) \in Seq(S) /\ Items(Append(s, x)) = Items(s) \union {x}
<1>1. Append(s, x) \in Seq(S) /\ Len(Append(s, x)) = Len(s) + 1 /\ Len(s) \in Nat
  BY AppendProperties, LenProperties
<1>2. Append(s, x)[Len(s) + 1] = x /\ \A i \in 1..Len(s) : Append(s, x)[i] = s[i]
  BY AppendProperties
<1>3. 1..Len(Append(s, x)) = 1..Len(s) \union {Len(s) + 1}
  BY <1>1
<1> QED
  BY <1>1, <1>2, <1>3 DEF Items

LEMMA ItemsOfTail ==
    ASSUME NEW S, NEW s \in Seq(S), s # <<>>
    PROVE  /\ Head(s) \in S /\ Tail(s) \in Seq(S)
           /\ Items(s) = {Head(s)} \union Items(Tail(s))
<1>1. /\ Head(s) \in S /\ Tail(s) \in Seq(S) /\ Len(Tail(s)) = Len(s) - 1
      /\ \A i \in 1..Len(Tail(s)) : Tail(s)[i] = s[i + 1]
  BY HeadTailProperties
<1>2. Len(s) \in Nat \ {0} /\ Head(s) = s[1]
  BY EmptySeq, LenProperties
<1>3. ASSUME NEW i \in 1..Len(s) PROVE s[i] \in {Head(s)} \union Items(Tail(s))
  <2>1. CASE i = 1
    BY <1>2, <2>1
  <2>2. CASE i # 1
    <3>1. i - 1 \in 1..Len(Tail(s)) /\ (i - 1) + 1 = i
      BY <1>1, <1>2, <2>2
    <3>2. Tail(s)[i - 1] = s[i]
      BY <1>1, <3>1
    <3> QED
      BY <3>1, <3>2 DEF Items
  <2> QED
    BY <2>1, <2>2
<1>4. ASSUME NEW i \in 1..Len(Tail(s)) PROVE Tail(s)[i] \in Items(s)
  <2>1. i + 1 \in 1..Len(s)
    BY <1>1, <1>2
  <2> QED
    BY <1>1, <2>1 DEF Items
<1>5. Head(s) \in Items(s)
  BY <1>2 DEF Items
<1> QED
  BY <1>1, <1>3, <1>4, <1>5 DEF Items

\* The timer adds its callback behind what is in the lane.
LEMMA Behind ==
    ASSUME NEW S, Tick \in S, NEW s \in Seq(S), NEW u \in Seq({Tick})
    PROVE  /\ s \o u \in Seq(S)
           /\ Len(s) \in Nat /\ Len(s \o u) \in Nat /\ Len(s) <= Len(s \o u)
           /\ \A i \in 1..Len(s) : (s \o u)[i] = s[i]
           /\ \A i \in Len(s) + 1..Len(s \o u) : (s \o u)[i] = Tick
<1>1. u \in Seq(S)
  BY SeqMonotonic
<1>2. /\ s \o u \in Seq(S) /\ Len(s \o u) = Len(s) + Len(u)
      /\ Len(s) \in Nat /\ Len(u) \in Nat
      /\ \A i \in 1..Len(s) + Len(u) : (s \o u)[i] = IF i <= Len(s) THEN s[i] ELSE u[i - Len(s)]
  BY <1>1, ConcatProperties, LenProperties
<1>3. ASSUME NEW i \in Len(s) + 1..Len(s \o u) PROVE (s \o u)[i] = Tick
  <2>1. i - Len(s) \in 1..Len(u) /\ i \in 1..Len(s) + Len(u) /\ ~(i <= Len(s))
    BY <1>2
  <2>2. u[i - Len(s)] \in {Tick}
    BY <2>1, ElementOfSeq
  <2> QED
    BY <1>2, <2>1, <2>2
<1>4. \A i \in 1..Len(s) : i \in 1..Len(s) + Len(u) /\ i <= Len(s)
  BY <1>2
<1> QED
  BY <1>2, <1>3, <1>4

LEMMA ItemsOfConcat ==
    ASSUME NEW S, Tick \in S, NEW s \in Seq(S), NEW u \in Seq({Tick})
    PROVE  /\ s \o u \in Seq(S)
           /\ Items(s) \subseteq Items(s \o u) /\ Items(s \o u) \subseteq Items(s) \union {Tick}
<1>1. \A i \in 1..Len(s) : i \in 1..Len(s \o u)
  BY Behind
<1>2. \A i \in 1..Len(s \o u) : i \in 1..Len(s) \/ i \in Len(s) + 1..Len(s \o u)
  BY Behind
<1> QED
  BY <1>1, <1>2, Behind DEF Items

LEMMA ItemsOfEmpty == Items(<<>>) = {}
BY DEF Items

LEMMA ItemsTyped ==
    ASSUME NEW S, NEW s \in Seq(S)
    PROVE  Items(s) \subseteq S
BY ElementOfSeq DEF Items
------------------------------------------------------------------------------
(* Type correctness, part by part.                                            *)

\* The burst of callbacks of a due timer is a sequence.
LEMMA TicksAreASequence ==
    ASSUME NEW n \in Nat
    PROVE  [i \in 1..n |-> Tick] \in Seq({Tick})
BY IsASeq

\* The actions that touch the lanes and their histories.
LEMMA LanesFrame ==
    ASSUME [Next]_vars
    PROVE  \/ UNCHANGED lanes
           \/ \E t \in Threads, e \in Events : PostEvent(t, e)
           \/ \E t \in Threads, k \in Tasks : PostTask(t, k)
           \/ TakeTask \/ TakeEvent \/ Plan \/ Destroy
BY DEF Next, vars, Calling, Continue, CallRun, Working, StartTimer, StopTimer, Quit,
       WaitForQuit, SecondRun, WakeUp, SetQuitFlag, SetQuitCode, ResetQuitSemaphore,
       BeginWait, Waiting, WaiterWakesUnasked, RejectedRun, RunAfterQuit, Begin, Run,
       BeginReturns, TestQuit, CallbackReturns, LaneEmpty, Move, SkipSleep, BeginSleep,
       Sleeping, LoopWakesUnasked, EndReturns, TellWaiters, Return, Over

\* A timer that is due adds its callback to the lane of the tasks.
LEMMA PlanLanes ==
    ASSUME LaneTypes, Plan
    PROVE  /\ \E u \in Seq({Tick}) : taskQueue' = taskQueue \o u
           /\ UNCHANGED <<eventQueue, posted, handled>>
<1> DEFINE S == {Tick}
<1>1. CASE UNCHANGED taskQueue
  <2>1. taskQueue' = taskQueue \o <<>> /\ <<>> \in Seq(S)
    BY <1>1, ConcatEmptySeq, EmptySeq DEF LaneTypes
  <2> QED
    BY <2>1 DEF Plan
<1>2. ASSUME NEW n \in 1..(IF timer = "once" THEN 1 ELSE MaxBurst),
             taskQueue' = taskQueue \o [i \in 1..n |-> Tick]
      PROVE  \E u \in Seq(S) : taskQueue' = taskQueue \o u
  <2>1. n \in Nat
    BY <1>2, QueueAssumption
  <2> QED
    BY <1>2, <2>1, TicksAreASequence
<1> QED
  BY <1>1, <1>2 DEF Plan

LEMMA LaneTypesStep == LaneTypes /\ [Next]_vars => LaneTypes'
<1> SUFFICES ASSUME LaneTypes, [Next]_vars PROVE LaneTypes'
  OBVIOUS
<1> DEFINE S == Tasks \union {Tick}
<1>1. CASE UNCHANGED lanes
  BY <1>1 DEF lanes, LaneTypes
<1>2. ASSUME NEW t \in Threads, NEW e \in Events, PostEvent(t, e) PROVE LaneTypes'
  <2>1. Append(eventQueue, e) \in Seq(Events)
    BY ItemsOfAppend DEF LaneTypes
  <2> QED
    BY <1>2, <2>1 DEF PostEvent, LaneTypes, lanes
<1>3. ASSUME NEW t \in Threads, NEW k \in Tasks, PostTask(t, k) PROVE LaneTypes'
  <2>1. Append(taskQueue, k) \in Seq(S)
    BY ItemsOfAppend DEF LaneTypes
  <2> QED
    BY <1>3, <2>1 DEF PostTask, LaneTypes, lanes
<1>4. CASE TakeTask
  <2>1. Head(taskQueue) \in S /\ Tail(taskQueue) \in Seq(S)
    BY <1>4, ItemsOfTail DEF TakeTask, LaneTypes
  <2> QED
    BY <1>4, <2>1 DEF TakeTask, LaneTypes
<1>5. CASE TakeEvent
  BY <1>5, ItemsOfTail DEF TakeEvent, LaneTypes
<1>6. CASE Plan
  <2>1. PICK u \in Seq({Tick}) : taskQueue' = taskQueue \o u
    BY <1>6, PlanLanes
  <2>2. taskQueue \o u \in Seq(S)
    BY ItemsOfConcat DEF LaneTypes
  <2> QED
    BY <1>6, <2>1, <2>2, PlanLanes DEF LaneTypes
<1>7. CASE Destroy
  BY <1>7, EmptySeq DEF Destroy, LaneTypes
<1> QED
  BY <1>1, <1>2, <1>3, <1>4, <1>5, <1>6, <1>7, LanesFrame

LEMMA CallTypesStep == CallTypes /\ [Next]_vars => CallTypes'
<1> SUFFICES ASSUME CallTypes, [Next]_vars PROVE CallTypes'
  OBVIOUS
<1> USE DEF CallTypes, Go, Steps
<1>1. ASSUME NEW t \in Threads, Calling(t) PROVE CallTypes'
  BY <1>1 DEF Calling, PostEvent, PostTask, StartTimer, StopTimer, Quit, WaitForQuit,
              SecondRun, callVars
<1>2. ASSUME NEW t \in Threads, Continue(t) \/ WaiterWakesUnasked(t) PROVE CallTypes'
  BY <1>2 DEF Continue, WakeUp, SetQuitFlag, SetQuitCode, ResetQuitSemaphore, BeginWait,
              Waiting, WaiterWakesUnasked, callVars
<1>3. CASE CallRun \/ Working \/ LoopWakesUnasked \/ Destroy \/ Over \/ UNCHANGED vars
  BY <1>3 DEF Destroy, CallRun, Working, LoopWakesUnasked, Over, vars, callVars, RejectedRun,
              RunAfterQuit, Begin, Run, BeginReturns, TestQuit, TakeTask, TakeEvent,
              CallbackReturns, LaneEmpty, Move, Plan, SkipSleep, BeginSleep, Sleeping,
              EndReturns, TellWaiters, Return
<1> QED
  BY <1>1, <1>2, <1>3 DEF Next

LEMMA QuitTypesStep ==
    LaneTypes /\ CallTypes /\ QuitTypes /\ [Next]_vars => QuitTypes'
<1> SUFFICES ASSUME LaneTypes, CallTypes, QuitTypes, [Next]_vars PROVE QuitTypes'
  OBVIOUS
<1> USE DEF QuitTypes
<1>1. ASSUME NEW t \in Threads, SetQuitFlag(t) PROVE QuitTypes'
  BY <1>1 DEF SetQuitFlag, LaneTypes
<1>2. ASSUME NEW t \in Threads, SetQuitCode(t) PROVE QuitTypes'
  BY <1>2 DEF SetQuitCode, CallTypes
<1>3. CASE UNCHANGED quitVars
  BY <1>3 DEF quitVars
<1> QED
  BY <1>1, <1>2, <1>3 DEF Next, vars, quitVars, Calling, Continue, CallRun, Working,
     PostEvent, PostTask, StartTimer, StopTimer, Quit, WaitForQuit, SecondRun, WakeUp,
     ResetQuitSemaphore, BeginWait, Waiting, WaiterWakesUnasked, RejectedRun,
     RunAfterQuit, Begin, Run, BeginReturns, TestQuit, TakeTask, TakeEvent, CallbackReturns,
     LaneEmpty, Move, Plan, SkipSleep, BeginSleep, Sleeping, LoopWakesUnasked,
     EndReturns, TellWaiters, Return, Destroy, Over

LEMMA RunTypesStep == QuitTypes /\ RunTypes /\ [Next]_vars => RunTypes'
<1> SUFFICES ASSUME QuitTypes, RunTypes, [Next]_vars PROVE RunTypes'
  OBVIOUS
<1>0. UNCHANGED <<runVars, timer>> /\ fate' \in {fate, "terminated"} => RunTypes'
  BY DEF RunTypes, runVars
<1>1. ASSUME NEW t \in Threads, Calling(t) PROVE RunTypes'
  <2>1. CASE \E e \in Events : PostEvent(t, e)
    BY <1>0, <2>1 DEF PostEvent
  <2>2. CASE \E k \in Tasks : PostTask(t, k)
    BY <1>0, <2>2 DEF PostTask
  <2> USE DEF RunTypes, Places
  <2>3. CASE (\E kind \in {"loop", "once"} : StartTimer(t, kind)) \/ StopTimer(t)
    BY <2>3 DEF StartTimer, StopTimer, runVars
  <2>4. CASE (\E n \in Codes : Quit(t, n)) \/ WaitForQuit(t)
    BY <2>4 DEF Quit, WaitForQuit, runVars
  <2>5. CASE SecondRun(t)
    BY <2>5 DEF SecondRun
  <2> QED
    BY <1>1, <2>1, <2>2, <2>3, <2>4, <2>5 DEF Calling
<1>2. ASSUME NEW t \in Threads, Continue(t) \/ WaiterWakesUnasked(t) PROVE RunTypes'
  <2>1. UNCHANGED <<runVars, timer, fate>>
    BY <1>2 DEF Continue, WakeUp, SetQuitFlag, SetQuitCode, ResetQuitSemaphore, BeginWait,
                Waiting, WaiterWakesUnasked
  <2> QED
    BY <1>0, <2>1
<1> USE DEF RunTypes, Places
<1>3. CASE CallRun
  <2>1. CASE RejectedRun
    BY <2>1 DEF RejectedRun, Threads
  <2>2. CASE Run
    BY <2>2 DEF Run, Threads
  <2> QED
    BY <1>3, <2>1, <2>2 DEF CallRun
<1>r. CASE RunAfterQuit \/ Begin
  BY <1>r DEF RunAfterQuit, Begin, QuitTypes
<1>4. CASE BeginReturns \/ TestQuit \/ CallbackReturns \/ LaneEmpty \/ SkipSleep
  <2>1. /\ pc' \in Places /\ final' \in BOOLEAN
        /\ UNCHANGED <<mini, isRunning, workThreadId, returned, timer, fate>>
    BY <1>4 DEF BeginReturns, TestQuit, CallbackReturns, LaneEmpty, SkipSleep, Move, QuitTypes
  <2> QED
    BY <2>1
<1>5. CASE TakeTask \/ TakeEvent
  BY <1>5 DEF TakeTask, TakeEvent
<1>6. CASE Plan
  BY <1>6 DEF Plan
<1>7. CASE BeginSleep \/ Sleeping
  BY <1>7 DEF BeginSleep, Sleeping
<1>8. CASE EndReturns \/ TellWaiters \/ Return
  BY <1>8 DEF EndReturns, TellWaiters, Return, QuitTypes
<1>9. CASE LoopWakesUnasked \/ Destroy \/ Over \/ UNCHANGED vars
  BY <1>9 DEF LoopWakesUnasked, Destroy, Over, vars, runVars
<1> QED
  BY <1>1, <1>2, <1>3, <1>r, <1>4, <1>5, <1>6, <1>7, <1>8, <1>9 DEF Next, Working

\* What happens to the semaphore of the loop.
LEMMA WakeFrame ==
    ASSUME [Next]_vars
    PROVE  \/ UNCHANGED wakeVars
           \/ Wake!Reset(0)
           \/ Wake!Enter(Worker) \/ Wake!Expire(Worker) \/ Wake!Resume(Worker)
           \/ Wake!TimeOut(Worker) \/ Wake!SpuriousWake(Worker)
           \/ BeginSleep
BY DEF Next, vars, wakeVars, Calling, Continue, CallRun, Working, PostEvent, PostTask,
       StartTimer, StopTimer, Quit, WaitForQuit, SecondRun, WakeUp, SetQuitFlag,
       SetQuitCode, ResetQuitSemaphore, BeginWait, Waiting, WaiterWakesUnasked,
       RejectedRun, RunAfterQuit, Begin, Run, BeginReturns, TestQuit, TakeTask, TakeEvent,
       CallbackReturns, LaneEmpty, Move, Plan, SkipSleep, Sleeping,
       LoopWakesUnasked, EndReturns, TellWaiters, Return, Destroy, Over

LEMMA WakeTypesStep == RunTypes /\ Wake!TypeOK /\ [Next]_vars => Wake!TypeOK'
<1> SUFFICES ASSUME RunTypes, Wake!TypeOK, [Next]_vars PROVE Wake!TypeOK'
  OBVIOUS
<1> USE QueueAssumption DEF Wake!TypeOK, Wake!Places, Wake!Modes
<1>1. CASE UNCHANGED wakeVars
  BY <1>1 DEF wakeVars
<1>2. CASE Wake!Reset(0)
  BY <1>2 DEF Wake!Reset, Wake!NotifyAll, Wake!Asleep, Wake!At
<1>3. CASE Wake!Enter(Worker)
  BY <1>3 DEF Wake!Enter
<1>4. CASE Wake!Expire(Worker) \/ Wake!Resume(Worker) \/ Wake!SpuriousWake(Worker)
  BY <1>4 DEF Wake!Expire, Wake!Resume, Wake!SpuriousWake
<1>5. CASE Wake!TimeOut(Worker)
  BY <1>5 DEF Wake!TimeOut
<1>6. CASE BeginSleep
  BY <1>6 DEF BeginSleep, Wake!BeginAcquire, RunTypes
<1> QED
  BY <1>1, <1>2, <1>3, <1>4, <1>5, <1>6, WakeFrame

\* What happens to the semaphore of waitforQuit, and whose call it is.
LEMMA WaitFrame ==
    ASSUME [Next]_vars
    PROVE  \/ UNCHANGED waitVars
           \/ \E t \in Threads : ResetQuitSemaphore(t)
           \/ \E t \in Threads, m \in {"forever", "timed"} : BeginWait(t, m)
           \/ \E t \in Threads : Waiting(t) \/ WaiterWakesUnasked(t)
           \/ TellWaiters
           \/ Destroy
BY DEF Next, vars, waitVars, Calling, Continue, CallRun, Working, PostEvent, PostTask,
       StartTimer, StopTimer, Quit, WaitForQuit, SecondRun, WakeUp, SetQuitFlag,
       SetQuitCode, RejectedRun, RunAfterQuit, Begin, Run, BeginReturns, TestQuit, TakeTask,
       TakeEvent, CallbackReturns, LaneEmpty, Move, Plan, SkipSleep, BeginSleep,
       Sleeping, LoopWakesUnasked, EndReturns, Return, Over

LEMMA WaitTypesStep ==
    QuitSem!TypeOK /\ misled \subseteq Threads /\ [Next]_vars
        => QuitSem!TypeOK' /\ misled' \subseteq Threads
<1> SUFFICES ASSUME QuitSem!TypeOK, misled \subseteq Threads, [Next]_vars
             PROVE  QuitSem!TypeOK' /\ misled' \subseteq Threads
  OBVIOUS
<1>m. misled' \subseteq Threads
  BY WaitFrame DEF waitVars, ResetQuitSemaphore, BeginWait, Waiting, WaiterWakesUnasked,
     TellWaiters, Destroy
<1> SUFFICES QuitSem!TypeOK'
  BY <1>m
<1> USE QueueAssumption DEF QuitSem!TypeOK, QuitSem!Places, QuitSem!Modes
<1>1. CASE UNCHANGED waitVars
  BY <1>1 DEF waitVars
<1>2. CASE QuitSem!Reset(0)
  BY <1>2 DEF QuitSem!Reset, QuitSem!NotifyAll, QuitSem!Asleep, QuitSem!At
<1>3. ASSUME NEW t \in Threads, NEW m \in {"forever", "timed"}, QuitSem!BeginAcquire(t, m)
      PROVE  QuitSem!TypeOK'
  BY <1>3 DEF QuitSem!BeginAcquire
<1>4. ASSUME NEW t \in Threads, QuitSem!Enter(t) PROVE QuitSem!TypeOK'
  BY <1>4 DEF QuitSem!Enter
<1>5. ASSUME NEW t \in Threads, QuitSem!Expire(t) \/ QuitSem!Resume(t) \/ QuitSem!SpuriousWake(t)
      PROVE  QuitSem!TypeOK'
  BY <1>5 DEF QuitSem!Expire, QuitSem!Resume, QuitSem!SpuriousWake
<1>6. ASSUME NEW t \in Threads, QuitSem!TimeOut(t) PROVE QuitSem!TypeOK'
  BY <1>6 DEF QuitSem!TimeOut
<1> QED
  BY <1>1, <1>2, <1>3, <1>4, <1>5, <1>6, WaitFrame
     DEF ResetQuitSemaphore, BeginWait, Waiting, WaiterWakesUnasked, TellWaiters, Destroy

\* Every variable keeps its type: in particular the counters of both semaphores
\* stay in their range, since the loop and the waiters only ever reset them.
THEOREM TypeCorrect == Spec => []TypeOK
<1>1. Init => TypeOK
  <2> SUFFICES ASSUME Init PROVE TypeOK
    OBVIOUS
  <2> USE QueueAssumption DEF Init
  <2>1. LaneTypes
    BY EmptySeq DEF LaneTypes
  <2>2. QuitTypes /\ RunTypes /\ CallTypes
    BY DEF QuitTypes, RunTypes, CallTypes, Places, Steps
  <2>3. Wake!TypeOK /\ QuitSem!TypeOK /\ misled \subseteq Threads
    BY DEF Wake!TypeOK, Wake!Places, Wake!Modes, QuitSem!TypeOK, QuitSem!Places,
           QuitSem!Modes, QuitSem!Init
  <2> QED
    BY <2>1, <2>2, <2>3 DEF TypeOK
<1>2. TypeOK /\ [Next]_vars => TypeOK'
  BY LaneTypesStep, QuitTypesStep, RunTypesStep, CallTypesStep, WakeTypesStep,
     WaitTypesStep DEF TypeOK
<1> QED
  BY <1>1, <1>2, PTL DEF Spec

\* The next post reaches a sleeping loop: while the worker is asleep on
\* eventSemaphore the counter is negative, so a reset notifies it.
THEOREM NoSleeperIsMissed == Spec => []SleeperCanBeWoken
<1>1. Init => SleeperCanBeWoken
  BY DEF Init, SleeperCanBeWoken
<1>2. TypeOK /\ SleeperCanBeWoken /\ [Next]_vars => SleeperCanBeWoken'
  <2> SUFFICES ASSUME Wake!TypeOK, SleeperCanBeWoken, [Next]_vars PROVE SleeperCanBeWoken'
    BY DEF TypeOK
  <2> USE DEF SleeperCanBeWoken, Wake!TypeOK
  <2>1. CASE UNCHANGED wakeVars
    BY <2>1 DEF wakeVars
  <2>2. CASE Wake!Reset(0)
    BY <2>2 DEF Wake!Reset, Wake!NotifyAll, Wake!Asleep, Wake!At
  <2>3. CASE Wake!Enter(Worker)
    BY <2>3 DEF Wake!Enter
  <2>4. CASE Wake!Expire(Worker) \/ Wake!Resume(Worker) \/ Wake!SpuriousWake(Worker)
    BY <2>4 DEF Wake!Expire, Wake!Resume, Wake!SpuriousWake
  <2>5. CASE Wake!TimeOut(Worker)
    BY <2>5 DEF Wake!TimeOut
  <2>6. CASE BeginSleep
    BY <2>6 DEF BeginSleep, Wake!BeginAcquire
  <2> QED
    BY <2>1, <2>2, <2>3, <2>4, <2>5, <2>6, WakeFrame
<1> QED
  BY <1>1, <1>2, TypeCorrect, PTL DEF Spec
------------------------------------------------------------------------------
(* The last processEvent.                                                     *)

\* Steps of a queue that is up, other than its end, leave it up or end the process.
LEMMA FateFrame ==
    ASSUME [Next]_vars
    PROVE  \/ Destroy
           \/ UNCHANGED fate /\ (fate # "up" => UNCHANGED vars)
           \/ fate = "up" /\ fate' = "terminated"
BY DEF Next, vars, Calling, Continue, CallRun, Working, PostEvent, PostTask, StartTimer,
       StopTimer, Quit, WaitForQuit, SecondRun, WakeUp, SetQuitFlag, SetQuitCode,
       ResetQuitSemaphore, BeginWait, Waiting, WaiterWakesUnasked, RejectedRun,
       RunAfterQuit, Begin, Run, BeginReturns, TestQuit, TakeTask, TakeEvent,
       CallbackReturns, LaneEmpty, Move, Plan, SkipSleep, BeginSleep, Sleeping,
       LoopWakesUnasked, EndReturns, TellWaiters, Return, Over, At, In, MayCall

\* Nothing that was pushed to a queue is lost before its end: it is in a lane or
\* has been handled.
Accounted ==
    fate # "destroyed" =>
        posted \subseteq handled \union Items(eventQueue) \union Items(taskQueue)

\* What the last processEvent has done by the time the worker is at pc: once it
\* is past the tasks, the tasks that were due are handled; once it is past the
\* events, so is everything that was due.
LastPass ==
    /\ due \subseteq posted
    /\ final => quitFlag
    /\ pc \in Ended => final
    /\ final /\ pc \in {"events", "event"} => due \intersect Tasks \subseteq handled
    /\ pc \in Ended => due \subseteq handled

LEMMA AccountedStep == LaneTypes /\ Accounted /\ [Next]_vars => Accounted'
<1> SUFFICES ASSUME LaneTypes, Accounted, [Next]_vars PROVE Accounted'
  OBVIOUS
<1>f. CASE fate' = "destroyed"
  BY <1>f DEF Accounted
<1> SUFFICES ASSUME fate' # "destroyed" PROVE Accounted'
  BY <1>f
<1>d. fate # "destroyed"
  BY FateFrame DEF Destroy, vars
<1> DEFINE S == Tasks \union {Tick}
<1>0. taskQueue \in Seq(S) /\ eventQueue \in Seq(Events) /\ Tick \notin posted
  BY QueueAssumption DEF LaneTypes
<1>1. CASE UNCHANGED lanes
  BY <1>d, <1>1 DEF lanes, Accounted
<1>2. ASSUME NEW t \in Threads, NEW e \in Events, PostEvent(t, e) PROVE Accounted'
  <2>1. CASE UNCHANGED lanes
    BY <1>d, <2>1 DEF lanes, Accounted
  <2>2. CASE ~UNCHANGED lanes
    <3>1. /\ eventQueue' = Append(eventQueue, e) /\ posted' = posted \union {e}
          /\ UNCHANGED <<taskQueue, handled>>
      BY <1>2, <2>2 DEF PostEvent
    <3>2. Items(eventQueue') = Items(eventQueue) \union {e}
      BY <1>0, <3>1, ItemsOfAppend
    <3> QED
      BY <1>d, <3>1, <3>2 DEF Accounted
  <2> QED
    BY <2>1, <2>2
<1>3. ASSUME NEW t \in Threads, NEW k \in Tasks, PostTask(t, k) PROVE Accounted'
  <2>1. CASE UNCHANGED lanes
    BY <1>d, <2>1 DEF lanes, Accounted
  <2>2. CASE ~UNCHANGED lanes
    <3>1. /\ taskQueue' = Append(taskQueue, k) /\ posted' = posted \union {k}
          /\ UNCHANGED <<eventQueue, handled>>
      BY <1>3, <2>2 DEF PostTask
    <3>2. Items(taskQueue') = Items(taskQueue) \union {k}
      <4>1. k \in S
        OBVIOUS
      <4> QED
        BY <1>0, <3>1, <4>1, ItemsOfAppend
    <3> QED
      BY <1>d, <3>1, <3>2 DEF Accounted
  <2> QED
    BY <2>1, <2>2
<1>4. CASE TakeTask
  <2>1. /\ taskQueue # <<>> /\ taskQueue' = Tail(taskQueue)
        /\ handled' = (handled \union {Head(taskQueue)}) \ {Tick}
        /\ UNCHANGED <<eventQueue, posted>>
    BY <1>4 DEF TakeTask
  <2>2. Items(taskQueue) = {Head(taskQueue)} \union Items(taskQueue')
    BY <1>0, <2>1, ItemsOfTail
  <2> QED
    BY <1>d, <1>0, <2>1, <2>2 DEF Accounted
<1>5. CASE TakeEvent
  <2>1. /\ eventQueue # <<>> /\ eventQueue' = Tail(eventQueue)
        /\ handled' = handled \union {Head(eventQueue)}
        /\ UNCHANGED <<taskQueue, posted>>
    BY <1>5 DEF TakeEvent
  <2>2. Items(eventQueue) = {Head(eventQueue)} \union Items(eventQueue')
    BY <1>0, <2>1, ItemsOfTail
  <2> QED
    BY <1>d, <2>1, <2>2 DEF Accounted
<1>6. CASE Plan
  <2>1. PICK u \in Seq({Tick}) : taskQueue' = taskQueue \o u
    BY <1>6, PlanLanes
  <2>2. Items(taskQueue) \subseteq Items(taskQueue')
    BY <1>0, <2>1, ItemsOfConcat
  <2>3. UNCHANGED <<eventQueue, posted, handled>>
    BY <1>6, PlanLanes
  <2> QED
    BY <1>d, <2>2, <2>3 DEF Accounted
<1>7. CASE Destroy
  BY <1>7 DEF Destroy
<1> QED
  BY <1>1, <1>2, <1>3, <1>4, <1>5, <1>6, <1>7, LanesFrame

\* Only quit sets the flag and settles what is due.
LEMMA QuitFrame ==
    ASSUME [Next]_vars
    PROVE  \/ UNCHANGED <<quitFlag, due>>
           \/ \E t \in Threads : SetQuitFlag(t)
BY DEF Next, vars, quitVars, Calling, Continue, CallRun, Working,
       PostEvent, PostTask, StartTimer, StopTimer, Quit, WaitForQuit, SecondRun, WakeUp,
       SetQuitCode, ResetQuitSemaphore, BeginWait, Waiting, WaiterWakesUnasked, RejectedRun,
       RunAfterQuit, Begin, Run, BeginReturns, TestQuit, TakeTask, TakeEvent, CallbackReturns,
       LaneEmpty, Move, Plan, SkipSleep, BeginSleep, Sleeping, LoopWakesUnasked,
       EndReturns, TellWaiters, Return, Destroy, Over

\* The histories only grow, the queue stays quit, and what is due is fixed then.
LEMMA HistoriesGrow ==
    ASSUME LaneTypes, LastPass, [Next]_vars
    PROVE  /\ posted \subseteq posted' /\ handled \subseteq handled'
           /\ quitFlag => quitFlag' /\ due' = due
           /\ due' = due \/ due' = posted
<1>1. posted \subseteq posted' /\ handled \subseteq handled'
  <2>1. CASE UNCHANGED lanes
    BY <2>1 DEF lanes
  <2>2. CASE (\E t \in Threads, e \in Events : PostEvent(t, e))
              \/ (\E t \in Threads, k \in Tasks : PostTask(t, k))
    BY <2>2 DEF PostEvent, PostTask, lanes
  <2>3. CASE TakeTask
    BY <2>3, QueueAssumption DEF TakeTask, LaneTypes
  <2>4. CASE TakeEvent \/ Plan \/ Destroy
    BY <2>4 DEF TakeEvent, Plan, Destroy
  <2> QED
    BY <2>1, <2>2, <2>3, <2>4, LanesFrame
<1>2. \/ UNCHANGED <<quitFlag, due>>
      \/ \E t \in Threads : SetQuitFlag(t)
  BY QuitFrame
<1> QED
  BY <1>1, <1>2 DEF SetQuitFlag

\* The steps that move the worker, or leave it where it is.
LEMMA WorkerFrame ==
    ASSUME [Next]_vars
    PROVE  \/ UNCHANGED <<pc, final>>
           \/ Run \/ RunAfterQuit \/ Begin \/ BeginReturns \/ TestQuit
           \/ TakeTask \/ TakeEvent \/ CallbackReturns \/ LaneEmpty \/ Plan \/ SkipSleep \/ BeginSleep
           \/ Sleeping \/ EndReturns \/ TellWaiters \/ Return
BY DEF Next, vars, runVars, Calling, Continue, CallRun, Working, PostEvent, PostTask,
       StartTimer, StopTimer, Quit, WaitForQuit, SecondRun, WakeUp, SetQuitFlag,
       SetQuitCode, ResetQuitSemaphore, BeginWait, Waiting, WaiterWakesUnasked,
       RejectedRun, LoopWakesUnasked, Destroy, Over

LEMMA LastPassStep ==
    LaneTypes /\ QuitTypes /\ Accounted /\ LastPass /\ [Next]_vars => LastPass'
<1> SUFFICES ASSUME LaneTypes, QuitTypes, Accounted, LastPass, [Next]_vars PROVE LastPass'
  OBVIOUS
<1>0. /\ posted \subseteq posted' /\ handled \subseteq handled'
      /\ quitFlag => quitFlag' /\ due' = due
      /\ due' = due \/ due' = posted
  BY HistoriesGrow
<1>d. due' \subseteq posted'
  BY <1>0 DEF LastPass
<1> USE DEF LastPass, Ended
<1>1. CASE UNCHANGED <<pc, final>>
  BY <1>0, <1>d, <1>1
<1>2. CASE Run \/ RunAfterQuit \/ Begin
  BY <1>0, <1>d, <1>2 DEF Run, RunAfterQuit, Begin, At
<1>3. CASE BeginReturns \/ CallbackReturns
  BY <1>0, <1>d, <1>3 DEF BeginReturns, CallbackReturns, Move, At
<1>4. CASE TestQuit
  BY <1>0, <1>d, <1>4 DEF TestQuit, Move, At, quitVars
<1>5. CASE TakeTask \/ TakeEvent
  BY <1>0, <1>d, <1>5 DEF TakeTask, TakeEvent, At
<1>6. CASE LaneEmpty
  <2>1. /\ UNCHANGED <<final, quitFlag, due, handled>>
        /\ \/ taskQueue = <<>> /\ pc = "tasks" /\ pc' = "events"
           \/ eventQueue = <<>> /\ pc = "events" /\ pc' = IF final THEN "end" ELSE "check"
        /\ fate = "up"
    BY <1>6 DEF LaneEmpty, Move, At, In, lanes, quitVars
  <2>2. /\ Items(eventQueue) \subseteq Events
        /\ Items(taskQueue) \subseteq Tasks \union {Tick}
        /\ due \subseteq Events \union Tasks
        /\ Tick \notin Events \union Tasks /\ Events \intersect Tasks = {}
    BY ItemsTyped, QueueAssumption DEF LaneTypes, QuitTypes
  <2>3. due \subseteq handled \union Items(eventQueue) \union Items(taskQueue)
    BY <2>1 DEF Accounted
  <2>4. CASE taskQueue = <<>> /\ pc = "tasks" /\ pc' = "events"
    <3>1. due \intersect Tasks \subseteq handled
      BY <2>2, <2>3, <2>4, ItemsOfEmpty
    <3> QED
      BY <1>d, <2>1, <2>4, <3>1
  <2>5. CASE eventQueue = <<>> /\ pc = "events" /\ pc' = IF final THEN "end" ELSE "check"
    <3>1. final => due \subseteq handled
      <4>1. ASSUME final, NEW x \in due PROVE x \in handled
        <5>1. x \in Tasks => x \in handled
          BY <2>5, <4>1
        <5>2. x \in handled \union Items(taskQueue)
          BY <2>3, <2>5, <4>1, ItemsOfEmpty
        <5> QED
          BY <2>2, <4>1, <5>1, <5>2
      <4> QED
        BY <4>1
    <3> QED
      BY <1>d, <2>1, <2>5, <3>1
  <2> QED
    BY <2>1, <2>4, <2>5
<1>7. CASE Plan \/ SkipSleep \/ BeginSleep
  BY <1>0, <1>d, <1>7 DEF Plan, SkipSleep, BeginSleep, Move, At
<1>8. CASE Sleeping
  BY <1>0, <1>d, <1>8 DEF Sleeping, At
<1>9. CASE EndReturns \/ TellWaiters \/ Return
  BY <1>0, <1>d, <1>9 DEF EndReturns, TellWaiters, Return, At
<1> QED
  BY <1>1, <1>2, <1>3, <1>4, <1>5, <1>6, <1>7, <1>8, <1>9, WorkerFrame

\* The inductive invariant behind the two theorems below, as one fact.
LEMMA LastPassHolds == Spec => [](Accounted /\ LastPass)
<1>1. Init => Accounted /\ LastPass
  BY DEF Init, Accounted, LastPass, Ended
<1>2. TypeOK /\ Accounted /\ LastPass /\ [Next]_vars => (Accounted /\ LastPass)'
  BY AccountedStep, LastPassStep DEF TypeOK
<1> QED
  BY <1>1, <1>2, TypeCorrect, PTL DEF Spec

\* Whatever was posted before the flag of quit was set has been handled when
\* end() is called: nothing that was accepted is dropped by quitting.
THEOREM QuitDrains == Spec => []DrainedBeforeEnd
<1>1. LastPass => DrainedBeforeEnd
  BY DEF LastPass, DrainedBeforeEnd
<1> QED
  BY <1>1, LastPassHolds, PTL
------------------------------------------------------------------------------
(* The code that run returns.                                                 *)

\* Unless a call of quit is between its two stores, the code is one it stored.
CodeSettled ==
    quitFlag /\ (\A t \in Threads : step[t] # "setCode") => quitCode \in requested

LEMMA CodeSettles == Spec => []CodeSettled
<1>1. Init => CodeSettled
  BY DEF Init, CodeSettled
<1>2. TypeOK /\ CodeSettled /\ [Next]_vars => CodeSettled'
  <2> SUFFICES ASSUME CallTypes, CodeSettled, [Next]_vars PROVE CodeSettled'
    BY DEF TypeOK
  <2> USE DEF CodeSettled, CallTypes, Go
  <2>1. ASSUME NEW t \in Threads, SetQuitFlag(t) PROVE CodeSettled'
    <3>1. step'[t] = "setCode"
      BY <2>1 DEF SetQuitFlag
    <3> QED
      BY <3>1
  <2>2. ASSUME NEW t \in Threads, SetQuitCode(t) PROVE CodeSettled'
    <3>1. quitCode' \in requested'
      BY <2>2 DEF SetQuitCode
    <3> QED
      BY <3>1
  <2>3. ASSUME UNCHANGED quitVars, \A t \in Threads : step[t] = "setCode" => step'[t] = step[t]
        PROVE  CodeSettled'
    BY <2>3 DEF quitVars
  <2>4. ASSUME NEW t \in Threads, Calling(t) PROVE CodeSettled'
    <3>1. UNCHANGED quitVars
      BY <2>4 DEF Calling, PostEvent, PostTask, StartTimer, StopTimer, Quit, WaitForQuit,
                  SecondRun
    <3>2. step[t] = "free" /\ (step' = step \/ \E s \in Steps : step' = [step EXCEPT ![t] = s])
      BY <2>4 DEF Calling, MayCall, In, PostEvent, PostTask, StartTimer, StopTimer, Quit,
                  WaitForQuit, SecondRun, callVars, Steps
    <3> QED
      BY <2>3, <3>1, <3>2
  <2>5. ASSUME NEW t \in Threads,
               WakeUp(t) \/ ResetQuitSemaphore(t) \/ Waiting(t) \/ WaiterWakesUnasked(t)
                 \/ \E m \in {"forever", "timed"} : BeginWait(t, m)
        PROVE  CodeSettled'
    <3>1. UNCHANGED quitVars
      BY <2>5 DEF WakeUp, ResetQuitSemaphore, Waiting, WaiterWakesUnasked, BeginWait
    <3>2. /\ step[t] # "setCode"
          /\ step' = step \/ \E s \in Steps : step' = [step EXCEPT ![t] = s]
      BY <2>5 DEF WakeUp, ResetQuitSemaphore, Waiting, WaiterWakesUnasked, BeginWait, In,
                  callVars, Steps
    <3> QED
      BY <2>3, <3>1, <3>2
  <2>6. CASE CallRun \/ Working \/ LoopWakesUnasked \/ Destroy \/ Over \/ UNCHANGED vars
    <3>1. UNCHANGED <<quitVars, step>>
      BY <2>6 DEF Destroy, CallRun, Working, LoopWakesUnasked, Over, vars, callVars,
              RejectedRun, RunAfterQuit, Begin, Run, BeginReturns, TestQuit, TakeTask, TakeEvent,
              CallbackReturns, LaneEmpty, Move, Plan, SkipSleep, BeginSleep, Sleeping,
              EndReturns, TellWaiters, Return
    <3> QED
      BY <2>3, <3>1
  <2> QED
    BY <2>1, <2>2, <2>4, <2>5, <2>6 DEF Next, Continue
<1> QED
  BY <1>1, <1>2, TypeCorrect, PTL DEF Spec

\* Lines 95 and 110: run returns a code quit was given, except in the window
\* between the two stores of some quit (lines 131-132).
THEOREM RunReturnsTheCode == Spec => ReturnsRequestedCode
<1>1. TypeOK /\ Accounted /\ LastPass /\ pc = "returning" => quitFlag
  BY DEF LastPass, Ended
<1>2. TypeOK /\ Accounted /\ LastPass /\ CodeSettled /\ [Next]_vars =>
        [(Return \/ RunAfterQuit) /\ (\A t \in Threads : step[t] # "setCode")
            => returned' \in requested]_vars
  BY <1>1 DEF CodeSettled, Return, RunAfterQuit, At
<1> QED
  BY <1>2, TypeCorrect, LastPassHolds, CodeSettles, PTL DEF Spec, ReturnsRequestedCode
------------------------------------------------------------------------------
(* waitforQuit.                                                               *)

\* Where a caller of waitforQuit is: inside the semaphore only in its last step.
WaiterPlaces ==
    \A t \in Threads :
        /\ step[t] \in {"resetQuit", "toWait", "waiting"} => t \in Waiters
        /\ step[t] # "waiting" => quitCall[t] = "idle"

\* A call moves only its own thread, never into the semaphore.
LEMMA CallsStayOutside ==
    ASSUME NEW t \in Threads, Calling(t)
    PROVE  /\ step[t] = "free" /\ UNCHANGED waitVars
           /\ \/ step' = step
              \/ \E s \in {"wake", "setFlag"} : step' = [step EXCEPT ![t] = s]
              \/ t \in Waiters /\ step' = [step EXCEPT ![t] = "resetQuit"]
BY DEF Calling, MayCall, In, Go, PostEvent, PostTask, StartTimer, StopTimer, Quit,
       WaitForQuit, SecondRun, callVars

\* The worker makes no step of a call.
LEMMA WorkerIsNoCaller ==
    ASSUME CallRun \/ Working \/ LoopWakesUnasked \/ Destroy \/ Over \/ UNCHANGED vars
    PROVE  UNCHANGED step /\ (UNCHANGED waitVars \/ TellWaiters \/ Destroy)
BY DEF Destroy, CallRun, Working, LoopWakesUnasked, Over, vars, callVars, RejectedRun,
       RunAfterQuit, Begin, Run, BeginReturns, TestQuit, TakeTask, TakeEvent, CallbackReturns,
       LaneEmpty, Move, Plan, SkipSleep, BeginSleep, Sleeping, EndReturns, TellWaiters,
       Return

\* A reset of quitSemaphore notifies sleepers and nobody else.
LEMMA ResetNotifiesSleepers ==
    ASSUME QuitSem!TypeOK, QuitSem!Reset(0), NEW t \in Threads
    PROVE  /\ quitCall[t] = "idle" => quitCall'[t] = "idle"
           /\ quitCall'[t] = "notified" => quitCall[t] \in {"asleep", "notified"}
           /\ quitSeen' = quitSeen
BY DEF QuitSem!TypeOK, QuitSem!Reset, QuitSem!NotifyAll, QuitSem!Asleep, QuitSem!At

LEMMA WaiterPlacesStep ==
    CallTypes /\ QuitSem!TypeOK /\ WaiterPlaces /\ [Next]_vars => WaiterPlaces'
<1> SUFFICES ASSUME CallTypes, QuitSem!TypeOK, WaiterPlaces, [Next]_vars
             PROVE  WaiterPlaces'
  OBVIOUS
<1> USE DEF WaiterPlaces, CallTypes
<1>1. ASSUME NEW t \in Threads, Calling(t) PROVE WaiterPlaces'
  BY <1>1, CallsStayOutside DEF waitVars
<1>2. ASSUME NEW t \in Threads, WakeUp(t) \/ SetQuitFlag(t) \/ SetQuitCode(t)
      PROVE  WaiterPlaces'
  BY <1>2 DEF WakeUp, SetQuitFlag, SetQuitCode, waitVars, Go, In
<1>3. ASSUME NEW t \in Threads, ResetQuitSemaphore(t) PROVE WaiterPlaces'
  <2>1. step[t] = "resetQuit" /\ step' = [step EXCEPT ![t] = "toWait"] /\ QuitSem!Reset(0)
    BY <1>3 DEF ResetQuitSemaphore, In, Go
  <2> QED
    BY <2>1, ResetNotifiesSleepers
<1>4. ASSUME NEW t \in Threads, NEW m \in {"forever", "timed"}, BeginWait(t, m)
      PROVE  WaiterPlaces'
  BY <1>4 DEF BeginWait, QuitSem!BeginAcquire, QuitSem!TypeOK, In, Go
<1>5. ASSUME NEW t \in Threads, Waiting(t) PROVE WaiterPlaces'
  <2>1. /\ step[t] = "waiting"
        /\ step' = [step EXCEPT ![t] = IF quitCall'[t] = "idle" THEN "free" ELSE "waiting"]
        /\ \A u \in Threads : u # t => quitCall'[u] = quitCall[u]
    BY <1>5 DEF Waiting, QuitSem!Enter, QuitSem!Expire, QuitSem!Resume, QuitSem!TimeOut,
                QuitSem!TypeOK, In, Go
  <2> QED
    BY <2>1
<1>6. ASSUME NEW t \in Threads, WaiterWakesUnasked(t) PROVE WaiterPlaces'
  BY <1>6 DEF WaiterWakesUnasked, QuitSem!SpuriousWake, QuitSem!TypeOK, In, callVars
<1>7. CASE CallRun \/ Working \/ LoopWakesUnasked \/ Destroy \/ Over \/ UNCHANGED vars
  <2>1. UNCHANGED step /\ (UNCHANGED waitVars \/ TellWaiters \/ Destroy)
    BY <1>7, WorkerIsNoCaller
  <2>2. CASE UNCHANGED waitVars
    BY <2>1, <2>2 DEF waitVars
  <2>3. CASE TellWaiters \/ Destroy
    BY <2>1, <2>3, ResetNotifiesSleepers DEF TellWaiters, Destroy
  <2> QED
    BY <2>1, <2>2, <2>3
<1> QED
  BY <1>1, <1>2, <1>3, <1>4, <1>5, <1>6, <1>7 DEF Next, Continue

\* A queue that was quit and has stopped stays so.
LEMMA StoppedIsFinal ==
    ASSUME LaneTypes, LastPass, [Next]_vars, quitFlag, pc \in {"returning", "out", "entering"}
    PROVE  quitFlag' /\ pc' \in {"returning", "out", "entering"}
<1>1. quitFlag'
  BY HistoriesGrow
<1> QED
  BY <1>1, WorkerFrame DEF Run, RunAfterQuit, Begin, BeginReturns, TestQuit, TakeTask,
     TakeEvent, CallbackReturns, LaneEmpty, Move, Plan, SkipSleep, BeginSleep, Sleeping,
     EndReturns, TellWaiters, Return, At

\* However many threads wait: a waitforQuit woken by the reset of run -- not by
\* that of another waitforQuit, by its deadline or for no reason -- finds the
\* queue stopped: end() has returned and no callback runs (lines 106-109 against
\* 147-152).
THEOREM WaitEndsAfterRun == Spec => []WaiterSeesTheEnd
<1> DEFINE Inv == WaiterPlaces /\ WaiterSeesTheEnd
<1>1. Init => Inv
  <2>1. Waiters \subseteq Threads
    BY QueueAssumption
  <2> QED
    BY <2>1 DEF Init, QuitSem!Init, WaiterPlaces, WaiterSeesTheEnd
<1>2. TypeOK /\ LastPass /\ Inv /\ [Next]_vars => Inv'
  <2> SUFFICES ASSUME TypeOK, LastPass, WaiterPlaces, WaiterSeesTheEnd, [Next]_vars
               PROVE  WaiterPlaces' /\ WaiterSeesTheEnd'
    OBVIOUS
  <2>t. LaneTypes /\ CallTypes /\ QuitSem!TypeOK
    BY DEF TypeOK
  <2>p. WaiterPlaces'
    BY <2>t, WaiterPlacesStep
  <2>w. Waiters \subseteq Threads
    BY QueueAssumption
  <2>s. SUFFICES ASSUME NEW t \in Waiters, quitCall'[t] = "notified", t \notin misled'
                 PROVE  quitFlag' /\ pc' \in {"returning", "out", "entering"}
    BY <2>p DEF WaiterSeesTheEnd
  <2>0. t \in Threads
    BY <2>w
  <2>1. CASE quitCall[t] = "notified" /\ t \notin misled
    BY <2>t, <2>1, StoppedIsFinal DEF WaiterSeesTheEnd
  <2>2. CASE TellWaiters
    <3>1. pc = "stopped" /\ pc' = "returning" /\ quitFlag' = quitFlag
      BY <2>2 DEF TellWaiters, At, quitVars
    <3>2. quitFlag
      BY <3>1 DEF LastPass, Ended
    <3> QED
      BY <3>1, <3>2
  <2>3. ASSUME NEW u \in Threads, ResetQuitSemaphore(u)
        PROVE  quitCall[t] = "notified" /\ t \notin misled
    BY <2>0, <2>s, <2>3 DEF ResetQuitSemaphore
  <2>4. ASSUME NEW u \in Threads, NEW m \in {"forever", "timed"}, BeginWait(u, m)
        PROVE  quitCall[t] = "notified" /\ t \notin misled
    BY <2>0, <2>t, <2>s, <2>4 DEF BeginWait, QuitSem!BeginAcquire, QuitSem!TypeOK
  <2>5. ASSUME NEW u \in Threads, Waiting(u) PROVE quitCall[t] = "notified" /\ t \notin misled
    BY <2>0, <2>t, <2>s, <2>5 DEF Waiting, QuitSem!Enter, QuitSem!Expire, QuitSem!Resume,
       QuitSem!TimeOut, QuitSem!TypeOK
  <2>6. ASSUME NEW u \in Threads, WaiterWakesUnasked(u)
        PROVE  quitCall[t] = "notified" /\ t \notin misled
    BY <2>0, <2>t, <2>s, <2>6 DEF WaiterWakesUnasked, QuitSem!SpuriousWake, QuitSem!TypeOK
  <2>7. CASE Destroy
    <3>1. /\ step[t] = "free" /\ QuitSem!Reset(0)
      BY <2>0, <2>7 DEF Destroy
    <3> QED
      BY <2>0, <2>t, <2>s, <3>1, ResetNotifiesSleepers DEF WaiterPlaces
  <2>8. CASE UNCHANGED waitVars
    BY <2>s, <2>8, <2>1 DEF waitVars
  <2> QED
    BY <2>1, <2>2, <2>3, <2>4, <2>5, <2>6, <2>7, <2>8, WaitFrame
<1> QED
  BY <1>1, <1>2, TypeCorrect, LastPassHolds, PTL DEF Spec
------------------------------------------------------------------------------
(* The order of a lane.                                                       *)

\* Nothing but the timer's callback is twice in a lane.
Once(s) == \A i, j \in 1..Len(s) : i # j => s[i] # s[j] \/ s[i] = Tick

LEMMA OnceOfAppend ==
    ASSUME NEW S, NEW s \in Seq(S), NEW x \in S, Once(s), x \notin Items(s)
    PROVE  Once(Append(s, x))
<1>1. /\ Len(s) \in Nat /\ Len(Append(s, x)) = Len(s) + 1
      /\ \A i \in 1..Len(s) : Append(s, x)[i] = s[i] /\ s[i] # x
      /\ Append(s, x)[Len(s) + 1] = x
  BY AppendProperties, LenProperties DEF Items
<1>2. \A i \in 1..Len(Append(s, x)) : i \in 1..Len(s) \/ i = Len(s) + 1
  BY <1>1
<1> QED
  BY <1>1, <1>2 DEF Once

LEMMA OnceOfTail ==
    ASSUME NEW S, NEW s \in Seq(S), s # <<>>, Once(s)
    PROVE  /\ Once(Tail(s))
           /\ Head(s) = Tick \/ Head(s) \notin Items(Tail(s))
<1>1. /\ 1 \in 1..Len(s) /\ Head(s) = s[1]
      /\ \A i \in 1..Len(Tail(s)) :
            i \in Nat /\ i + 1 \in 1..Len(s) /\ i + 1 # 1 /\ Tail(s)[i] = s[i + 1]
  BY HeadTailProperties, EmptySeq, LenProperties
<1>2. ASSUME NEW i \in 1..Len(Tail(s)), NEW j \in 1..Len(Tail(s)), i # j
      PROVE  Tail(s)[i] # Tail(s)[j] \/ Tail(s)[i] = Tick
  <2>1. i + 1 # j + 1
    BY <1>1, <1>2
  <2>2. s[i + 1] # s[j + 1] \/ s[i + 1] = Tick
    BY <1>1, <2>1 DEF Once
  <2> QED
    BY <1>1, <2>2
<1>3. ASSUME NEW i \in 1..Len(Tail(s)), Head(s) # Tick PROVE Tail(s)[i] # Head(s)
  BY <1>1, <1>3 DEF Once
<1> QED
  BY <1>2, <1>3 DEF Once, Items

LEMMA OnceOfConcat ==
    ASSUME NEW S, Tick \in S, NEW s \in Seq(S), NEW u \in Seq({Tick}), Once(s)
    PROVE  Once(s \o u)
<1>1. \A i \in 1..Len(s \o u) :
         \/ i \in 1..Len(s) /\ (s \o u)[i] = s[i]
         \/ (s \o u)[i] = Tick
  BY Behind
<1> QED
  BY <1>1 DEF Once

LEMMA AheadIsInside ==
    ASSUME NEW S, NEW s \in Seq(S), NEW x
    PROVE  /\ AheadIn(s, x) \subseteq Items(s)
           /\ x \notin Items(s) => AheadIn(s, x) = {}
<1>1. \A i \in 1..Len(s) : \A j \in i + 1..Len(s) : j \in 1..Len(s)
  BY LenProperties
<1> QED
  BY <1>1 DEF AheadIn, Items

\* A new item has the whole lane ahead of it.
LEMMA AheadOfAppend ==
    ASSUME NEW S, NEW s \in Seq(S), NEW x \in S, x \notin Items(s), NEW y
    PROVE  AheadIn(Append(s, x), y) = IF y = x THEN Items(s) ELSE AheadIn(s, y)
<1> DEFINE n == Len(s)
           a == Append(s, x)
<1>1. /\ n \in Nat /\ Len(a) = n + 1 /\ a[n + 1] = x
      /\ \A i \in 1..n : a[i] = s[i] /\ s[i] # x
  BY AppendProperties, LenProperties DEF Items
<1> HIDE DEF a, n
<1>2. CASE y = x
  <2>1. AheadIn(a, y) = {a[i] : i \in 1..n}
    <3>1. \A i \in 1..n + 1 : (\E j \in i + 1..n + 1 : a[j] = x) <=> i \in 1..n
      BY <1>1
    <3>2. {i \in 1..n + 1 : \E j \in i + 1..n + 1 : a[j] = x} = 1..n
      BY <1>1, <3>1
    <3> QED
      BY <1>1, <1>2, <3>2 DEF AheadIn
  <2>2. {a[i] : i \in 1..n} = Items(s)
    BY <1>1 DEF Items, n
  <2> QED
    BY <1>2, <2>1, <2>2 DEF a
<1>3. CASE y # x
  <2>1. \A i \in 1..n + 1 :
           (\E j \in i + 1..n + 1 : a[j] = y) <=> i \in 1..n /\ \E j \in i + 1..n : s[j] = y
    BY <1>1, <1>3
  <2>2. AheadIn(a, y) = {a[i] : i \in {i \in 1..n : \E j \in i + 1..n : s[j] = y}}
    <3>1. {i \in 1..n + 1 : \E j \in i + 1..n + 1 : a[j] = y}
            = {i \in 1..n : \E j \in i + 1..n : s[j] = y}
      BY <1>1, <2>1
    <3> QED
      BY <1>1, <3>1 DEF AheadIn
  <2>3. AheadIn(s, y) = {s[i] : i \in {i \in 1..n : \E j \in i + 1..n : s[j] = y}}
    BY DEF AheadIn, n
  <2>4. AheadIn(a, y) = AheadIn(s, y)
    BY <1>1, <2>2, <2>3
  <2> QED
    BY <1>3, <2>4 DEF a
<1> QED
  BY <1>2, <1>3

\* The front leaves everybody's way.
LEMMA AheadOfTail ==
    ASSUME NEW S, NEW s \in Seq(S), s # <<>>, NEW y
    PROVE  AheadIn(s, y)
             = AheadIn(Tail(s), y) \union (IF y \in Items(Tail(s)) THEN {Head(s)} ELSE {})
<1> DEFINE n == Len(s)
           r == Tail(s)
<1>1. /\ n \in Nat /\ n >= 1 /\ Len(r) = n - 1 /\ Head(s) = s[1]
      /\ \A i \in 1..n - 1 : r[i] = s[i + 1]
  BY HeadTailProperties, EmptySeq, LenProperties
<1> HIDE DEF n, r
<1>2. AheadIn(s, y) = {s[i] : i \in {i \in 1..n : \E j \in i + 1..n : s[j] = y}}
  BY DEF AheadIn, n
<1>3. AheadIn(r, y) = {r[i] : i \in {i \in 1..n - 1 : \E j \in i + 1..n - 1 : r[j] = y}}
  BY <1>1 DEF AheadIn
<1>4. Items(r) = {r[i] : i \in 1..n - 1}
  BY <1>1 DEF Items
<1>5. (\E j \in 2..n : s[j] = y) <=> y \in Items(r)
  <2>1. ASSUME NEW j \in 2..n PROVE j - 1 \in 1..n - 1 /\ r[j - 1] = s[j]
    BY <1>1
  <2>2. ASSUME NEW i \in 1..n - 1 PROVE i + 1 \in 2..n /\ r[i] = s[i + 1]
    BY <1>1
  <2> QED
    BY <1>4, <2>1, <2>2
<1>6. ASSUME NEW i \in 1..n - 1
      PROVE  (\E j \in i + 1..n - 1 : r[j] = y) <=> (\E j \in (i + 1) + 1..n : s[j] = y)
  <2>1. ASSUME NEW j \in (i + 1) + 1..n PROVE j - 1 \in i + 1..n - 1 /\ r[j - 1] = s[j]
    BY <1>1
  <2>2. ASSUME NEW j \in i + 1..n - 1 PROVE j + 1 \in (i + 1) + 1..n /\ r[j] = s[j + 1]
    BY <1>1
  <2> QED
    BY <2>1, <2>2
<1>7. ASSUME NEW z \in AheadIn(s, y)
      PROVE  z \in AheadIn(r, y) \/ (y \in Items(r) /\ z = Head(s))
  <2>1. PICK i \in 1..n : z = s[i] /\ \E j \in i + 1..n : s[j] = y
    BY <1>2
  <2>2. CASE i = 1
    <3>1. i + 1 = 2
      BY <2>2
    <3> QED
      BY <1>1, <1>5, <2>1, <2>2, <3>1
  <2>3. CASE i # 1
    <3>1. i - 1 \in 1..n - 1 /\ (i - 1) + 1 = i
      BY <1>1, <2>3
    <3>2. r[i - 1] = z /\ \E j \in (i - 1) + 1..n - 1 : r[j] = y
      BY <1>1, <1>6, <2>1, <3>1
    <3> QED
      BY <1>3, <3>1, <3>2
  <2> QED
    BY <2>2, <2>3
<1>8. ASSUME NEW z \in AheadIn(r, y) PROVE z \in AheadIn(s, y)
  <2>1. PICK i \in 1..n - 1 : z = r[i] /\ \E j \in i + 1..n - 1 : r[j] = y
    BY <1>3
  <2>2. i + 1 \in 1..n /\ z = s[i + 1] /\ \E j \in (i + 1) + 1..n : s[j] = y
    BY <1>1, <1>6, <2>1
  <2> QED
    BY <1>2, <2>2
<1>9. ASSUME y \in Items(r) PROVE Head(s) \in AheadIn(s, y)
  <2>1. 1 \in 1..n /\ 1 + 1 = 2 /\ \E j \in 2..n : s[j] = y
    BY <1>1, <1>5, <1>9
  <2> QED
    BY <1>1, <1>2, <2>1
<1> QED
  BY <1>7, <1>8, <1>9 DEF r

\* The timer's callbacks are in nobody's way, and nobody is in theirs.
LEMMA AheadOfConcat ==
    ASSUME NEW S, Tick \in S, NEW s \in Seq(S), NEW u \in Seq({Tick}), NEW y, y # Tick
    PROVE  AheadIn(s \o u, y) = AheadIn(s, y)
<1> DEFINE c == s \o u
           n == Len(s)
           m == Len(c)
<1>1. /\ n \in Nat /\ m \in Nat /\ n <= m
      /\ \A i \in 1..n : c[i] = s[i]
      /\ \A i \in n + 1..m : c[i] = Tick
  BY Behind
<1> HIDE DEF c, n, m
<1>2. AheadIn(c, y) = {c[i] : i \in {i \in 1..m : \E j \in i + 1..m : c[j] = y}}
  BY DEF AheadIn, m
<1>3. AheadIn(s, y) = {s[i] : i \in {i \in 1..n : \E j \in i + 1..n : s[j] = y}}
  BY DEF AheadIn, n
<1>4. \A i \in 1..m : (\E j \in i + 1..m : c[j] = y) <=> i \in 1..n /\ \E j \in i + 1..n : s[j] = y
  BY <1>1
<1>5. {i \in 1..m : \E j \in i + 1..m : c[j] = y} = {i \in 1..n : \E j \in i + 1..n : s[j] = y}
  BY <1>1, <1>4
<1> DEFINE T == {i \in 1..n : \E j \in i + 1..n : s[j] = y}
<1>6. {c[i] : i \in T} = {s[i] : i \in T}
  <2>1. \A i \in T : c[i] = s[i]
    BY <1>1
  <2> HIDE DEF T
  <2> QED
    BY <2>1
<1>7. AheadIn(c, y) = {c[i] : i \in T}
  BY <1>2, <1>5
<1>8. AheadIn(s, y) = {s[i] : i \in T}
  BY <1>3
<1>9. AheadIn(c, y) = AheadIn(s, y)
  BY <1>6, <1>7, <1>8
<1> QED
  BY <1>9 DEF c

LEMMA AheadOfFront ==
    ASSUME NEW S, NEW s \in Seq(S), s # <<>>, Once(s)
    PROVE  /\ Head(s) # Tick => AheadIn(s, Head(s)) = {}
           /\ \A y : AheadIn(Tail(s), y) \ {Tick} = (AheadIn(s, y) \ {Head(s)}) \ {Tick}
<1>1. Tail(s) \in Seq(S) /\ (Head(s) = Tick \/ Head(s) \notin Items(Tail(s)))
  BY OnceOfTail, ItemsOfTail
<1>2. ASSUME Head(s) # Tick PROVE AheadIn(s, Head(s)) = {}
  <2>1. Head(s) \notin Items(Tail(s))
    BY <1>1, <1>2
  <2>2. AheadIn(Tail(s), Head(s)) = {}
    BY <1>1, <2>1, AheadIsInside
  <2>3. AheadIn(s, Head(s)) = AheadIn(Tail(s), Head(s))
          \union (IF Head(s) \in Items(Tail(s)) THEN {Head(s)} ELSE {})
    BY AheadOfTail
  <2> QED
    BY <2>1, <2>2, <2>3
<1>3. ASSUME NEW y PROVE AheadIn(Tail(s), y) \ {Tick} = (AheadIn(s, y) \ {Head(s)}) \ {Tick}
  <2>1. AheadIn(Tail(s), y) \subseteq Items(Tail(s))
    BY <1>1, AheadIsInside
  <2>2. AheadIn(s, y)
          = AheadIn(Tail(s), y) \union (IF y \in Items(Tail(s)) THEN {Head(s)} ELSE {})
    BY AheadOfTail
  <2> QED
    BY <1>1, <2>1, <2>2
<1> QED
  BY <1>2, <1>3

\* What is in a lane was posted and has not been handled.
LanesHold ==
    /\ handled \subseteq posted
    /\ Items(eventQueue) \subseteq posted \ handled /\ Once(eventQueue)
    /\ Items(taskQueue) \ {Tick} \subseteq posted \ handled /\ Once(taskQueue)

LEMMA LanesApart ==
    ASSUME LaneTypes
    PROVE  /\ Items(eventQueue) \subseteq Events /\ Items(taskQueue) \subseteq Tasks \union {Tick}
           /\ Tick \notin Events /\ Tick \notin Tasks /\ Events \intersect Tasks = {}
           /\ Tick \notin posted /\ Tick \notin handled
BY ItemsTyped, QueueAssumption DEF LaneTypes

LEMMA LanesHoldStep == LaneTypes /\ LanesHold /\ [Next]_vars => LanesHold'
<1> SUFFICES ASSUME LaneTypes, LanesHold, [Next]_vars PROVE LanesHold'
  OBVIOUS
<1> DEFINE S == Tasks \union {Tick}
<1>0. taskQueue \in Seq(S) /\ eventQueue \in Seq(Events)
  BY DEF LaneTypes
<1>1. CASE UNCHANGED lanes
  BY <1>1 DEF lanes, LanesHold
<1>2. ASSUME NEW t \in Threads, NEW e \in Events, PostEvent(t, e), ~UNCHANGED lanes
      PROVE  LanesHold'
  <2>1. /\ eventQueue' = Append(eventQueue, e) /\ posted' = posted \union {e}
        /\ UNCHANGED <<taskQueue, handled>> /\ e \notin posted
    BY <1>2 DEF PostEvent
  <2>2. e \notin Items(eventQueue)
    BY <2>1 DEF LanesHold
  <2>3. Items(eventQueue') = Items(eventQueue) \union {e} /\ Once(eventQueue')
    BY <1>0, <2>1, <2>2, ItemsOfAppend, OnceOfAppend DEF LanesHold
  <2> QED
    BY <2>1, <2>3 DEF LanesHold
<1>3. ASSUME NEW t \in Threads, NEW k \in Tasks, PostTask(t, k), ~UNCHANGED lanes
      PROVE  LanesHold'
  <2>1. /\ taskQueue' = Append(taskQueue, k) /\ posted' = posted \union {k}
        /\ UNCHANGED <<eventQueue, handled>> /\ k \notin posted
    BY <1>3 DEF PostTask
  <2>2. k \in S /\ k \notin Items(taskQueue)
    BY <2>1, LanesApart DEF LanesHold
  <2>3. Items(taskQueue') = Items(taskQueue) \union {k} /\ Once(taskQueue')
    BY <1>0, <2>1, <2>2, ItemsOfAppend, OnceOfAppend DEF LanesHold
  <2> QED
    BY <2>1, <2>3 DEF LanesHold
<1>4. CASE TakeTask
  <2>1. /\ taskQueue # <<>> /\ taskQueue' = Tail(taskQueue)
        /\ handled' = (handled \union {Head(taskQueue)}) \ {Tick}
        /\ UNCHANGED <<eventQueue, posted>>
    BY <1>4 DEF TakeTask
  <2>2. Items(taskQueue) = {Head(taskQueue)} \union Items(taskQueue')
    BY <1>0, <2>1, ItemsOfTail
  <2>3. Once(taskQueue') /\ (Head(taskQueue) = Tick \/ Head(taskQueue) \notin Items(taskQueue'))
    BY <1>0, <2>1, OnceOfTail DEF LanesHold
  <2> QED
    BY <2>1, <2>2, <2>3, LanesApart DEF LanesHold
<1>5. CASE TakeEvent
  <2>1. /\ eventQueue # <<>> /\ eventQueue' = Tail(eventQueue)
        /\ handled' = handled \union {Head(eventQueue)}
        /\ UNCHANGED <<taskQueue, posted>>
    BY <1>5 DEF TakeEvent
  <2>2. Items(eventQueue) = {Head(eventQueue)} \union Items(eventQueue')
    BY <1>0, <2>1, ItemsOfTail
  <2>3. Once(eventQueue') /\ (Head(eventQueue) = Tick \/ Head(eventQueue) \notin Items(eventQueue'))
    BY <1>0, <2>1, OnceOfTail DEF LanesHold
  <2> QED
    BY <2>1, <2>2, <2>3, LanesApart DEF LanesHold
<1>6. CASE Plan
  <2>1. PICK u \in Seq({Tick}) : taskQueue' = taskQueue \o u
    BY <1>6, PlanLanes
  <2>2. Items(taskQueue') \subseteq Items(taskQueue) \union {Tick} /\ Once(taskQueue')
    BY <1>0, <2>1, ItemsOfConcat, OnceOfConcat DEF LanesHold
  <2>3. UNCHANGED <<eventQueue, posted, handled>>
    BY <1>6, PlanLanes
  <2> QED
    BY <2>2, <2>3 DEF LanesHold
<1>7. CASE Destroy
  BY <1>7, ItemsOfEmpty DEF Destroy, LanesHold, Once
<1> QED
  BY <1>1, <1>2, <1>3, <1>4, <1>5, <1>6, <1>7, LanesFrame

LEMMA LanesAreHeld == Spec => []LanesHold
<1>1. Init => LanesHold
  BY ItemsOfEmpty DEF Init, LanesHold, Once
<1>2. TypeOK /\ LanesHold /\ [Next]_vars => LanesHold'
  BY LanesHoldStep DEF TypeOK
<1> QED
  BY <1>1, <1>2, TypeCorrect, PTL DEF Spec
------------------------------------------------------------------------------
(* The promise.                                                               *)

\* What is pending is what the lanes hold, the timer's callbacks aside.
LEMMA PendingIsInTheLanes ==
    ASSUME LaneTypes, LanesHold, Accounted, fate = "up"
    PROVE  /\ Pending = Items(eventQueue) \union (Items(taskQueue) \ {Tick})
           /\ Pending \intersect Events = Items(eventQueue)
           /\ Pending \intersect Tasks = Items(taskQueue) \ {Tick}
<1>1. Pending = Items(eventQueue) \union (Items(taskQueue) \ {Tick})
  BY LanesApart DEF Pending, LanesHold, Accounted
<1> QED
  BY <1>1, LanesApart

\* A post is accepted behind what is pending in its lane, or ends the process.
LEMMA PostIsAccepted ==
    ASSUME LaneTypes, LanesHold, Accounted, NEW t \in Threads,
           (\E e \in Events : PostEvent(t, e)) \/ (\E k \in Tasks : PostTask(t, k))
    PROVE  \/ UNCHANGED Promise!promiseVars
           \/ \E lane \in {Events, Tasks} : \E x \in lane : Promise!Accept(lane, x)
<1> DEFINE S == Tasks \union {Tick}
           All == Events \union Tasks
<1>0. taskQueue \in Seq(S) /\ eventQueue \in Seq(Events)
  BY DEF LaneTypes
<1>f. fate = "up" /\ fate' # "destroyed"
  BY DEF PostEvent, PostTask, MayCall, In
<1>1. CASE UNCHANGED lanes
  <2>1. UNCHANGED <<pc, quitFlag, due>>
    BY DEF PostEvent, PostTask, quitVars, runVars
  <2> QED
    BY <1>f, <1>1, <2>1 DEF lanes, Promise!promiseVars, Phase, Pending, Ahead, Owed
<1>2. ASSUME NEW e \in Events, PostEvent(t, e), ~UNCHANGED lanes
      PROVE  Promise!Accept(Events, e)
  <2>1. /\ eventQueue' = Append(eventQueue, e) /\ posted' = posted \union {e}
        /\ UNCHANGED <<taskQueue, handled, pc, quitFlag, due>> /\ e \notin posted
    BY <1>2 DEF PostEvent, quitVars, runVars
  <2>2. e \notin handled /\ e \notin Items(eventQueue) /\ e \notin Items(taskQueue) /\ e # Tick
    BY <2>1, LanesApart DEF LanesHold
  <2>3. Pending' = Pending \union {e} /\ e \notin Pending \union handled
    BY <1>f, <2>1, <2>2 DEF Pending
  <2>4. ASSUME NEW y \in All
        PROVE  (AheadIn(eventQueue', y) \union AheadIn(taskQueue', y)) \ {Tick}
                 = IF y = e THEN Pending \intersect Events
                   ELSE (AheadIn(eventQueue, y) \union AheadIn(taskQueue, y)) \ {Tick}
    <3>1. AheadIn(eventQueue', y) = IF y = e THEN Items(eventQueue) ELSE AheadIn(eventQueue, y)
      BY <1>0, <2>1, <2>2, AheadOfAppend
    <3>2. y = e => AheadIn(taskQueue', y) = {}
      BY <1>0, <2>1, <2>2, AheadIsInside
    <3>3. Pending \intersect Events = Items(eventQueue) \ {Tick}
      BY <1>f, PendingIsInTheLanes, LanesApart
    <3> QED
      BY <2>1, <3>1, <3>2, <3>3
  <2>5. Ahead' = [Ahead EXCEPT ![e] = Pending \intersect Events]
    BY <2>4 DEF Ahead
  <2> QED
    BY <1>f, <2>1, <2>3, <2>5 DEF Promise!Accept, Phase, Owed, Ended
<1>3. ASSUME NEW k \in Tasks, PostTask(t, k), ~UNCHANGED lanes
      PROVE  Promise!Accept(Tasks, k)
  <2>1. /\ taskQueue' = Append(taskQueue, k) /\ posted' = posted \union {k}
        /\ UNCHANGED <<eventQueue, handled, pc, quitFlag, due>> /\ k \notin posted
    BY <1>3 DEF PostTask, quitVars, runVars
  <2>2. k \notin handled /\ k \notin Items(eventQueue) /\ k \notin Items(taskQueue) /\ k # Tick
    BY <2>1, LanesApart DEF LanesHold
  <2>3. Pending' = Pending \union {k} /\ k \notin Pending \union handled
    BY <1>f, <2>1, <2>2 DEF Pending
  <2>4. ASSUME NEW y \in All
        PROVE  (AheadIn(eventQueue', y) \union AheadIn(taskQueue', y)) \ {Tick}
                 = IF y = k THEN Pending \intersect Tasks
                   ELSE (AheadIn(eventQueue, y) \union AheadIn(taskQueue, y)) \ {Tick}
    <3>1. AheadIn(taskQueue', y) = IF y = k THEN Items(taskQueue) ELSE AheadIn(taskQueue, y)
      <4>1. k \in S
        OBVIOUS
      <4> QED
        BY <1>0, <2>1, <2>2, <4>1, AheadOfAppend
    <3>2. y = k => AheadIn(eventQueue', y) = {}
      BY <1>0, <2>1, <2>2, AheadIsInside
    <3>3. Pending \intersect Tasks = Items(taskQueue) \ {Tick}
      BY <1>f, PendingIsInTheLanes
    <3> QED
      BY <2>1, <3>1, <3>2, <3>3
  <2>5. Ahead' = [Ahead EXCEPT ![k] = Pending \intersect Tasks]
    BY <2>4 DEF Ahead
  <2> QED
    BY <1>f, <2>1, <2>3, <2>5 DEF Promise!Accept, Phase, Owed, Ended
<1> QED
  BY <1>1, <1>2, <1>3

\* A callback of the timer is no item; what else the worker takes is the oldest
\* pending item of its lane.
LEMMA TakenIsHandled ==
    ASSUME LaneTypes, LanesHold, TakeTask \/ TakeEvent
    PROVE  \/ UNCHANGED Promise!promiseVars
           \/ \E x \in UNION {Events, Tasks} : Promise!Handle(x)
<1> DEFINE S == Tasks \union {Tick}
           All == Events \union Tasks
<1>0. taskQueue \in Seq(S) /\ eventQueue \in Seq(Events)
  BY DEF LaneTypes
<1>f. fate = "up" /\ fate' = "up"
  BY DEF TakeTask, TakeEvent, At, In
<1>1. CASE TakeTask
  <2> DEFINE x == Head(taskQueue)
  <2>1. /\ taskQueue # <<>> /\ taskQueue' = Tail(taskQueue)
        /\ handled' = (handled \union {x}) \ {Tick}
        /\ UNCHANGED <<eventQueue, posted, quitFlag, due>>
        /\ pc = "tasks" /\ pc' = "task"
    BY <1>1 DEF TakeTask, At, quitVars
  <2>2. Phase = "running" /\ Phase' = "running"
    BY <1>f, <2>1 DEF Phase, Ended
  <2>3. x \in S /\ x \in Items(taskQueue)
    BY <1>0, <2>1, ItemsOfTail
  <2>4. /\ x # Tick => AheadIn(taskQueue, x) = {}
        /\ \A y : AheadIn(taskQueue', y) \ {Tick} = (AheadIn(taskQueue, y) \ {x}) \ {Tick}
    BY <1>0, <2>1, AheadOfFront DEF LanesHold
  <2>5. \A y : AheadIn(eventQueue, y) \subseteq Events
    BY <1>0, AheadIsInside, LanesApart
  <2> HIDE DEF x
  <2>6. \A y \in All : Ahead'[y] = Ahead[y] \ {x}
    BY <2>1, <2>3, <2>4, <2>5, LanesApart DEF Ahead
  <2>7. CASE x = Tick
    <3>1. handled' = handled
      BY <2>1, <2>7, LanesApart
    <3>2. Ahead' = Ahead
      BY <2>6, <2>7 DEF Ahead
    <3> QED
      BY <1>f, <2>1, <2>2, <3>1, <3>2 DEF Promise!promiseVars, Pending, Owed
  <2>8. CASE x # Tick
    <3>1. x \in Tasks /\ x \in Pending /\ handled' = handled \union {x}
      BY <1>f, <2>1, <2>3, <2>8, LanesApart DEF LanesHold, Pending
    <3>2. Ahead[x] = {}
      <4>1. AheadIn(eventQueue, x) = {}
        BY <1>0, <3>1, AheadIsInside, LanesApart
      <4> QED
        BY <2>4, <2>8, <3>1, <4>1 DEF Ahead
    <3>3. Ahead' = [y \in All |-> Ahead[y] \ {x}]
      BY <2>6 DEF Ahead
    <3>4. Pending' = Pending \ {x} /\ Owed' = Owed \ {x}
      BY <1>f, <2>1, <3>1 DEF Pending, Owed
    <3>5. All = UNION {Events, Tasks}
      OBVIOUS
    <3>6. Promise!Handle(x)
      BY <2>1, <2>2, <3>1, <3>2, <3>3, <3>4, <3>5 DEF Promise!Handle, Promise!Items
    <3> QED
      BY <3>1, <3>6
  <2> QED
    BY <2>7, <2>8
<1>2. CASE TakeEvent
  <2> DEFINE x == Head(eventQueue)
  <2>1. /\ eventQueue # <<>> /\ eventQueue' = Tail(eventQueue)
        /\ handled' = handled \union {x}
        /\ UNCHANGED <<taskQueue, posted, quitFlag, due>>
        /\ pc = "events" /\ pc' = "event"
    BY <1>2 DEF TakeEvent, At, quitVars
  <2>2. Phase = "running" /\ Phase' = "running"
    BY <1>f, <2>1 DEF Phase, Ended
  <2>3. x \in Events /\ x \in Items(eventQueue) /\ x # Tick
    BY <1>0, <2>1, ItemsOfTail, LanesApart
  <2>4. /\ AheadIn(eventQueue, x) = {}
        /\ \A y : AheadIn(eventQueue', y) \ {Tick} = (AheadIn(eventQueue, y) \ {x}) \ {Tick}
    BY <1>0, <2>1, <2>3, AheadOfFront DEF LanesHold
  <2>5. \A y : AheadIn(taskQueue, y) \subseteq S
    BY <1>0, AheadIsInside, LanesApart
  <2> HIDE DEF x
  <2>6. \A y \in All : Ahead'[y] = Ahead[y] \ {x}
    BY <2>1, <2>3, <2>4, <2>5, LanesApart DEF Ahead
  <2>7. x \in Pending
    BY <1>f, <2>3 DEF LanesHold, Pending
  <2>8. Ahead[x] = {}
    <3>1. AheadIn(taskQueue, x) = {}
      BY <1>0, <2>3, AheadIsInside, LanesApart
    <3> QED
      BY <2>3, <2>4, <3>1 DEF Ahead
  <2>9. Ahead' = [y \in All |-> Ahead[y] \ {x}]
    BY <2>6 DEF Ahead
  <2>10. Pending' = Pending \ {x} /\ Owed' = Owed \ {x}
    BY <1>f, <2>1 DEF Pending, Owed
  <2>11. All = UNION {Events, Tasks}
    OBVIOUS
  <2>12. Promise!Handle(x)
    BY <2>1, <2>2, <2>7, <2>8, <2>9, <2>10, <2>11 DEF Promise!Handle, Promise!Items
  <2> QED
    BY <2>3, <2>12
<1> QED
  BY <1>1, <1>2
------------------------------------------------------------------------------
\* A timer that is due puts its callback in nobody's way.
LEMMA PlanIsInvisible ==
    ASSUME LaneTypes, Plan
    PROVE  UNCHANGED Promise!promiseVars
<1>1. PICK u \in Seq({Tick}) : taskQueue' = taskQueue \o u
  BY PlanLanes
<1>2. UNCHANGED <<eventQueue, posted, handled, quitFlag, due>> /\ pc = "plan" /\ pc' = "sleep" /\ UNCHANGED fate
  BY DEF Plan, At, quitVars
<1>3. \A y \in Events \union Tasks : AheadIn(taskQueue', y) = AheadIn(taskQueue, y)
  BY <1>1, AheadOfConcat, LanesApart DEF LaneTypes
<1>4. Ahead' = Ahead
  BY <1>2, <1>3 DEF Ahead
<1> QED
  BY <1>2, <1>4 DEF Promise!promiseVars, Phase, Ended, Pending, Owed

\* The worker goes from one phase to the next: it ends when nothing is owed.
LEMMA WorkerKeepsPromise ==
    ASSUME LastPass', UNCHANGED lanes, UNCHANGED <<quitFlag, due>>,
           fate # "destroyed", fate' # "destroyed",
           \/ UNCHANGED <<pc, final>>
           \/ Run \/ RunAfterQuit \/ Begin \/ BeginReturns \/ TestQuit \/ CallbackReturns \/ LaneEmpty
           \/ SkipSleep \/ BeginSleep \/ Sleeping \/ EndReturns \/ TellWaiters \/ Return
    PROVE  Promise!Start \/ Promise!Finish \/ Promise!Leave \/ UNCHANGED Promise!promiseVars
<1>1. UNCHANGED <<Pending, Ahead, handled, quitFlag, Owed>>
  BY DEF lanes, Pending, Ahead, Owed
<1>2. CASE Phase' = Phase
  BY <1>1, <1>2 DEF Promise!promiseVars
<1>3. CASE Begin
  BY <1>1, <1>3 DEF Begin, At, Phase, Ended, Promise!Start
<1>4. CASE Return
  BY <1>1, <1>4 DEF Return, At, Phase, Ended, Promise!Leave
<1>5. CASE LaneEmpty /\ Phase' # Phase
  <2>1. pc \in {"tasks", "events"} /\ pc' = "end"
    BY <1>5 DEF LaneEmpty, Move, At, Phase, Ended
  <2>2. Phase = "running" /\ Phase' = "ended"
    BY <2>1 DEF Phase, Ended
  <2>3. quitFlag /\ Owed = {}
    BY <1>1, <2>1 DEF LastPass, Ended, Owed
  <2> QED
    BY <1>1, <2>2, <2>3 DEF Promise!Finish
<1>6. CASE UNCHANGED <<pc, final>>
  BY <1>2, <1>6 DEF Phase
<1>7. CASE Run \/ RunAfterQuit \/ BeginReturns \/ TestQuit \/ CallbackReturns \/ SkipSleep
  BY <1>2, <1>7 DEF Run, RunAfterQuit, BeginReturns, TestQuit, CallbackReturns, SkipSleep, Move, At, Phase, Ended
<1>8. CASE BeginSleep \/ Sleeping \/ EndReturns \/ TellWaiters
  BY <1>2, <1>8 DEF BeginSleep, Sleeping, EndReturns, TellWaiters, At, Phase, Ended
<1> QED
  BY <1>2, <1>3, <1>4, <1>5, <1>6, <1>7, <1>8

LEMMA StepKeepsPromise ==
    LaneTypes /\ LanesHold /\ Accounted /\ LastPass' /\ [Next]_vars
        => [Promise!PromiseNext]_(Promise!promiseVars)
<1> SUFFICES ASSUME LaneTypes, LanesHold, Accounted, LastPass', [Next]_vars
             PROVE  Promise!PromiseNext \/ UNCHANGED Promise!promiseVars
  OBVIOUS
<1>1. ASSUME NEW t \in Threads,
             (\E e \in Events : PostEvent(t, e)) \/ (\E k \in Tasks : PostTask(t, k))
      PROVE  Promise!PromiseNext \/ UNCHANGED Promise!promiseVars
  BY <1>1, PostIsAccepted DEF Promise!PromiseNext
<1>2. CASE TakeTask \/ TakeEvent
  BY <1>2, TakenIsHandled DEF Promise!PromiseNext, Promise!Items
<1>3. CASE Plan
  BY <1>3, PlanIsInvisible
<1>4. ASSUME NEW t \in Threads, SetQuitFlag(t)
      PROVE  Promise!PromiseNext \/ UNCHANGED Promise!promiseVars
  <2>1. /\ UNCHANGED lanes /\ UNCHANGED <<pc, fate>> /\ fate = "up"
        /\ quitFlag' = TRUE /\ due' = IF quitFlag THEN due ELSE posted
    BY <1>4 DEF SetQuitFlag, runVars, In
  <2>2. UNCHANGED <<Phase, Pending, Ahead, handled>>
    BY <2>1 DEF lanes, Phase, Pending, Ahead
  <2>3. CASE quitFlag
    BY <2>1, <2>2, <2>3 DEF lanes, Owed, Promise!promiseVars
  <2>4. CASE ~quitFlag
    <3>1. Owed' = Pending
      BY <2>1, <2>4 DEF lanes, Owed, Pending
    <3>2. Promise!Ask
      BY <2>1, <2>2, <2>4, <3>1 DEF Promise!Ask, Phase, Ended
    <3> QED
      BY <3>2 DEF Promise!PromiseNext
  <2> QED
    BY <2>3, <2>4
<1>6. CASE Destroy
  <2>1. /\ fate = "up" /\ pc = "out" /\ fate' = "destroyed"
        /\ eventQueue' = <<>> /\ taskQueue' = <<>> /\ UNCHANGED <<handled, quitFlag>>
    BY <1>6 DEF Destroy, quitVars
  <2>2. Phase = "idle" /\ Phase' = "closed" /\ Pending' = {} /\ Owed' = {}
    BY <2>1 DEF Phase, Pending, Owed
  <2>3. Ahead' = [x \in UNION {Events, Tasks} |-> {}]
    <3>1. \A x \in Events \union Tasks : AheadIn(eventQueue', x) = {} /\ AheadIn(taskQueue', x) = {}
      BY <2>1 DEF AheadIn
    <3> QED
      BY <3>1 DEF Ahead
  <2>4. Promise!Close
    BY <2>1, <2>2, <2>3 DEF Promise!Close, Promise!Items
  <2> QED
    BY <2>4 DEF Promise!PromiseNext
<1>7. CASE UNCHANGED vars
  <2>1. UNCHANGED <<lanes, pc, fate, quitFlag, due>>
    BY <1>7 DEF vars, runVars, quitVars
  <2> QED
    BY <2>1 DEF lanes, Promise!promiseVars, Phase, Pending, Ahead, Owed
<1>5. CASE UNCHANGED lanes /\ UNCHANGED <<quitFlag, due>> /\ ~Destroy /\ ~UNCHANGED vars
  <2>f. fate # "destroyed" /\ fate' # "destroyed"
    BY <1>5, FateFrame
  <2>1. CASE TakeTask \/ TakeEvent \/ Plan
    BY <1>2, <1>3, <2>1
  <2>2. CASE ~(TakeTask \/ TakeEvent \/ Plan)
    <3>1. Promise!Start \/ Promise!Finish \/ Promise!Leave \/ UNCHANGED Promise!promiseVars
      BY <1>5, <2>f, <2>2, WorkerFrame, WorkerKeepsPromise
    <3> QED
      BY <3>1 DEF Promise!PromiseNext
  <2> QED
    BY <2>1, <2>2
<1> QED
  BY <1>1, <1>2, <1>3, <1>4, <1>5, <1>6, <1>7, LanesFrame, QuitFrame

\* The event loop keeps what EventLoop promises, whoever posts, quits, waits or
\* starts timers meanwhile: an item is handled once, in the order of its lane and
\* inside run (lines 236-291), and run ends after all that was posted before the
\* flag of quit was set (lines 98-107).
THEOREM ImplementsEventLoop == Spec => KeepsLoopPromise
<1>1. Init => Promise!PromiseInit
  <2> SUFFICES ASSUME Init PROVE Promise!PromiseInit
    OBVIOUS
  <2>1. \A y : AheadIn(eventQueue, y) = {} /\ AheadIn(taskQueue, y) = {}
    BY DEF Init, AheadIn
  <2>2. Ahead = [y \in Events \union Tasks |-> {}]
    BY <2>1 DEF Ahead
  <2>3. Events \union Tasks = UNION {Events, Tasks}
    OBVIOUS
  <2> QED
    BY <2>2, <2>3 DEF Init, Promise!PromiseInit, Promise!Items, Phase, Pending, Owed
<1>2. TypeOK /\ LanesHold /\ Accounted /\ LastPass' /\ [Next]_vars
        => [[Promise!PromiseNext]_(Promise!promiseVars)]_vars
  BY StepKeepsPromise DEF TypeOK
<1> QED
  BY <1>1, <1>2, TypeCorrect, LanesAreHeld, LastPassHolds, PTL DEF Spec, KeepsLoopPromise
------------------------------------------------------------------------------
(* The two semaphores.                                                        *)

LEMMA SemaphoreIsGiven == QP!SemaphoreAssumption
<1>1. IsFiniteSet(Callers \union {Worker})
  BY QueueAssumption, FS_AddElement
<1> QED
  BY <1>1, QueueAssumption DEF QP!SemaphoreAssumption, Threads, QP!IsFiniteSet, IsFiniteSet

\* The loop and the callers of waitforQuit use their semaphores as module
\* Semaphore allows, whatever else happens to the queue: what is proved of a
\* Semaphore holds of quitSemaphore.
THEOREM UsesSemaphores == Spec => QP!Spec /\ [][Wake!Next]_wakeVars
<1>1. Init => QP!Init
  BY DEF Init, QuitSem!Init, QP!Init
<1>2. [Next]_vars => [QP!Next]_(QP!vars)
  <2> SUFFICES ASSUME [Next]_vars PROVE QP!Next \/ UNCHANGED QP!vars
    OBVIOUS
  <2>1. CASE UNCHANGED waitVars
    BY <2>1 DEF waitVars, QP!vars
  <2>2. CASE QuitSem!Reset(0)
    BY <2>2 DEF QuitSem!Reset, QuitSem!NotifyAll, QuitSem!Asleep, QuitSem!At,
       QP!Next, QP!Reset, QP!NotifyAll, QP!Asleep, QP!At
  <2>3. ASSUME NEW t \in Threads, NEW m \in {"forever", "timed"}, BeginWait(t, m)
        PROVE  QP!Next
    <3>1. QP!BeginAcquire(t, m) /\ m \in QP!Modes
      BY <2>3 DEF BeginWait, QuitSem!BeginAcquire, QP!BeginAcquire, QP!Modes
    <3> QED
      BY <3>1 DEF QP!Next
  <2>4. ASSUME NEW t \in Threads, Waiting(t) \/ WaiterWakesUnasked(t) PROVE QP!Next
    <3>1. QP!Enter(t) \/ QP!Expire(t) \/ QP!Resume(t) \/ QP!TimeOut(t) \/ QP!SpuriousWake(t)
      BY <2>4 DEF Waiting, WaiterWakesUnasked, QuitSem!Enter, QuitSem!Expire,
         QuitSem!Resume, QuitSem!TimeOut, QuitSem!SpuriousWake, QP!Enter, QP!Expire,
         QP!Resume, QP!TimeOut, QP!SpuriousWake
    <3> QED
      BY <3>1 DEF QP!Next
  <2> QED
    BY <2>1, <2>2, <2>3, <2>4, WaitFrame DEF ResetQuitSemaphore, TellWaiters, Destroy
<1>3. TypeOK /\ [Next]_vars => [Wake!Next]_wakeVars
  <2> SUFFICES ASSUME RunTypes, [Next]_vars PROVE Wake!Next \/ UNCHANGED wakeVars
    BY DEF TypeOK
  <2>1. CASE BeginSleep
    BY <2>1 DEF BeginSleep, RunTypes, Wake!Next, Wake!Modes
  <2> QED
    BY <2>1, WakeFrame DEF Wake!Next
<1> QED
  BY <1>1, <1>2, <1>3, TypeCorrect, PTL DEF Spec, QP!Spec

\* The end of run reaches every thread that waits, however many there are, as
\* long as no deadline of a wait has passed: its late increment could hide a
\* sleeper from the reset (semaphore.cpp:45).
RunTellsEveryWaiter ==
    [][TellWaiters /\ "deadline" \notin quitSeen
         => \A t \in Threads : quitCall'[t] # "asleep"]_vars

\* Line 109 leaves nobody asleep in waitforQuit.
THEOREM EndReachesWaiters == Spec => RunTellsEveryWaiter
<1>1. Spec => []QP!NoStrandedSleeper
  BY SemaphoreIsGiven, QP!SleepersAreCounted, UsesSemaphores, PTL
<1>2. TypeOK /\ QP!NoStrandedSleeper /\ [Next]_vars
        => [TellWaiters /\ "deadline" \notin quitSeen
              => \A t \in Threads : quitCall'[t] # "asleep"]_vars
  <2> SUFFICES ASSUME QuitSem!TypeOK, QP!NoStrandedSleeper, TellWaiters,
                      "deadline" \notin quitSeen, NEW t \in Threads
               PROVE  quitCall'[t] # "asleep"
    BY DEF TypeOK
  <2> DEFINE A == QP!Asleep
  <2>1. QuitSem!Reset(0)
    BY DEF TellWaiters
  <2>2. A \in SUBSET Threads
    BY DEF QP!Asleep, QP!At
  <2>3. CASE t \in A
    <3>1. QP!Cardinality(A \ {t}) = QP!Cardinality(A) - 1
      BY <2>2, <2>3, SemaphoreIsGiven, QP!OneCaller
    <3>2. QP!Cardinality(A) \in Nat /\ QP!Cardinality(A \ {t}) \in Nat
      <4>1. A \ {t} \in SUBSET Threads
        BY <2>2
      <4> QED
        BY <2>2, <4>1, SemaphoreIsGiven, QP!CallersFinite
    <3>3. quitCount <= -QP!Cardinality(A) /\ quitCount \in Int
      BY <2>3 DEF QP!NoStrandedSleeper, QuitSem!TypeOK
    <3>4. quitCount < 0
      BY <3>1, <3>2, <3>3
    <3> QED
      BY <2>1, <3>4 DEF QuitSem!Reset, QuitSem!NotifyAll, QuitSem!Asleep, QuitSem!At
  <2>4. CASE t \notin A
    <3>1. quitCall[t] # "asleep"
      BY <2>4 DEF QP!Asleep, QP!At
    <3> QED
      BY <2>1, <3>1 DEF QuitSem!TypeOK, QuitSem!Reset, QuitSem!NotifyAll, QuitSem!Asleep,
         QuitSem!At
  <2> QED
    BY <2>3, <2>4
<1> QED
  BY <1>1, <1>2, TypeCorrect, PTL DEF Spec, RunTellsEveryWaiter
===============================================================================
