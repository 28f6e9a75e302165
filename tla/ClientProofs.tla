----------------------------- MODULE ClientProofs -----------------------------
(* What holds of a client program for any signals, however many arrive and    *)
(* whichever thread and handler they interrupt.  Its two semaphores are used  *)
(* as module Semaphore allows, so what SemaphoreProofs proves holds of them.  *)
EXTENDS Client, FiniteSetTheorems, SequenceTheorems, TLAPS

SP == INSTANCE SemaphoreProofs
    WITH Threads <- {Main}, InitialCount <- 0, ResetCounts <- {0}, CountBound <- 1
IP == INSTANCE SemaphoreProofs
    WITH Threads <- {Main}, InitialCount <- 0, ResetCounts <- {0}, CountBound <- 1,
         count <- icount, call <- icall, mode <- imode, seen <- iseen

Actors == {Main, Other}
Call == [code: Signals, place: {"store", "reset", "locked"}]

ClientType ==
    /\ mutex \in {Free} \union (Actors \X Nat)
    /\ exec \in {"parse", "call", "locked", "done"}
    /\ exitCode \in Signals \union {0} /\ result \in Signals \union {0, -1}
    /\ handlers \in [Actors -> Seq(Call)]
    /\ asked \subseteq Signals /\ arrived \in Nat
    /\ connected \in BOOLEAN /\ returned \in BOOLEAN /\ sawConnect \in BOOLEAN
    /\ backend \in {"idle", "report", "callback", "reset"} /\ detector \in BOOLEAN
    /\ waiting \in {"idle", "tested", "acquire"}

SemTypes == SP!TypeOK /\ IP!TypeOK
TypeOK == SemTypes /\ ClientType
------------------------------------------------------------------------------
(* The inductive invariant.                                                   *)

\* What exit is about to store, exit was called with; and once it was stored,
\* m_exitCode is such a code.
CodesInv ==
    \A t \in Actors : \A i \in 1..Len(handlers[t]) :
        /\ handlers[t][i].code \in asked
        /\ handlers[t][i].place # "store" => exitCode \in asked

\* Only a handler that has stored its code wakes exec.
WokenInv == call[Main] = "notified" /\ "spurious" \notin seen => exitCode \in asked

\* The mutex is held by exec, or by the handler that is in the critical section.
MutexInv ==
    /\ exec = "locked" <=> mutex = <<Main, 0>>
    /\ \A t \in Actors : \A i \in 1..Len(handlers[t]) :
          handlers[t][i].place = "locked" <=> mutex = <<t, i>>
    /\ mutex # Free /\ mutex # <<Main, 0>> => mutex[2] \in 1..Len(handlers[mutex[1]])

\* The semaphore of exec is acquired without a deadline.
PatientInv == "deadline" \notin seen /\ mode[Main] = "forever"

\* A waiter is in the semaphore while it says so; a connection that stands was
\* seen, and so was the one that woke it.
WaitInv ==
    /\ waiting = "acquire" <=> icall[Main] # "idle"
    /\ waiting # "idle" /\ connected => sawConnect
    /\ icall[Main] = "notified" /\ "spurious" \notin iseen => sawConnect

Inv == ClientType /\ CodesInv /\ WokenInv /\ MutexInv /\ PatientInv /\ WaitInv
         /\ ReturnsACode /\ TrueMeansConnected
------------------------------------------------------------------------------
(* Both semaphores are used as semaphores.                                    *)

LEMMA SemaphoresAreGiven == SP!SemaphoreAssumption /\ IP!SemaphoreAssumption
<1>1. IsFiniteSet({Main})
  BY FS_Singleton
<1> QED
  BY <1>1 DEF SP!SemaphoreAssumption, SP!IsFiniteSet, IP!SemaphoreAssumption,
     IP!IsFiniteSet, IsFiniteSet

LEMMA InitIsGiven == Init => SP!Init /\ IP!Init
BY DEF Init, Semaphone!Init, Sema!Init, SP!Init, IP!Init

\* A step of exec, of exit or of a signal is one of m_semaphone, or none.
LEMMA ProgramStep == Program => [SP!Next]_(SP!vars)
<1> USE DEF semVars, SP!vars
<1>1. CASE ParserFlag \/ Lock
  BY <1>1 DEF ParserFlag, Lock
<1>2. CASE BeginAcquire
  BY <1>2 DEF BeginAcquire, Semaphone!BeginAcquire, SP!BeginAcquire, SP!Next, SP!Modes
<1>3. CASE Enter
  BY <1>3 DEF Enter, Semaphone!Enter, SP!Enter, SP!Next
<1>4. CASE Return
  BY <1>4 DEF Return, Semaphone!Resume, SP!Resume, SP!Next
<1>5. CASE SpuriousWake
  BY <1>5 DEF SpuriousWake, Semaphone!SpuriousWake, SP!SpuriousWake, SP!Next
<1>6. CASE \E t \in Actors : \/ StoreCode(t) \/ LockReset(t)
                             \/ \E s \in Signals : Signal(t, s)
  BY <1>6 DEF StoreCode, LockReset, Signal
<1>7. CASE \E t \in Actors : Reset(t)
  BY <1>7 DEF Reset, Semaphone!Reset, Semaphone!NotifyAll, Semaphone!Asleep, Semaphone!At,
     SP!Reset, SP!NotifyAll, SP!Asleep, SP!At, SP!Next
<1> QED
  BY <1>1, <1>2, <1>3, <1>4, <1>5, <1>6, <1>7 DEF Program, Exec, Exit, Actors

\* A step of waitForConnected or of the backend is one of m_sema, or none.
LEMMA InterfaceStep == Interface => [IP!Next]_(IP!vars)
<1> USE DEF iVars, IP!vars
<1>1. CASE Test \/ Poll \/ Change \/ DetectConnect \/ Detect \/ DetectorReturns
  BY <1>1 DEF Test, Poll, Change, DetectConnect, Detect, DetectorReturns
<1>2. CASE \E m \in {"forever", "timed", "poll"} : Acquire(m)
  BY <1>2 DEF Acquire, Sema!BeginAcquire, IP!BeginAcquire, IP!Next, IP!Modes
<1>3. CASE WaitEnter
  BY <1>3 DEF WaitEnter, Sema!Enter, IP!Enter, IP!Next
<1>4. CASE WaitSteps
  BY <1>4 DEF WaitSteps, Sema!Expire, Sema!SpuriousWake, IP!Expire, IP!SpuriousWake, IP!Next
<1>5. CASE WaitEnds
  BY <1>5 DEF WaitEnds, Sema!Resume, Sema!TimeOut, IP!Resume, IP!TimeOut, IP!Next
<1>6. CASE Report
  BY <1>6 DEF Report, Sema!Reset, Sema!NotifyAll, Sema!Asleep, Sema!At,
     IP!Reset, IP!NotifyAll, IP!Asleep, IP!At, IP!Next
<1> QED
  BY <1>1, <1>2, <1>3, <1>4, <1>5, <1>6 DEF Interface

\* The semaphores of a client are Semaphores: exec with its handlers, and the
\* wait with its callback, do to them what module Semaphore allows.
THEOREM UsesSemaphores == Spec => SP!Spec /\ IP!Spec
<1>1. [Next]_vars => [SP!Next]_(SP!vars) /\ [IP!Next]_(IP!vars)
  <2>1. UNCHANGED exitVars => UNCHANGED SP!vars
    BY DEF exitVars, semVars, SP!vars
  <2>2. UNCHANGED waitVars => UNCHANGED IP!vars
    BY DEF waitVars, IP!vars
  <2>3. UNCHANGED vars => UNCHANGED exitVars /\ UNCHANGED waitVars
    BY DEF vars
  <2> QED
    BY <2>1, <2>2, <2>3, ProgramStep, InterfaceStep DEF Next
<1> QED
  BY <1>1, InitIsGiven, PTL DEF Spec, SP!Spec, IP!Spec

LEMMA SemaphoresAreTyped == Spec => []SemTypes
<1>1. SP!Spec => []SP!TypeOK
  BY SP!TypeCorrect, SemaphoresAreGiven
<1>2. IP!Spec => []IP!TypeOK
  BY IP!TypeCorrect, SemaphoresAreGiven
<1> QED
  BY <1>1, <1>2, UsesSemaphores, PTL DEF SemTypes
------------------------------------------------------------------------------
(* What a step does to the handlers.                                          *)

\* A handler goes from one place to the next: it is still there, with its code.
LEMMA Going ==
    ASSUME ClientType, NEW t \in Actors, handlers[t] # <<>>,
           NEW place \in {"store", "reset", "locked"}, Goes(t, place)
    PROVE  /\ handlers' \in [Actors -> Seq(Call)]
           /\ \A u \in Actors : Len(handlers'[u]) = Len(handlers[u])
           /\ \A u \in Actors : u # t => handlers'[u] = handlers[u]
           /\ \A i \in 1..Len(handlers[t]) :
                 /\ handlers'[t][i].code = handlers[t][i].code
                 /\ handlers'[t][i].place =
                       IF i = Len(handlers[t]) THEN place ELSE handlers[t][i].place
<1> DEFINE calls == handlers[t]
           n == Len(calls)
           moved == [calls EXCEPT ![n].place = place]
<1>1. calls \in Seq(Call) /\ n \in Nat /\ n \in 1..n /\ calls \in [1..n -> Call]
  BY DEF ClientType
<1>2. handlers' = [handlers EXCEPT ![t] = moved]
  BY DEF Goes
<1>3. [calls[n] EXCEPT !.place = place] \in Call
  BY <1>1 DEF Call
<1>4. moved = [calls EXCEPT ![n] = [calls[n] EXCEPT !.place = place]]
  BY <1>1
<1>5. moved \in [1..n -> Call]
  BY <1>1, <1>3, <1>4
<1>6. moved \in Seq(Call) /\ Len(moved) = n
  BY <1>1, <1>5, IsASeq
<1>7. \A i \in 1..n : /\ moved[i].code = calls[i].code
                      /\ moved[i].place = IF i = n THEN place ELSE calls[i].place
  BY <1>1, <1>4 DEF Call
<1>8. handlers'[t] = moved /\ \A u \in Actors : u # t => handlers'[u] = handlers[u]
  BY <1>2 DEF ClientType
<1>9. handlers' \in [Actors -> Seq(Call)]
  BY <1>2, <1>6 DEF ClientType
<1> HIDE DEF calls, n, moved
<1> QED
  BY <1>6, <1>7, <1>8, <1>9 DEF calls, n

\* A signal puts a handler on top.
LEMMA Stacking ==
    ASSUME ClientType, NEW t \in Actors, NEW s \in Signals, Signal(t, s)
    PROVE  /\ handlers' \in [Actors -> Seq(Call)]
           /\ \A u \in Actors : u # t => handlers'[u] = handlers[u]
           /\ Len(handlers'[t]) = Len(handlers[t]) + 1
           /\ \A i \in 1..Len(handlers[t]) : handlers'[t][i] = handlers[t][i]
           /\ handlers'[t][Len(handlers[t]) + 1] = [code |-> s, place |-> "store"]
<1>1. [code |-> s, place |-> "store"] \in Call
  BY DEF Call
<1>2. handlers' = [handlers EXCEPT ![t] = Append(@, [code |-> s, place |-> "store"])]
  BY DEF Signal
<1>3. handlers[t] \in Seq(Call)
  BY DEF ClientType
<1>4. handlers'[t] = Append(handlers[t], [code |-> s, place |-> "store"])
  BY <1>2 DEF ClientType
<1>5. /\ handlers'[t] \in Seq(Call)
      /\ Len(handlers'[t]) = Len(handlers[t]) + 1
      /\ \A i \in 1..Len(handlers[t]) : handlers'[t][i] = handlers[t][i]
      /\ handlers'[t][Len(handlers[t]) + 1] = [code |-> s, place |-> "store"]
  BY <1>1, <1>3, <1>4, AppendProperties
<1> QED
  BY <1>2, <1>4, <1>5 DEF ClientType

\* A handler that returns leaves those below it as they were.
LEMMA Returning ==
    ASSUME ClientType, NEW t \in Actors, Reset(t)
    PROVE  /\ handlers' \in [Actors -> Seq(Call)]
           /\ \A u \in Actors : u # t => handlers'[u] = handlers[u]
           /\ Len(handlers[t]) \in Nat \ {0}
           /\ Len(handlers'[t]) = Len(handlers[t]) - 1
           /\ \A i \in 1..Len(handlers'[t]) : handlers'[t][i] = handlers[t][i]
<1>1. handlers[t] \in Seq(Call) /\ handlers[t] # <<>>
  BY DEF ClientType, Reset
<1>2. Len(handlers[t]) \in Nat \ {0}
  BY <1>1, EmptySeq
<1>3. handlers' = [handlers EXCEPT ![t] = SubSeq(@, 1, Len(@) - 1)]
  BY DEF Reset
<1>4. handlers'[t] = SubSeq(handlers[t], 1, Len(handlers[t]) - 1)
  BY <1>3 DEF ClientType
<1>5. /\ handlers'[t] \in Seq(Call)
      /\ Len(handlers'[t]) = Len(handlers[t]) - 1
      /\ \A i \in 1..Len(handlers'[t]) : handlers'[t][i] = handlers[t][i]
  BY <1>1, <1>2, <1>4, SubSeqProperties
<1> QED
  BY <1>2, <1>3, <1>5 DEF ClientType
------------------------------------------------------------------------------
(* The invariant is inductive: the steps of the program.                      *)

ProgramInv ==
    /\ CodesInv /\ WokenInv /\ MutexInv /\ PatientInv
    /\ ReturnsACode

LEMMA ExecKeeps ==
    ASSUME SemTypes, ClientType, ProgramInv, Exec \/ SpuriousWake, UNCHANGED waitVars
    PROVE  ClientType' /\ ProgramInv'
<1> USE DEF SemTypes, SP!TypeOK, SP!Places, SP!Modes, ClientType, ProgramInv, CodesInv,
            WokenInv, MutexInv, PatientInv, ReturnsACode, Actors, Free, semVars, waitVars,
            execVars
<1>1. CASE ParserFlag
  BY <1>1 DEF ParserFlag, Runs
<1>2. CASE BeginAcquire
  BY <1>2 DEF BeginAcquire, Runs, Semaphone!BeginAcquire
<1>3. CASE Lock
  BY <1>3 DEF Lock, Runs
<1>4. CASE Enter
  BY <1>4 DEF Enter, Runs, Semaphone!Enter
<1>5. CASE Return
  BY <1>5 DEF Return, Runs, Semaphone!Resume
<1>6. CASE SpuriousWake
  BY <1>6 DEF SpuriousWake, Semaphone!SpuriousWake
<1> QED
  BY <1>1, <1>2, <1>3, <1>4, <1>5, <1>6 DEF Exec

LEMMA SignalKeeps ==
    ASSUME SemTypes, ClientType, ProgramInv, NEW t \in Actors, NEW s \in Signals,
           Signal(t, s), UNCHANGED waitVars
    PROVE  ClientType' /\ ProgramInv'
<1>S. /\ handlers' \in [Actors -> Seq(Call)]
      /\ \A u \in Actors : u # t => handlers'[u] = handlers[u]
      /\ Len(handlers'[t]) = Len(handlers[t]) + 1
      /\ \A i \in 1..Len(handlers[t]) : handlers'[t][i] = handlers[t][i]
      /\ handlers'[t][Len(handlers[t]) + 1] = [code |-> s, place |-> "store"]
  BY Stacking
<1> USE DEF ClientType, ProgramInv, semVars, waitVars, execVars
<1>0. \A u \in Actors : Len(handlers[u]) \in Nat
  OBVIOUS
<1>1. ClientType'
  BY <1>S DEF Signal
<1>2. CodesInv'
  BY <1>0, <1>S DEF Signal, CodesInv
<1>3. MutexInv'
  BY <1>0, <1>S DEF Signal, MutexInv, Free
<1>4. WokenInv' /\ PatientInv' /\ ReturnsACode'
  BY DEF Signal, WokenInv, PatientInv, ReturnsACode
<1> QED
  BY <1>1, <1>2, <1>3, <1>4

LEMMA ExitKeeps ==
    ASSUME SemTypes, ClientType, ProgramInv, NEW t \in Actors, Exit(t), UNCHANGED waitVars
    PROVE  ClientType' /\ ProgramInv'
<1> USE DEF ClientType, ProgramInv, semVars, waitVars, execVars
<1> DEFINE n == Len(handlers[t])
<1>0. /\ \A u \in Actors : Len(handlers[u]) \in Nat
      /\ handlers[t] # <<>> => n \in 1..n /\ Inner(t) = handlers[t][n]
  BY EmptySeq DEF Inner
<1>1. CASE StoreCode(t)
  <2>1. Inner(t).code \in asked
    BY <1>0, <1>1 DEF StoreCode, CodesInv
  <2>2. ClientType'
    BY <1>1, <2>1, Going DEF StoreCode
  <2>3. CodesInv'
    BY <1>0, <1>1, <2>1, Going DEF StoreCode, CodesInv
  <2>4. MutexInv'
    <3>1. /\ \A u \in Actors : Len(handlers'[u]) = Len(handlers[u])
          /\ \A u \in Actors : u # t => handlers'[u] = handlers[u]
          /\ \A i \in 1..n : handlers'[t][i].place =
                                IF i = n THEN "reset" ELSE handlers[t][i].place
      BY <1>1, Going DEF StoreCode
    <3>2. mutex # <<t, n>> /\ mutex' = mutex /\ exec' = exec
      BY <1>0, <1>1 DEF StoreCode, MutexInv
    <3>3. \A u \in Actors : \A i \in 1..Len(handlers'[u]) :
             handlers'[u][i].place = "locked" <=> mutex' = <<u, i>>
      BY <1>0, <3>1, <3>2 DEF MutexInv
    <3>4. mutex' # Free /\ mutex' # <<Main, 0>> =>
             mutex'[2] \in 1..Len(handlers'[mutex'[1]])
      BY <3>1, <3>2 DEF MutexInv, Free
    <3> QED
      BY <3>2, <3>3, <3>4 DEF MutexInv
  <2> QED
    BY <1>1, <2>1, <2>2, <2>3, <2>4 DEF StoreCode, WokenInv, PatientInv, ReturnsACode
<1>2. CASE LockReset(t)
  <2>1. exitCode \in asked
    BY <1>0, <1>2 DEF LockReset, CodesInv
  <2>2. ClientType'
    BY <1>0, <1>2, Going DEF LockReset
  <2>3. CodesInv'
    <3>1. /\ \A u \in Actors : Len(handlers'[u]) = Len(handlers[u])
          /\ \A u \in Actors : u # t => handlers'[u] = handlers[u]
          /\ \A i \in 1..n : handlers'[t][i].code = handlers[t][i].code
      BY <1>2, Going DEF LockReset
    <3>2. exitCode' = exitCode /\ asked' = asked
      BY <1>2 DEF LockReset
    <3> QED
      BY <2>1, <3>1, <3>2 DEF CodesInv
  <2>4. MutexInv'
    BY <1>0, <1>2, Going DEF LockReset, MutexInv, Free
  <2> QED
    BY <1>2, <2>2, <2>3, <2>4 DEF LockReset, WokenInv, PatientInv, ReturnsACode
<1>3. CASE Reset(t)
  <2>1. exitCode \in asked /\ mutex = <<t, n>>
    BY <1>0, <1>3 DEF Reset, CodesInv, MutexInv
  <2>2. ClientType'
    BY <1>3, Returning DEF Reset
  <2>3. CodesInv'
    BY <1>0, <1>3, <2>1, Returning DEF Reset, CodesInv
  <2>4. MutexInv'
    BY <1>0, <1>3, <2>1, Returning DEF Reset, MutexInv, Free
  <2> QED
    BY <1>3, <2>1, <2>2, <2>3, <2>4 DEF Reset, Semaphone!Reset, WokenInv, PatientInv,
       ReturnsACode
<1> QED
  BY <1>1, <1>2, <1>3 DEF Exit
------------------------------------------------------------------------------
(* The steps of the interface, and the invariant.                             *)

LEMMA WaitKeeps ==
    ASSUME SemTypes, ClientType, WaitInv, TrueMeansConnected, Interface, UNCHANGED exitVars
    PROVE  ClientType' /\ WaitInv' /\ TrueMeansConnected'
<1> USE DEF SemTypes, IP!TypeOK, IP!Places, IP!Modes, ClientType, WaitInv,
            TrueMeansConnected, exitVars, semVars, execVars, iVars
<1>1. CASE Test
  BY <1>1 DEF Test
<1>2. CASE Poll
  BY <1>2 DEF Poll
<1>3. CASE Change
  BY <1>3 DEF Change
<1>d. CASE DetectConnect
  BY <1>d DEF DetectConnect
<1>e. CASE Detect \/ DetectorReturns
  BY <1>e DEF Detect, DetectorReturns
<1>4. CASE \E m \in {"forever", "timed", "poll"} : Acquire(m)
  BY <1>4 DEF Acquire, Sema!BeginAcquire
<1>5. CASE WaitEnter
  BY <1>5 DEF WaitEnter, Sema!Enter
<1>6. CASE WaitSteps
  <2>1. CASE Sema!Expire(Main)
    BY <1>6, <2>1 DEF WaitSteps, Sema!Expire
  <2>2. CASE Sema!SpuriousWake(Main)
    BY <1>6, <2>2 DEF WaitSteps, Sema!SpuriousWake
  <2> QED
    BY <1>6, <2>1, <2>2 DEF WaitSteps
<1>7. CASE WaitEnds
  <2>1. CASE Sema!Resume(Main)
    BY <1>7, <2>1 DEF WaitEnds, Sema!Resume
  <2>2. CASE Sema!TimeOut(Main)
    <3>1. /\ returned' = FALSE \/ Sema!Resume(Main)
          /\ waiting' = "idle" /\ UNCHANGED <<connected, backend, detector, sawConnect>>
      BY <1>7 DEF WaitEnds
    <3>2. icall' = [icall EXCEPT ![Main] = "idle"]
      BY <2>2 DEF Sema!TimeOut
    <3>3. icall \in [{Main} -> IP!Places]
      OBVIOUS
    <3>4. icall'[Main] = "idle"
      BY <3>2, <3>3
    <3>5. ~Sema!Resume(Main)
      BY <2>2 DEF Sema!TimeOut, Sema!Resume
    <3>6. ClientType' /\ TrueMeansConnected'
      BY <3>1, <3>5
    <3> QED
      BY <3>1, <3>4, <3>6
  <2> QED
    BY <1>7, <2>1, <2>2 DEF WaitEnds
<1>8. CASE Report
  BY <1>8 DEF Report, Sema!Reset, Sema!NotifyAll, Sema!Asleep, Sema!At
<1> QED
  BY <1>1, <1>2, <1>3, <1>d, <1>e, <1>4, <1>5, <1>6, <1>7, <1>8 DEF Interface

LEMMA Invariance == Spec => []Inv
<1>1. Init => Inv
  <2> SUFFICES ASSUME Init PROVE Inv
    OBVIOUS
  <2>1. ClientType
    BY EmptySeq DEF Init, ClientType, Actors
  <2>2. CodesInv /\ MutexInv
    BY EmptySeq DEF Init, CodesInv, MutexInv, Actors, Free
  <2>3. WokenInv /\ PatientInv /\ WaitInv /\ ReturnsACode /\ TrueMeansConnected
    BY DEF Init, Semaphone!Init, Sema!Init, WokenInv, PatientInv, WaitInv, ReturnsACode,
       TrueMeansConnected
  <2> QED
    BY <2>1, <2>2, <2>3 DEF Inv
<1>2. SemTypes /\ Inv /\ [Next]_vars => Inv'
  <2> SUFFICES ASSUME SemTypes, Inv, [Next]_vars PROVE Inv'
    OBVIOUS
  <2>0. ClientType /\ ProgramInv /\ WaitInv /\ TrueMeansConnected
    BY DEF Inv, ProgramInv
  <2>1. ASSUME Program, UNCHANGED waitVars PROVE Inv'
    <3>1. ClientType' /\ ProgramInv'
      BY <2>0, <2>1, ExecKeeps, SignalKeeps, ExitKeeps DEF Program, Actors
    <3>2. WaitInv' /\ TrueMeansConnected'
      BY <2>0, <2>1 DEF WaitInv, TrueMeansConnected, waitVars
    <3> QED
      BY <3>1, <3>2 DEF Inv, ProgramInv
  <2>2. ASSUME Interface, UNCHANGED exitVars PROVE Inv'
    <3>1. ClientType' /\ WaitInv' /\ TrueMeansConnected'
      BY <2>0, <2>2, WaitKeeps
    <3>2. ProgramInv'
      BY <2>0, <2>2 DEF ProgramInv, CodesInv, WokenInv, MutexInv, PatientInv, ReturnsACode,
         exitVars, semVars, execVars
    <3> QED
      BY <3>1, <3>2 DEF Inv, ProgramInv
  <2>3. CASE UNCHANGED vars
    BY <2>3 DEF Inv, ClientType, CodesInv, WokenInv, MutexInv, PatientInv, WaitInv,
       ReturnsACode, TrueMeansConnected, vars, exitVars, waitVars, semVars, execVars
  <2> QED
    BY <2>1, <2>2, <2>3 DEF Next
<1> QED
  BY <1>1, <1>2, SemaphoresAreTyped, PTL DEF Spec
------------------------------------------------------------------------------
(* The theorems.                                                              *)

\* The calls, the mutex, the handlers of each thread and both semaphores keep
\* their types, however deep the handlers interrupt each other.
THEOREM TypeCorrect == Spec => []TypeOK
BY Invariance, SemaphoresAreTyped, PTL DEF Inv, TypeOK

\* exec (client.hpp) returns a code exit was called with, for any signals and
\* any overlap of their handlers, unless a spurious wakeup ended its wait.
THEOREM ExecReturnsACode == Spec => []ReturnsACode
BY Invariance, PTL DEF Inv

\* waitForConnected (interface.hpp) answers true only of a connection that was
\* there at some moment of the call, unless a spurious wakeup ended it.
THEOREM ToldForAReason == Spec => []TrueMeansConnected
BY Invariance, PTL DEF Inv

\* An exit that reaches its reset leaves exec not asleep: the counter cannot hide
\* the sleeper from it, since exec waits without a deadline.
ExitWakesExec == [][\A t \in Actors : Reset(t) => call'[Main] # "asleep"]_vars

\* The reset in exit (client.hpp) wakes exec whenever it is asleep.
THEOREM ExitWakes == Spec => ExitWakesExec
<1>1. SP!Spec => []SP!NoStrandedSleeper
  BY SP!SleepersAreCounted, SemaphoresAreGiven
<1>2. SemTypes /\ Inv /\ SP!NoStrandedSleeper /\ [Next]_vars =>
          [\A t \in Actors : Reset(t) => call'[Main] # "asleep"]_vars
  <2> SUFFICES ASSUME SemTypes, Inv, SP!NoStrandedSleeper, NEW t \in Actors, Reset(t)
               PROVE  call'[Main] # "asleep"
    OBVIOUS
  <2>1. CASE call[Main] = "asleep"
    <3>1. SP!Asleep = {Main} /\ "deadline" \notin seen
      BY <2>1 DEF SP!Asleep, SP!At, Inv, PatientInv
    <3>2. SP!Cardinality({Main}) = 1
      BY FS_Singleton DEF SP!Cardinality, Cardinality, SP!IsFiniteSet, IsFiniteSet
    <3>3. count < 0
      BY <3>1, <3>2 DEF SP!NoStrandedSleeper, SemTypes, SP!TypeOK
    <3> QED
      BY <2>1, <3>3 DEF Reset, Semaphone!Reset, Semaphone!NotifyAll, Semaphone!Asleep,
         Semaphone!At
  <2>2. CASE call[Main] # "asleep"
    BY <2>2 DEF Reset, Semaphone!Reset, Semaphone!NotifyAll, Semaphone!Asleep,
       Semaphone!At, SemTypes, SP!TypeOK, semVars
  <2> QED
    BY <2>1, <2>2
<1> QED
  BY <1>1, <1>2, Invariance, SemaphoresAreTyped, UsesSemaphores, PTL DEF Spec, ExitWakesExec

\* A handler runs on top of the holder of the mutex.
Interrupted == mutex # Free /\ mutex[2] < Len(handlers[mutex[1]])

\* ... and the mutex stays with that holder.
HeldForGood == [][Interrupted => Interrupted' /\ mutex' = mutex]_vars

\* exit takes the mutex of the semaphore (client.hpp, through reset), and a signal
\* calls exit wherever its thread is: one that interrupts the holder of the mutex
\* never returns, so the holder never goes on, and nobody gets the mutex again.
THEOREM InterruptedForGood == Spec => HeldForGood
<1>1. Inv /\ [Next]_vars => [Interrupted => Interrupted' /\ mutex' = mutex]_vars
  <2> SUFFICES ASSUME Inv, Next, Interrupted PROVE Interrupted' /\ mutex' = mutex
    OBVIOUS
  <2> DEFINE h == mutex[1]
  <2>0. /\ ClientType /\ MutexInv /\ mutex # Free
        /\ h \in Actors /\ mutex[2] \in Nat /\ mutex[2] < Len(handlers[h])
        /\ \A t \in Actors : Len(handlers[t]) \in Nat
    BY DEF Inv, ClientType, Interrupted, Free
  <2>1. CASE Exec \/ SpuriousWake
    <3>1. exec = "locked" => handlers[Main] # <<>>
      BY <2>0, EmptySeq DEF MutexInv
    <3> QED
      BY <2>0, <2>1, <3>1 DEF Exec, ParserFlag, BeginAcquire, Lock, Enter, Return,
         SpuriousWake, Runs, Interrupted, execVars
  <2>2. ASSUME NEW t \in Actors, NEW s \in Signals, Signal(t, s)
        PROVE  Interrupted' /\ mutex' = mutex
    <3>1. /\ Len(handlers'[t]) = Len(handlers[t]) + 1
          /\ \A u \in Actors : u # t => handlers'[u] = handlers[u]
      BY <2>0, <2>2, Stacking
    <3> QED
      BY <2>0, <2>2, <3>1 DEF Signal, Interrupted, Free
  <2>3. ASSUME NEW t \in Actors, StoreCode(t) PROVE Interrupted' /\ mutex' = mutex
    <3>1. \A u \in Actors : Len(handlers'[u]) = Len(handlers[u])
      BY <2>0, <2>3, Going DEF StoreCode
    <3> QED
      BY <2>0, <2>3, <3>1 DEF StoreCode, Interrupted, Free
  <2>4. ASSUME NEW t \in Actors, LockReset(t) PROVE FALSE
    BY <2>0, <2>4 DEF LockReset
  <2>5. ASSUME NEW t \in Actors, Reset(t) PROVE FALSE
    <3>1. Len(handlers[t]) \in 1..Len(handlers[t])
      BY <2>0, <2>5, EmptySeq DEF Reset, ClientType
    <3>2. mutex = <<t, Len(handlers[t])>>
      BY <2>0, <2>5, <3>1 DEF Reset, Inner, MutexInv
    <3> QED
      BY <2>0, <3>2
  <2>6. CASE Interface /\ UNCHANGED exitVars
    BY <2>6 DEF exitVars, Interrupted, Free
  <2> QED
    BY <2>1, <2>2, <2>3, <2>4, <2>5, <2>6 DEF Next, Program, Exit, Actors
<1> QED
  BY <1>1, Invariance, PTL DEF Spec, HeldForGood
===============================================================================
