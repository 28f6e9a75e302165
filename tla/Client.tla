-------------------------------- MODULE Client --------------------------------
(* A client program: exec and exit of ClientProxy                             *)
(* (src/include/mifsa/module/client.hpp), the signal handler that Application *)
(* registers (src/src/base/application.cpp:161), and waitForConnected of its  *)
(* interface (src/include/mifsa/module/interface.hpp).  Each waits on a       *)
(* Semaphore, whose steps are those of that module.                           *)
(*                                                                            *)
(* A handler runs on top of whatever its thread was doing, also while that    *)
(* holds the semaphore's mutex.  The backend that reports connections is not  *)
(* part of this repository.                                                   *)
EXTENDS Integers, Sequences, FiniteSets

CONSTANTS
    Main,        \* the thread of waitForConnected and then of exec
    Other,       \* another thread of the program, which may call exit too
    Signals,     \* the signals, and the codes they exit with
    MaxSignals   \* bound on the signals that arrive

ASSUME ClientAssumption ==
    /\ Main # Other
    /\ Signals \subseteq Nat \ {0}
    /\ MaxSignals \in Nat

VARIABLES
    count, call, mode, seen,        \* m_semaphone
    mutex,       \* who holds its mutex: a thread and the depth of its handlers
    exec,        \* where exec is: "parse", "call", "locked", "done"
    exitCode,    \* m_exitCode
    result,      \* history: what exec returned
    handlers,    \* of each thread: its calls of exit, the innermost last
    asked,       \* history: the codes that exit was called with
    arrived      \* counts the signals, for the bound

VARIABLES
    icount, icall, imode, iseen,    \* m_sema of the interface
    connected,   \* what connected() returns
    backend,     \* where _cbConnected is: "idle", "report", "callback", "reset"
    detector,    \* m_hasDetectConnect, with a callback to call
    waiting,     \* where waitForConnected is: "idle", "tested", "acquire"
    returned,    \* history: what it returned last
    sawConnect   \* history: was the interface connected during the call?

execVars == <<exec, exitCode, result>>
semVars == <<count, call, mode, seen>>
exitVars == <<semVars, mutex, execVars, handlers, asked, arrived>>
waitVars == <<icount, icall, imode, iseen, connected, backend, detector, waiting,
              returned, sawConnect>>
vars == <<exitVars, waitVars>>

Free == <<>>
Semaphone == INSTANCE Semaphore
    WITH Threads <- {Main}, InitialCount <- 0, ResetCounts <- {0}, CountBound <- 1
Sema == INSTANCE Semaphore
    WITH Threads <- {Main}, InitialCount <- 0, ResetCounts <- {0}, CountBound <- 1,
         count <- icount, call <- icall, mode <- imode, seen <- iseen

Init ==
    /\ Semaphone!Init /\ Sema!Init
    /\ mutex = Free /\ exec = "parse" /\ exitCode = 0 /\ result = -1
    /\ handlers = [t \in {Main, Other} |-> <<>>]
    /\ asked = {} /\ arrived = 0
    /\ connected = FALSE /\ backend = "idle" /\ detector = FALSE /\ waiting = "idle"
    /\ returned = FALSE /\ sawConnect = FALSE
------------------------------------------------------------------------------
(* exec: its steps wait while a handler runs on their thread.                 *)

Runs(place) == exec = place /\ handlers[Main] = <<>> /\ UNCHANGED <<handlers, asked, arrived>>

\* parserFlag: from here on a signal calls exit, and nobody here asks after the
\* interface: it is left as it was without a detector.
ParserFlag ==
    /\ Runs("parse") /\ waiting = "idle" /\ backend = "idle" /\ ~detector
    /\ exec' = "call"
    /\ UNCHANGED <<semVars, mutex, exitCode, result>>

BeginAcquire ==
    /\ Runs("call") /\ Semaphone!BeginAcquire(Main, "forever")
    /\ UNCHANGED <<mutex, execVars>>

Lock ==
    /\ Runs("call") /\ mutex = Free
    /\ call[Main] \in {"entering", "notified"}
    /\ mutex' = <<Main, 0>> /\ exec' = "locked"
    /\ UNCHANGED <<semVars, exitCode, result>>

\* To sleep, with the mutex released.
Enter ==
    /\ Runs("locked") /\ Semaphone!Enter(Main)
    /\ mutex' = Free /\ exec' = "call"
    /\ UNCHANGED <<exitCode, result>>

\* Awake: the mutex is released, and the code is read.
Return ==
    /\ Runs("locked") /\ Semaphone!Resume(Main)
    /\ mutex' = Free /\ exec' = "done"
    /\ result' = exitCode
    /\ UNCHANGED exitCode

SpuriousWake ==
    /\ Semaphone!SpuriousWake(Main)
    /\ UNCHANGED <<mutex, execVars, handlers, asked, arrived>>

Exec == ParserFlag \/ BeginAcquire \/ Lock \/ Enter \/ Return
------------------------------------------------------------------------------
(* exit.                                                                      *)

Inner(t) == handlers[t][Len(handlers[t])]
Goes(t, place) == handlers' = [handlers EXCEPT ![t][Len(handlers[t])].place = place]

\* A signal, on any thread; its handler does not interrupt itself.  On Other
\* this is a direct call as well.
Signal(t, s) ==
    /\ exec \notin {"parse", "done"} /\ arrived < MaxSignals
    /\ \A i \in DOMAIN handlers[t] : handlers[t][i].code # s
    /\ handlers' = [handlers EXCEPT ![t] = Append(@, [code |-> s, place |-> "store"])]
    /\ asked' = asked \union {s}
    /\ arrived' = arrived + 1
    /\ UNCHANGED <<semVars, mutex, execVars>>

\* A mutation: the code is forgotten.
StoreNoCode(t) ==
    /\ handlers[t] # <<>> /\ Inner(t).place = "store"
    /\ Goes(t, "reset")
    /\ UNCHANGED <<semVars, mutex, execVars, asked, arrived>>

StoreCode(t) ==
    /\ handlers[t] # <<>> /\ Inner(t).place = "store"
    /\ exitCode' = Inner(t).code
    /\ Goes(t, "reset")
    /\ UNCHANGED <<semVars, mutex, exec, result, asked, arrived>>

LockReset(t) ==
    /\ handlers[t] # <<>> /\ Inner(t).place = "reset" /\ mutex = Free
    /\ mutex' = <<t, Len(handlers[t])>>
    /\ Goes(t, "locked")
    /\ UNCHANGED <<semVars, execVars, asked, arrived>>

\* A mutation: the test for waiters is inverted.
ResetIfZero(t) ==
    /\ handlers[t] # <<>> /\ Inner(t).place = "locked"
    /\ IF count = 0 THEN Semaphone!Reset(0) ELSE UNCHANGED semVars
    /\ mutex' = Free
    /\ handlers' = [handlers EXCEPT ![t] = SubSeq(@, 1, Len(@) - 1)]
    /\ UNCHANGED <<execVars, asked, arrived>>

Reset(t) ==
    /\ handlers[t] # <<>> /\ Inner(t).place = "locked"
    /\ Semaphone!Reset(0)
    /\ mutex' = Free
    /\ handlers' = [handlers EXCEPT ![t] = SubSeq(@, 1, Len(@) - 1)]
    /\ UNCHANGED <<execVars, asked, arrived>>

Exit(t) == StoreCode(t) \/ LockReset(t) \/ Reset(t)
------------------------------------------------------------------------------
(* waitForConnected, and the backend.                                         *)

iVars == <<icount, icall, imode, iseen>>

\* A client waits for its connection before it calls exec.
Test ==
    /\ waiting = "idle" /\ exec = "parse"
    /\ IF connected THEN returned' = TRUE /\ UNCHANGED waiting
       ELSE waiting' = "tested" /\ UNCHANGED returned
    /\ sawConnect' = connected
    /\ UNCHANGED <<iVars, connected, backend, detector>>

Acquire(m) ==
    /\ waiting = "tested" /\ Sema!BeginAcquire(Main, m)
    /\ waiting' = "acquire"
    /\ UNCHANGED <<connected, backend, detector, returned, sawConnect>>

\* With a timeout of zero.
Poll ==
    /\ waiting = "tested" /\ icount <= 0
    /\ waiting' = "idle" /\ returned' = FALSE
    /\ UNCHANGED <<iVars, connected, backend, detector, sawConnect>>

\* A permit that a late timeout left behind is taken, and the answer is false.
WaitEnter ==
    /\ Sema!Enter(Main)
    /\ IF icall'[Main] = "asleep" THEN UNCHANGED <<waiting, returned>>
       ELSE waiting' = "idle" /\ returned' = FALSE
    /\ UNCHANGED <<connected, backend, detector, sawConnect>>

WaitSteps ==
    /\ Sema!Expire(Main) \/ Sema!SpuriousWake(Main)
    /\ UNCHANGED <<connected, backend, detector, waiting, returned, sawConnect>>

WaitEnds ==
    /\ \/ Sema!Resume(Main) /\ returned' = TRUE
       \/ Sema!TimeOut(Main) /\ returned' = FALSE
    /\ waiting' = "idle"
    /\ UNCHANGED <<connected, backend, detector, sawConnect>>

\* The backend finds or loses its connection.
Change ==
    /\ backend = "idle" /\ exec = "parse"
    /\ connected' = ~connected
    /\ backend' = "report"
    /\ sawConnect' = (sawConnect \/ connected')
    /\ UNCHANGED <<iVars, detector, waiting, returned>>

\* detectConnect: the flag is set after the callback, and tested before it.  A
\* later call without a callback takes it away, while no report is under way.
DetectConnect ==
    /\ exec = "parse" /\ (detector => backend = "idle")
    /\ detector' = ~detector
    /\ UNCHANGED <<iVars, connected, backend, waiting, returned, sawConnect>>

\* _cbConnected, lines 30-32: the user's callback comes first, if there is one ...
Detect ==
    /\ backend = "report"
    /\ backend' = IF detector THEN "callback" ELSE "reset"
    /\ UNCHANGED <<iVars, connected, detector, waiting, returned, sawConnect>>

\* ... and the waiters sleep on until it returns.
DetectorReturns ==
    /\ backend = "callback"
    /\ backend' = "reset"
    /\ UNCHANGED <<iVars, connected, detector, waiting, returned, sawConnect>>

\* A mutation: a lost connection wakes the waiters as well.
ReportAnything ==
    /\ backend = "reset"
    /\ Sema!Reset(0)
    /\ backend' = "idle"
    /\ UNCHANGED <<connected, detector, waiting, returned, sawConnect>>

\* Lines 33-35, with the argument the backend gave: what Change has made it.
Report ==
    /\ backend = "reset"
    /\ IF connected THEN Sema!Reset(0) ELSE UNCHANGED iVars
    /\ backend' = "idle"
    /\ UNCHANGED <<connected, detector, waiting, returned, sawConnect>>

Interface ==
    \/ Test \/ Poll \/ WaitEnter \/ WaitSteps \/ WaitEnds \/ Change
    \/ DetectConnect \/ Detect \/ DetectorReturns \/ Report
    \/ \E m \in {"forever", "timed", "poll"} : Acquire(m)
------------------------------------------------------------------------------
Program ==
    \/ Exec \/ SpuriousWake
    \/ \E t \in {Main, Other} : Exit(t) \/ \E s \in Signals : Signal(t, s)

Next ==
    \/ Program /\ UNCHANGED waitVars
    \/ Interface /\ UNCHANGED exitVars

Spec == Init /\ [][Next]_vars

\* Every thread goes on, and the user's callback returns; a mutex that is free
\* again and again is taken.
FairSpec ==
    /\ Spec
    /\ SF_vars(Exec /\ UNCHANGED waitVars)
    /\ \A t \in {Main, Other} : SF_vars(Exit(t) /\ UNCHANGED waitVars)
    /\ WF_vars((Detect \/ DetectorReturns \/ Report) /\ UNCHANGED exitVars)
    /\ WF_vars(WaitEnds /\ UNCHANGED exitVars)
------------------------------------------------------------------------------
(* Properties.                                                                *)

\* exec returns a code that exit was called with, however many exits overlap and
\* interrupt each other, unless a spurious wakeup ends it -- with zero, or with
\* a code just stored.
ReturnsACode == exec = "done" /\ "spurious" \notin seen => result \in asked

\* A handler that interrupted the holder of the mutex it needs: its thread never
\* goes on, and nor does anybody who needs the mutex.
Stuck ==
    \E t \in {Main, Other} :
        /\ mutex # Free /\ mutex[1] = t /\ mutex[2] < Len(handlers[t])
        /\ Inner(t).place = "reset"

\* An exit that finds exec asleep ends it, and a connection that finds a waiter
\* asleep ends the wait, whatever comes in between; except that a signal may
\* find its own thread inside the mutex, where everything stops.  An exit, or a
\* connection, that comes before the sleep is lost.
SleepersAreWoken ==
    /\ (call[Main] = "asleep" /\ \E t \in {Main, Other} : handlers[t] # <<>>)
          ~> (exec = "done" \/ Stuck)
    /\ (icall[Main] = "asleep" /\ backend = "report" /\ connected) ~> (waiting = "idle")

\* Whoever is told that the interface is connected was so told for a reason: it
\* was, at some moment of the call -- a loss of the connection wakes nobody, and
\* no wakeup is left over for the next call.
TrueMeansConnected == returned /\ waiting = "idle" /\ "spurious" \notin iseen => sawConnect
===============================================================================
