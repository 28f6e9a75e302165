-------------------------------- MODULE Thread --------------------------------
(* mifsa::Thread (src/src/base/thread.cpp): a helper that starts a thread on  *)
(* a callback, again and again, and stops it by waiting for the callback, by  *)
(* joining the thread or, when its patience ends, by detaching it.            *)
(*                                                                            *)
(* stop may be called by several threads -- Queue::quit and waitforQuit do -- *)
(* and by the callback itself.  Only the owner starts and destroys, and does  *)
(* it while nobody else is in a call; only the callback it starts may call    *)
(* stop before start has returned.  A step is what the code does under the    *)
(* mutex or to one atomic.                                                    *)
EXTENDS Naturals

CONSTANTS
    Owner,       \* the thread that starts, stops and destroys
    Stoppers,    \* the other threads that call stop
    Self,        \* the callback, calling stop on its own thread
    SelfLimits,  \* the patience it may have
    MaxBodies,   \* bound on the threads started
    Nobody       \* the mutex is free

Callers == Stoppers \union {Owner, Self}
Bodies == 1..MaxBodies

ASSUME ThreadAssumption ==
    /\ Owner \notin Stoppers /\ Self \notin Stoppers \union {Owner}
    /\ SelfLimits \subseteq {"timed", "forever"}
    /\ MaxBodies \in Nat
    /\ Nobody \notin Callers \union Bodies

VARIABLES
    isRunning, isReadyFinished,
    handle, joinable,  \* the std::thread: the body it was made for, if any
    mutex,             \* who holds the mutex across steps
    body,              \* where each started thread is
    call,              \* each caller's place in stop, its patience and its goal
    inside,            \* the body whose callback calls stop, 0 if none does
    fate,              \* the helper: up, destroyed, or the process terminated
    past,              \* history of what may happen at most once
    late               \* history: callers that waited when it was too late

flags == <<isRunning, isReadyFinished>>
thread == <<handle, joinable>>
vars == <<flags, thread, mutex, body, call, inside, fate, past, late>>

Places == {"idle", "test", "join", "lock", "waiting", "woken", "detach",
           "joinLocked", "clear", "start", "assign", "destroy"}

TypeOK ==
    /\ isRunning \in BOOLEAN /\ isReadyFinished \in BOOLEAN
    /\ handle \in Bodies \union {0} /\ joinable \in BOOLEAN
    /\ mutex \in Callers \union Bodies \union {Nobody}
    /\ body \in [Bodies -> {"unborn", "running", "cleared", "leaving", "gone"}]
    /\ call \in [Callers -> [place: Places, limit: {"timed", "forever"},
                             goal: {"stop", "start", "destroy"}]]
    /\ inside \in Bodies \union {0}
    /\ fate \in {"up", "destroyed", "terminated"}
    /\ past \subseteq {"forced", "failed", "overlap", "deadline", "spurious"}
    /\ late \subseteq Callers

Init ==
    /\ isRunning = FALSE /\ isReadyFinished = TRUE
    /\ handle = 0 /\ joinable = FALSE
    /\ mutex = Nobody
    /\ body = [n \in Bodies |-> "unborn"]
    /\ call = [c \in Callers |-> [place |-> "idle", limit |-> "timed", goal |-> "stop"]]
    /\ inside = 0
    /\ fate = "up"
    /\ past = {} /\ late = {}

At(c, place) == fate = "up" /\ call[c].place = place
Busy(c) == call[c].place # "idle"
InStop(c) == call[c].place \notin {"idle", "assign"}
Go(c, place) == call' = [call EXCEPT ![c].place = place]

\* A mutation: stop does not come back to the caller it has.
ReturnToGoal(c) ==
    /\ Go(c, call[c].goal)
    /\ inside' = IF c = Self THEN 0 ELSE inside

\* The end of stop: of the call, or back in start or in the destructor.
Return(c) ==
    /\ Go(c, IF call[c].goal = "stop" THEN "idle" ELSE call[c].goal)
    /\ inside' = IF c = Self THEN 0 ELSE inside
------------------------------------------------------------------------------
(* Calls.                                                                     *)

\* stop sets isReadyFinished before anything else.
BeginStop(c, limit) ==
    /\ At(c, "idle")
    /\ \A d \in Callers :
          Busy(d) => call[d].goal = "stop" \/ (c = Self /\ call[d].place = "assign")
    /\ IF c = Self
       THEN limit \in SelfLimits /\ \E n \in Bodies : body[n] = "running" /\ inside' = n
       ELSE UNCHANGED inside
    /\ isReadyFinished' = TRUE
    /\ call' = [call EXCEPT ![c] = [place |-> "test", limit |-> limit, goal |-> "stop"]]
    /\ past' = IF \E d \in Callers : InStop(d) THEN past \union {"overlap"} ELSE past
    /\ late' = late \ {c}
    /\ UNCHANGED <<isRunning, thread, mutex, body, fate>>

\* start and the destructor stop an earlier thread first, with the default
\* patience; start gives up when isRunning is set.
BeginOwn(goal) ==
    /\ fate = "up" /\ \A c \in Callers : ~Busy(c)
    /\ goal = "start" => ~isRunning /\ \E n \in Bodies : body[n] = "unborn"
    /\ isReadyFinished' = (isReadyFinished \/ handle # 0)
    /\ call' = [call EXCEPT ![Owner] =
          [place |-> IF handle = 0 THEN goal ELSE "test", limit |-> "timed", goal |-> goal]]
    /\ late' = late \ {Owner}
    /\ UNCHANGED <<isRunning, thread, mutex, body, inside, fate, past>>

\* The new thread runs before start has its handle: until then stop finds the
\* handle of the one before, or none.
Start ==
    /\ At(Owner, "start")
    /\ isReadyFinished' = FALSE
    /\ isRunning' = TRUE
    /\ \E n \in Bodies :
          /\ \A k \in Bodies : body[k] = "unborn" <=> k >= n
          /\ body' = [body EXCEPT ![n] = "running"]
    /\ Go(Owner, "assign")
    /\ UNCHANGED <<thread, mutex, inside, fate, past, late>>

Newest(n) == body[n] # "unborn" /\ \A k \in Bodies : k > n => body[k] = "unborn"

\* Assigning to a std::thread that can still be joined ends the process.
AssignHandle ==
    /\ At(Owner, "assign")
    /\ \E n \in Bodies : Newest(n) /\ handle' = n
    /\ fate' = IF joinable THEN "terminated" ELSE fate
    /\ joinable' = TRUE
    /\ Go(Owner, "idle")
    /\ UNCHANGED <<flags, mutex, body, inside, past, late>>

\* The system has no thread to give: the exception is caught, the flags stay.
StartFails ==
    /\ At(Owner, "start")
    /\ isReadyFinished' = FALSE
    /\ isRunning' = TRUE
    /\ past' = past \union {"failed"}
    /\ Go(Owner, "idle")
    /\ UNCHANGED <<thread, mutex, body, inside, fate, late>>

Destroy ==
    /\ At(Owner, "destroy")
    /\ fate' = "destroyed"
    /\ UNCHANGED <<flags, thread, mutex, body, call, inside, past, late>>
------------------------------------------------------------------------------
(* stop.                                                                      *)

\* A mutation: a thread whose callback is over is not joined.
TestNoJoin(c) ==
    /\ At(c, "test")
    /\ IF isRunning /\ joinable THEN Go(c, "lock") /\ UNCHANGED inside ELSE Return(c)
    /\ UNCHANGED <<flags, thread, mutex, body, fate, past, late>>

\* A mutation: a thread whose callback is over is joined without a look.
TestAlwaysJoin(c) ==
    /\ At(c, "test")
    /\ IF isRunning
       THEN IF joinable THEN Go(c, "lock") /\ UNCHANGED inside ELSE Return(c)
       ELSE Go(c, "join") /\ UNCHANGED inside
    /\ UNCHANGED <<flags, thread, mutex, body, fate, past, late>>

\* Lines 169-183, without the mutex.
Test(c) ==
    /\ At(c, "test")
    /\ IF joinable
       THEN Go(c, IF isRunning THEN "lock" ELSE "join") /\ UNCHANGED inside
       ELSE Return(c)
    /\ UNCHANGED <<flags, thread, mutex, body, fate, past, late>>

\* Joining a thread twice, or from itself, throws, and nobody catches it.
CannotJoin(c) == ~joinable \/ (c = Self /\ handle = inside)

Join(c) ==
    /\ \E place \in {"join", "joinLocked"} : At(c, place)
    /\ IF CannotJoin(c)
       THEN fate' = "terminated" /\ UNCHANGED <<joinable, call, inside>>
       ELSE /\ body[handle] = "gone"
            /\ joinable' = FALSE
            /\ IF call[c].place = "join" THEN Return(c)
               ELSE Go(c, "clear") /\ UNCHANGED inside
            /\ UNCHANGED fate
    /\ UNCHANGED <<flags, handle, mutex, body, past, late>>

\* Take the mutex and wait on the condition, which gives it back.
Wait(c) ==
    /\ At(c, "lock") /\ mutex = Nobody
    /\ Go(c, "waiting")
    /\ late' = IF body[handle] \in {"leaving", "gone"} THEN late \union {c} ELSE late
    /\ UNCHANGED <<flags, thread, mutex, body, inside, fate, past>>

Expire(c) ==
    /\ At(c, "waiting") /\ call[c].limit = "timed"
    /\ Go(c, "woken")
    /\ past' = past \union {"deadline"}
    /\ UNCHANGED <<flags, thread, mutex, body, inside, fate, late>>

SpuriousWake(c) ==
    /\ At(c, "waiting")
    /\ Go(c, "woken")
    /\ past' = past \union {"spurious"}
    /\ UNCHANGED <<flags, thread, mutex, body, inside, fate, late>>

\* The mutex again, for the rest of the call; why it woke is not looked at.
Decide(c) ==
    /\ At(c, "woken") /\ mutex = Nobody
    /\ mutex' = c
    /\ Go(c, IF isRunning THEN "detach" ELSE "joinLocked")
    /\ UNCHANGED <<flags, thread, body, inside, fate, past, late>>

\* Detaching what cannot be joined throws; this one is caught.
Detach(c) ==
    /\ At(c, "detach")
    /\ joinable' = FALSE
    /\ past' = IF joinable THEN past \union {"forced"} ELSE past
    /\ Go(c, "clear")
    /\ UNCHANGED <<flags, handle, mutex, body, inside, fate, late>>

Clear(c) ==
    /\ At(c, "clear")
    /\ isRunning' = FALSE
    /\ mutex' = Nobody
    /\ Return(c)
    /\ UNCHANGED <<isReadyFinished, thread, body, fate, past, late>>
------------------------------------------------------------------------------
(* A started thread.                                                          *)

\* A mutation: isRunning is cleared by stop only.
CallbackReturnsRunning(n) ==
    /\ fate = "up" /\ body[n] = "running" /\ inside # n
    /\ body' = [body EXCEPT ![n] = "cleared"]
    /\ UNCHANGED <<flags, thread, mutex, call, inside, fate, past, late>>

\* The callbacks return, when they like or because isReadyFinished is set.
CallbackReturns(n) ==
    /\ fate = "up" /\ body[n] = "running" /\ inside # n
    /\ body' = [body EXCEPT ![n] = "cleared"]
    /\ isRunning' = FALSE
    /\ UNCHANGED <<isReadyFinished, thread, mutex, call, inside, fate, past, late>>

NotifyOne ==
    \/ \E c \in Callers : At(c, "waiting") /\ Go(c, "woken")
    \/ (\A c \in Callers : ~At(c, "waiting")) /\ UNCHANGED call

\* A mutation: the condition is not notified.
LeaveSilently(n) ==
    /\ fate = "up" /\ body[n] = "cleared" /\ mutex = Nobody
    /\ mutex' = n
    /\ body' = [body EXCEPT ![n] = "leaving"]
    /\ UNCHANGED <<flags, thread, call, inside, fate, past, late>>

\* A mutation: the condition is notified before the mutex is taken.
NotifyUnlocked(n) ==
    /\ fate = "up" /\ body[n] = "cleared"
    /\ \/ NotifyOne /\ UNCHANGED <<mutex, body>>
       \/ /\ mutex = Nobody /\ mutex' = n /\ UNCHANGED call
          /\ body' = [body EXCEPT ![n] = "leaving"]
    /\ UNCHANGED <<flags, thread, inside, fate, past, late>>

\* The mutex is held from here to the end of the thread.
Notify(n) ==
    /\ fate = "up" /\ body[n] = "cleared" /\ mutex = Nobody
    /\ mutex' = n
    /\ body' = [body EXCEPT ![n] = "leaving"]
    /\ NotifyOne
    /\ UNCHANGED <<flags, thread, inside, fate, past, late>>

Leave(n) ==
    /\ fate = "up" /\ body[n] = "leaving"
    /\ mutex' = Nobody
    /\ body' = [body EXCEPT ![n] = "gone"]
    /\ UNCHANGED <<flags, thread, call, inside, fate, past, late>>
------------------------------------------------------------------------------
Stopping(c) ==
    Test(c) \/ Join(c) \/ Wait(c) \/ Expire(c) \/ Decide(c) \/ Detach(c) \/ Clear(c)

Ending(n) == Notify(n) \/ Leave(n)

Next ==
    \/ \E c \in Callers :
          \/ \E limit \in {"timed", "forever"} : BeginStop(c, limit)
          \/ Stopping(c) \/ SpuriousWake(c)
    \/ \E goal \in {"start", "destroy"} : BeginOwn(goal)
    \/ Start \/ AssignHandle \/ StartFails \/ Destroy
    \/ \E n \in Bodies : CallbackReturns(n) \/ Ending(n)

Spec == Init /\ [][Next]_vars

\* Every thread that can run does, deadlines pass, and a callback that is asked
\* to finish does so.
FairSpec ==
    /\ Spec
    /\ \A c \in Callers : WF_vars(Stopping(c))
    /\ WF_vars(Start \/ AssignHandle \/ StartFails \/ Destroy)
    /\ \A n \in Bodies :
          WF_vars(Ending(n)) /\ WF_vars(isReadyFinished /\ CallbackReturns(n))
------------------------------------------------------------------------------
(* Properties.                                                                *)

\* isRunning tells the truth about the callbacks, whoever stops and restarts,
\* as long as no thread was detached and no start failed: what start (line 132)
\* and Queue::asyncRun decide by.
RunningIsTrue ==
    past \intersect {"forced", "failed"} = {} =>
        (isRunning <=> \E n \in Bodies : body[n] = "running")

\* stop holds the mutex while it joins (line 209), and the thread it joins
\* needs that mutex to end (line 153) ...
Trapped ==
    \E c \in Callers : call[c].place = "joinLocked" /\ body[handle] = "cleared"

\* ... which cannot meet unless a deadline, or a wakeup for no reason, falls
\* between the thread's lines 152 and 153: whoever the thread itself woke finds
\* it past the mutex.
TrapNeedsDeadline == Trapped => past \intersect {"deadline", "spurious"} # {}

\* Stopping, restarting and destroying in any order never joins a thread twice
\* or from itself, nor overwrites one that runs -- unless two calls of stop
\* overlap, or a thread that was detached ends late and clears the isRunning of
\* its successor (line 152), whose callback then stops, and joins, itself.
TerminatesForAReason == fate = "terminated" => past \intersect {"overlap", "forced"} # {}

\* The destructor leaves no thread behind to use the helper it deletes, unless
\* a stop ran out of patience and detached it.
NoBodyLeftBehind ==
    fate = "destroyed" /\ "forced" \notin past =>
        \A n \in Bodies : body[n] \in {"unborn", "gone"}

\* A stop that no other stop overlaps returns -- unless it is trapped, or waits
\* without a deadline for a thread that had notified before it came to wait.
StopReturns ==
    \A c \in Callers :
        Busy(c) ~> \/ ~Busy(c) \/ fate # "up" \/ "overlap" \in past
                   \/ Trapped
                   \/ c \in late /\ call[c].limit = "forever"
===============================================================================
