----------------------------- MODULE ThreadProofs -----------------------------
(* What Thread promises, for any number of threads and of callers that stop   *)
(* them: proofs of the invariants of Thread.                                  *)
EXTENDS Thread, TLAPS

Noted(S) == past \intersect S # {}
Live(n) == body[n] \in {"running", "cleared", "leaving"}

\* Only the owner has another goal than to stop, and then nobody else is busy --
\* but for the callback it has just started, whose stop finds no handle.
GoalsInv ==
    /\ \A c \in Callers : c # Owner => call[c].goal = "stop"
    /\ \A c \in Callers : call[c].place \in {"start", "destroy"} => call[c].goal = call[c].place
    /\ \A c \in Callers : call[c].place = "assign" => c = Owner /\ call[c].goal = "start"
    /\ \A c, d \in Callers :
          c # d /\ Busy(c) /\ Busy(d) => call[c].goal = "stop" \/ call[c].place = "assign"

\* While start has no handle yet, the thread is there and nobody got far in stop.
AssignInv ==
    call[Owner].place = "assign" =>
        /\ \A c \in Callers \ {Owner} :
              call[c].place = "idle" \/ (c = Self /\ call[c].place = "test")
        /\ \E n \in Bodies : Newest(n)

\* Whoever is past joining or detaching finds no thread that can be joined.
PastInv ==
    /\ joinable => handle # 0
    /\ \A c \in Callers : call[c].place \in {"clear", "start", "assign", "destroy"} => ~joinable

\* A thread whose handle start has not got yet.
Pending(n) == call[Owner].place = "assign" /\ Newest(n)

\* Unless it was detached, a thread that has not ended is the one of the handle,
\* or will be.
HeldInv ==
    /\ "forced" \notin past =>
          /\ \A n \in Bodies : Live(n) => (n = handle /\ joinable) \/ Pending(n)
          /\ (\E n \in Bodies : body[n] = "running") => isRunning
          /\ isRunning /\ joinable => body[handle] = "running"
          /\ isRunning => \A n \in Bodies : Pending(n) => body[n] = "running"
          /\ isRunning /\ "failed" \notin past => joinable \/ call[Owner].place = "assign"
    /\ NoBodyLeftBehind

\* A callback that calls stop has not returned, and does not join itself.
SelfInv ==
    /\ Busy(Self) => inside \in Bodies /\ body[inside] = "running"
    /\ "forced" \notin past => call[Self].place \notin {"join", "joinLocked"}

\* A caller that is alone joins what can be joined.
AloneInv ==
    /\ "overlap" \notin past =>
          /\ \A c, d \in Callers : InStop(c) /\ InStop(d) => c = d
          /\ \A c \in Callers :
                call[c].place \in {"join", "lock", "waiting", "woken", "joinLocked"} => joinable
    /\ TerminatesForAReason

\* Without a deadline or a spurious wakeup, whoever is awake was woken by the
\* thread of the handle, which has the mutex by then.
WokenInv ==
    ~Noted({"deadline", "spurious"}) =>
        /\ "forced" \notin past
        /\ \A c \in Callers :
              /\ call[c].place \in {"woken", "detach", "joinLocked"} =>
                    handle # 0 /\ body[handle] \in {"leaving", "gone"}
              /\ call[c].place = "detach" => ~joinable

Inv ==
    /\ TypeOK /\ GoalsInv /\ AssignInv /\ PastInv
    /\ HeldInv /\ SelfInv /\ AloneInv /\ WokenInv
------------------------------------------------------------------------------
(* What a caller's step does to its place and to nobody else's.               *)

\* A caller that goes on keeps its goal and its patience.
LEMMA Moves ==
    ASSUME TypeOK, NEW c \in Callers, NEW place, Go(c, place)
    PROVE  /\ call'[c].place = place
           /\ \A d \in Callers : d # c => call'[d] = call[d]
           /\ \A d \in Callers : call'[d].goal = call[d].goal /\ call'[d].limit = call[d].limit
BY DEF TypeOK, Go

\* The end of stop brings a caller home, or back to the start or the destructor
\* that called it.
LEMMA Returns ==
    ASSUME TypeOK, NEW c \in Callers, Return(c)
    PROVE  /\ call'[c].place \in {"idle", "start", "destroy"}
           /\ call'[c].place # "idle" => call'[c].place = call[c].goal
           /\ \A d \in Callers : d # c => call'[d] = call[d]
           /\ \A d \in Callers : call'[d].goal = call[d].goal /\ call'[d].limit = call[d].limit
           /\ inside' = IF c = Self THEN 0 ELSE inside
BY DEF TypeOK, Return, Go

\* A call of stop begins at its test and disturbs no other caller.
LEMMA Calls ==
    ASSUME TypeOK, NEW c \in Callers, NEW limit \in {"timed", "forever"}, BeginStop(c, limit)
    PROVE  /\ call'[c] = [place |-> "test", limit |-> limit, goal |-> "stop"]
           /\ \A d \in Callers : d # c => call'[d] = call[d]
BY DEF TypeOK, BeginStop

CallType == [Callers -> [place: Places, limit: {"timed", "forever"},
                         goal: {"stop", "start", "destroy"}]]

\* A place is a place: moving a caller keeps the type of call.
LEMMA GoTyped ==
    ASSUME call \in CallType, NEW c \in Callers, NEW place \in Places, Go(c, place)
    PROVE  call' \in CallType
<1>1. [call[c] EXCEPT !.place = place] \in
         [place: Places, limit: {"timed", "forever"}, goal: {"stop", "start", "destroy"}]
  <2> DEFINE r == call[c]
  <2>1. r \in [place: Places, limit: {"timed", "forever"}, goal: {"stop", "start", "destroy"}]
    BY DEF CallType
  <2> HIDE DEF r
  <2>2. [r EXCEPT !.place = place] \in
           [place: Places, limit: {"timed", "forever"}, goal: {"stop", "start", "destroy"}]
    BY <2>1
  <2> QED
    BY <2>2 DEF r
<1>2. call' = [call EXCEPT ![c] = [call[c] EXCEPT !.place = place]]
  BY Zenon DEF Go
<1> QED
  BY <1>1, <1>2 DEF CallType

\* Every step moves one caller, sets up one, or leaves them all.
LEMMA CallsKeepType == TypeOK /\ [Next]_vars => call' \in CallType
<1> SUFFICES ASSUME TypeOK, [Next]_vars PROVE call' \in CallType
  OBVIOUS
<1>0. Owner \in Callers /\ call \in CallType
  BY DEF Callers, TypeOK, CallType
<1>1. ASSUME NEW c \in Callers, NEW limit \in {"timed", "forever"}, BeginStop(c, limit)
      PROVE  call' \in CallType
  <2>1. call' = [call EXCEPT ![c] = [place |-> "test", limit |-> limit, goal |-> "stop"]]
    BY <1>1 DEF BeginStop
  <2> QED
    BY <1>0, <2>1 DEF CallType, Places
<1>2. ASSUME NEW goal \in {"start", "destroy"}, BeginOwn(goal) PROVE call' \in CallType
  <2>1. call' = [call EXCEPT ![Owner] = [place |-> IF handle = 0 THEN goal ELSE "test",
                                        limit |-> "timed", goal |-> goal]]
    BY <1>2 DEF BeginOwn
  <2> QED
    BY <1>0, <2>1 DEF CallType, Places
<1>3. CASE \/ UNCHANGED call
           \/ \E c \in Callers, place \in Places : Go(c, place)
  BY <1>0, <1>3, GoTyped
<1>4. ASSUME NEW c \in Callers, Return(c) PROVE call' \in CallType
  <2>1. PICK place : place = (IF call[c].goal = "stop" THEN "idle" ELSE call[c].goal)
    OBVIOUS
  <2>2. place \in Places
    BY <1>0, <2>1 DEF CallType, Places
  <2> QED
    BY <1>0, <1>4, <2>1, <2>2, GoTyped DEF Return
<1>5. CASE \/ Start \/ AssignHandle \/ StartFails \/ Destroy
           \/ \E c \in Callers : Stopping(c) \/ SpuriousWake(c)
  <2>1. \/ UNCHANGED call
        \/ \E c \in Callers : Return(c)
        \/ \E c \in Callers, place \in Places : Go(c, place)
    BY <1>0, <1>5 DEF Start, AssignHandle, StartFails, Destroy, Stopping, SpuriousWake, Test,
       Join, Wait,
       Expire, Decide, Detach, Clear, Places
  <2> QED
    BY <1>3, <1>4, <2>1
<1>6. ASSUME NEW n \in Bodies, CallbackReturns(n) \/ Ending(n)
      PROVE  \/ UNCHANGED call
             \/ \E c \in Callers, place \in Places : Go(c, place)
  BY <1>6 DEF CallbackReturns, Ending, Notify, Leave, NotifyOne, Places
<1> QED
  BY <1>0, <1>1, <1>2, <1>3, <1>5, <1>6 DEF Next, vars

\* The type invariant: flags, places and threads keep their types whoever calls.
LEMMA TypeStep == TypeOK /\ [Next]_vars => TypeOK'
<1> SUFFICES ASSUME TypeOK, [Next]_vars PROVE TypeOK'
  OBVIOUS
<1> USE ThreadAssumption
<1>0. call' \in CallType
  BY CallsKeepType
<1>1. ASSUME NEW c \in Callers, NEW limit \in {"timed", "forever"}, BeginStop(c, limit)
      PROVE  TypeOK'
  BY <1>0, <1>1 DEF TypeOK, CallType, BeginStop, thread
<1>2. ASSUME NEW goal \in {"start", "destroy"}, BeginOwn(goal) PROVE TypeOK'
  BY <1>0, <1>2 DEF TypeOK, CallType, BeginOwn, thread, Callers
<1>3. CASE Start \/ AssignHandle \/ StartFails \/ Destroy
  BY <1>0, <1>3 DEF TypeOK, CallType, Start, AssignHandle, StartFails, Destroy, thread, flags
<1>4. ASSUME NEW c \in Callers, Test(c) \/ Join(c) \/ Clear(c) PROVE TypeOK'
  BY <1>0, <1>4 DEF TypeOK, CallType, Test, Join, Clear, Return, thread, flags
<1>5. ASSUME NEW c \in Callers, Wait(c) \/ Expire(c) \/ SpuriousWake(c) PROVE TypeOK'
  BY <1>0, <1>5 DEF TypeOK, CallType, Wait, Expire, SpuriousWake, thread, flags
<1>6. ASSUME NEW c \in Callers, Decide(c) \/ Detach(c) PROVE TypeOK'
  BY <1>0, <1>6 DEF TypeOK, CallType, Decide, Detach, thread, flags
<1>7. ASSUME NEW n \in Bodies, CallbackReturns(n) \/ Ending(n) PROVE TypeOK'
  BY <1>0, <1>7 DEF TypeOK, CallType, CallbackReturns, Ending, Notify, Leave, thread, flags
<1>8. CASE UNCHANGED vars
  BY <1>8 DEF TypeOK, vars, flags, thread
<1> QED
  BY <1>1, <1>2, <1>3, <1>4, <1>5, <1>6, <1>7, <1>8 DEF Next, Stopping

\* Stop never turns into a start, and nobody calls while the owner starts or
\* destroys.
LEMMA GoalsStep == TypeOK /\ GoalsInv /\ [Next]_vars => GoalsInv'
<1> SUFFICES ASSUME TypeOK, GoalsInv, [Next]_vars PROVE GoalsInv'
  OBVIOUS
<1> USE ThreadAssumption
<1>0. Owner \in Callers
  BY DEF Callers
<1>1. ASSUME NEW c \in Callers, NEW limit \in {"timed", "forever"}, BeginStop(c, limit)
      PROVE  GoalsInv'
  <2>1. \A d \in Callers : Busy(d) => call[d].goal = "stop" \/ call[d].place = "assign"
    BY <1>1 DEF BeginStop
  <2> QED
    BY <1>1, <2>1, Calls DEF GoalsInv, Busy
<1>2. ASSUME NEW goal \in {"start", "destroy"}, BeginOwn(goal) PROVE GoalsInv'
  BY <1>0, <1>2 DEF TypeOK, GoalsInv, BeginOwn, Busy
<1>3. CASE Start \/ AssignHandle \/ StartFails \/ Destroy
  <2>1. \/ Go(Owner, "idle") \/ UNCHANGED call
        \/ Go(Owner, "assign") /\ call[Owner].goal = "start"
    BY <1>0, <1>3 DEF Start, AssignHandle, StartFails, Destroy, GoalsInv, At
  <2> QED
    BY <1>0, <2>1, Moves DEF GoalsInv, Busy
<1>4. ASSUME NEW c \in Callers, Return(c), Busy(c), call[c].place # "assign" PROVE GoalsInv'
  BY <1>4, Returns DEF GoalsInv, Busy
<1>5. ASSUME NEW c \in Callers, NEW place \in Places \ {"start", "assign", "destroy"},
             Go(c, place), Busy(c), call[c].place # "assign"
      PROVE  GoalsInv'
  BY <1>5, Moves DEF GoalsInv, Busy
<1>6. ASSUME NEW c \in Callers, Stopping(c) \/ SpuriousWake(c) PROVE GoalsInv'
  <2>1. Busy(c) /\ call[c].place # "assign"
    BY <1>6 DEF Stopping, SpuriousWake, Test, Join, Wait, Expire, Decide, Detach, Clear,
       At, Busy
  <2>2. \/ Return(c)
        \/ \E place \in Places \ {"start", "assign", "destroy"} : Go(c, place)
        \/ UNCHANGED call
    BY <1>6 DEF Stopping, SpuriousWake, Test, Join, Wait, Expire, Decide, Detach, Clear,
       Places
  <2> QED
    BY <1>4, <1>5, <2>1, <2>2 DEF GoalsInv, Busy
<1>7. ASSUME NEW n \in Bodies, CallbackReturns(n) \/ Ending(n) PROVE GoalsInv'
  <2>1. \/ UNCHANGED call
        \/ \E c \in Callers :
              Busy(c) /\ call[c].place # "assign" /\ Go(c, "woken")
    BY <1>7 DEF CallbackReturns, Ending, Notify, Leave, NotifyOne, At, Busy
  <2> QED
    BY <1>5, <2>1 DEF GoalsInv, Busy, Places
<1>8. CASE UNCHANGED vars
  BY <1>8 DEF GoalsInv, Busy, vars
<1> QED
  BY <1>1, <1>2, <1>3, <1>6, <1>7, <1>8 DEF Next

\* The owner starts a thread, and destroys, alone.
LEMMA OwnerAlone ==
    ASSUME TypeOK, GoalsInv, NEW place \in {"start", "destroy"}, At(Owner, place)
    PROVE  /\ Owner \in Callers
           /\ call[Owner].place = place /\ Busy(Owner)
           /\ \A c \in Callers : c # Owner => call[c].place = "idle"
<1>1. Owner \in Callers
  BY DEF Callers
<1>2. call[Owner].place = place /\ call[Owner].goal = place /\ Busy(Owner)
  BY <1>1 DEF At, GoalsInv, Busy
<1> QED
  BY <1>1, <1>2 DEF GoalsInv, Busy

\* Only start itself begins and ends the time when a thread has no handle.
LEMMA PendingKept ==
    ASSUME TypeOK, GoalsInv, [Next]_vars, ~Start, ~AssignHandle
    PROVE  /\ call'[Owner].place = "assign" <=> call[Owner].place = "assign"
           /\ \A n \in Bodies : body'[n] = "unborn" <=> body[n] = "unborn"
           /\ \A n \in Bodies : Pending(n)' <=> Pending(n)
<1>0. /\ Owner \in Callers
      /\ body \in [Bodies -> {"unborn", "running", "cleared", "leaving", "gone"}]
  BY DEF TypeOK, Callers
<1>1. \A n \in Bodies : body'[n] = "unborn" <=> body[n] = "unborn"
  BY <1>0 DEF Next, BeginStop, BeginOwn, StartFails, Destroy, Stopping, SpuriousWake, Test,
     Join, Wait, Expire, Decide, Detach, Clear, CallbackReturns, Ending, Notify, Leave, vars
<1>2. \/ UNCHANGED call
      \/ \E c \in Callers : call[c].place # "assign" /\ Return(c)
      \/ \E c \in Callers, place \in Places \ {"assign"} :
            call[c].place # "assign" /\ Go(c, place)
      \/ \E c \in Callers, limit \in {"timed", "forever"} : BeginStop(c, limit)
      \/ \E goal \in {"start", "destroy"} : BeginOwn(goal)
  BY <1>0 DEF Next, StartFails, Destroy, Stopping, SpuriousWake, Test, Join, Wait, Expire,
     Decide, Detach, Clear, CallbackReturns, Ending, Notify, Leave, NotifyOne, Places, At, vars
<1>3. ASSUME NEW c \in Callers, NEW limit \in {"timed", "forever"}, BeginStop(c, limit)
      PROVE  call'[Owner].place = "assign" <=> call[Owner].place = "assign"
  BY <1>0, <1>3, Calls DEF BeginStop, At
<1>4. ASSUME NEW goal \in {"start", "destroy"}, BeginOwn(goal)
      PROVE  call'[Owner].place # "assign" /\ call[Owner].place # "assign"
  BY <1>0, <1>4 DEF BeginOwn, Busy, TypeOK
<1>5. call'[Owner].place = "assign" <=> call[Owner].place = "assign"
  BY <1>0, <1>2, <1>3, <1>4, Moves, Returns
<1> QED
  BY <1>1, <1>5 DEF Pending, Newest

\* Until start has the handle, the callback it started returns from stop at once.
LEMMA AssignStep ==
    TypeOK /\ GoalsInv /\ AssignInv /\ PastInv /\ [Next]_vars => AssignInv'
<1> SUFFICES ASSUME TypeOK, GoalsInv, AssignInv, PastInv, [Next]_vars,
                    call'[Owner].place = "assign"
             PROVE  /\ \A c \in Callers \ {Owner} :
                          call'[c].place = "idle" \/ (c = Self /\ call'[c].place = "test")
                    /\ \E n \in Bodies : Newest(n)'
  BY DEF AssignInv
<1>0. /\ Owner \in Callers
      /\ body \in [Bodies -> {"unborn", "running", "cleared", "leaving", "gone"}]
  BY DEF TypeOK, Callers
<1>1. CASE Start
  <2>1. \A c \in Callers \ {Owner} : call'[c].place = "idle"
    BY <1>1, OwnerAlone, Moves DEF Start
  <2>2. PICK n \in Bodies : /\ \A k \in Bodies : body[k] = "unborn" <=> k >= n
                            /\ body' = [body EXCEPT ![n] = "running"]
    BY <1>1 DEF Start
  <2>3. body'[n] = "running" /\ \A k \in Bodies : k > n => body'[k] = "unborn"
    BY <1>0, <2>2 DEF Bodies
  <2> QED
    BY <2>1, <2>3 DEF Newest
<1>2. ASSUME ~Start PROVE call[Owner].place = "assign" /\ ~AssignHandle
  <2>1. ~AssignHandle
    BY <1>0, Moves DEF AssignHandle
  <2> QED
    BY <1>2, <2>1, PendingKept
<1>3. CASE ~Start
  <2>1. \A n \in Bodies : body'[n] = "unborn" <=> body[n] = "unborn"
    BY <1>2, <1>3, PendingKept
  <2>2. ~joinable /\ \E n \in Bodies : Newest(n)
    BY <1>0, <1>2, <1>3 DEF AssignInv, PastInv
  <2>3. \A c \in Callers \ {Owner} :
           call[c].place = "idle" \/ (c = Self /\ call[c].place = "test")
    BY <1>2, <1>3 DEF AssignInv
  <2>4. \/ UNCHANGED call
        \/ \E c \in Callers : At(c, "test") /\ Return(c)
        \/ \E limit \in {"timed", "forever"} : BeginStop(Self, limit)
    <3>1. ASSUME NEW c \in Callers, Stopping(c) \/ SpuriousWake(c)
          PROVE  At(c, "test") /\ Return(c)
      <4>1. call[c].place = "test"
        BY <1>2, <1>3, <2>3, <3>1 DEF Stopping, SpuriousWake, Test, Join, Wait, Expire, Decide,
           Detach, Clear, At
      <4> QED
        BY <2>2, <3>1, <4>1 DEF Stopping, SpuriousWake, Test, Join, Wait, Expire, Decide,
           Detach, Clear, At
    <3>2. ASSUME NEW c \in Callers, NEW limit \in {"timed", "forever"}, BeginStop(c, limit)
          PROVE  c = Self
      BY <1>0, <1>2, <1>3, <3>2, Calls DEF BeginStop, Busy, At, GoalsInv
    <3>3. ASSUME NEW goal \in {"start", "destroy"}, BeginOwn(goal) PROVE FALSE
      BY <1>0, <1>2, <1>3, <3>3 DEF BeginOwn, Busy
    <3>4. ASSUME AssignHandle \/ StartFails \/ Destroy PROVE FALSE
      BY <1>0, <1>2, <1>3, <3>4, Moves DEF AssignHandle, StartFails, Destroy, At
    <3>5. ASSUME NEW n \in Bodies, CallbackReturns(n) \/ Ending(n) PROVE UNCHANGED call
      BY <1>2, <1>3, <2>3, <3>5 DEF CallbackReturns, Ending, Notify, Leave, NotifyOne, At
    <3> QED
      BY <1>3, <3>1, <3>2, <3>3, <3>4, <3>5 DEF Next, vars
  <2>5. \A c \in Callers \ {Owner} :
           call'[c].place = "idle" \/ (c = Self /\ call'[c].place = "test")
    BY <2>3, <2>4, Calls, Returns DEF GoalsInv, Callers
  <2> QED
    BY <2>1, <2>2, <2>5 DEF Newest
<1> QED
  BY <1>1, <1>3

\* What was joined or detached can not be joined again until the owner starts.
LEMMA PastStep == TypeOK /\ GoalsInv /\ AssignInv /\ PastInv /\ [Next]_vars => PastInv'
<1> SUFFICES ASSUME TypeOK, GoalsInv, AssignInv, PastInv, [Next]_vars PROVE PastInv'
  OBVIOUS
<1>0. Owner \in Callers
  BY DEF Callers
<1>1. ASSUME NEW c \in Callers, NEW limit \in {"timed", "forever"}, BeginStop(c, limit)
      PROVE  PastInv'
  BY <1>1, Calls DEF PastInv, BeginStop, thread
<1>2. ASSUME NEW goal \in {"start", "destroy"}, BeginOwn(goal) PROVE PastInv'
  <2>1. /\ call'[Owner].place = IF handle = 0 THEN goal ELSE "test"
        /\ \A d \in Callers : d # Owner => call'[d] = call[d]
    BY <1>0, <1>2 DEF TypeOK, BeginOwn
  <2> QED
    BY <1>2, <2>1 DEF PastInv, BeginOwn, thread
<1>3. CASE Start
  <2>1. ~joinable /\ Go(Owner, "assign") /\ UNCHANGED thread
    BY <1>3, OwnerAlone DEF Start, PastInv
  <2> QED
    BY <1>0, <2>1, Moves DEF PastInv, thread
<1>a. CASE AssignHandle
  <2>1. \A c \in Callers : call'[c].place \in {"idle", "test"}
    BY <1>0, <1>a, Moves DEF AssignHandle, AssignInv, At
  <2> QED
    BY <1>a, <2>1 DEF PastInv, AssignHandle, Bodies
<1>4. CASE StartFails \/ Destroy
  <2>1. Go(Owner, "idle") \/ UNCHANGED call
    BY <1>4 DEF StartFails, Destroy
  <2> QED
    BY <1>0, <1>4, <2>1, Moves DEF PastInv, StartFails, Destroy, thread
<1>5. ASSUME NEW c \in Callers, Test(c) \/ Join(c) \/ Clear(c) PROVE PastInv'
  <2>1. \/ UNCHANGED <<thread, call>>
        \/ ~joinable /\ Return(c) /\ UNCHANGED thread
        \/ ~joinable' /\ (Return(c) \/ Go(c, "clear")) /\ UNCHANGED handle
        \/ \E place \in {"lock", "join"} : Go(c, place) /\ UNCHANGED thread
    BY <1>5 DEF PastInv, Test, Join, Clear, thread, At
  <2> QED
    BY <2>1, Moves, Returns DEF PastInv, thread
<1>6. ASSUME NEW c \in Callers,
             Wait(c) \/ Expire(c) \/ SpuriousWake(c) \/ Decide(c) \/ Detach(c)
      PROVE  PastInv'
  <2>1. \/ ~joinable' /\ Go(c, "clear") /\ UNCHANGED handle
        \/ \E place \in {"waiting", "woken", "detach", "joinLocked"} :
              Go(c, place) /\ UNCHANGED thread
    BY <1>6 DEF Wait, Expire, SpuriousWake, Decide, Detach, thread
  <2> QED
    BY <2>1, Moves DEF PastInv, thread
<1>7. ASSUME NEW n \in Bodies, CallbackReturns(n) \/ Ending(n) PROVE PastInv'
  <2>1. UNCHANGED thread /\ (UNCHANGED call \/ \E c \in Callers : Go(c, "woken"))
    BY <1>7 DEF CallbackReturns, Ending, Notify, Leave, NotifyOne
  <2> QED
    BY <2>1, Moves DEF PastInv, thread
<1>8. CASE UNCHANGED vars
  BY <1>8 DEF PastInv, vars, thread
<1> QED
  BY <1>1, <1>2, <1>3, <1>a, <1>4, <1>5, <1>6, <1>7, <1>8 DEF Next, Stopping

\* Only a detach (line 201) leaves behind a thread the handle does not hold.
LEMMA HeldStep ==
    TypeOK /\ GoalsInv /\ AssignInv /\ PastInv /\ HeldInv /\ [Next]_vars => HeldInv'
<1> SUFFICES ASSUME TypeOK, GoalsInv, AssignInv, PastInv, HeldInv, [Next]_vars
             PROVE  HeldInv'
  OBVIOUS
<1> USE DEF HeldInv, NoBodyLeftBehind, Live
<1>0. /\ body \in [Bodies -> {"unborn", "running", "cleared", "leaving", "gone"}]
      /\ isRunning \in BOOLEAN /\ joinable \in BOOLEAN /\ handle \in Bodies \union {0}
      /\ Owner \in Callers
  BY DEF TypeOK, Callers
<1>1. CASE Start
  <2>1. ~joinable /\ fate = "up" /\ \A n \in Bodies : ~Pending(n)
    BY <1>1, OwnerAlone DEF Start, PastInv, At, Pending
  <2>2. PICK n \in Bodies : /\ \A k \in Bodies : body[k] = "unborn" <=> k >= n
                            /\ body' = [body EXCEPT ![n] = "running"]
    BY <1>1 DEF Start
  <2>3. fate' = "up" /\ ~joinable' /\ isRunning' /\ past' = past
        /\ call'[Owner].place = "assign"
    BY <1>0, <1>1, <2>1, Moves DEF Start, thread
  <2>4. \A k \in Bodies : Pending(k)' <=> k = n
    BY <1>0, <2>2, <2>3 DEF Pending, Newest, Bodies
  <2>5. \A k \in Bodies : body'[k] = IF k = n THEN "running" ELSE body[k]
    BY <1>0, <2>2
  <2> QED
    BY <2>1, <2>3, <2>4, <2>5
<1>a. CASE AssignHandle
  <2>1. ~joinable /\ fate = "up" /\ call[Owner].place = "assign" /\ call'[Owner].place = "idle"
    BY <1>0, <1>a, Moves DEF AssignHandle, PastInv, At
  <2>2. PICK n \in Bodies : Newest(n) /\ handle' = n
    BY <1>a DEF AssignHandle
  <2>3. \A k \in Bodies : Pending(k) <=> k = n
    BY <1>0, <2>1, <2>2 DEF Pending, Newest, Bodies
  <2>4. \A k \in Bodies : ~Pending(k)'
    BY <2>1 DEF Pending
  <2>5. /\ fate' = "up" /\ joinable' = TRUE
        /\ isRunning' = isRunning /\ body' = body /\ past' = past
    BY <1>a, <2>1 DEF AssignHandle, flags
  <2> QED
    BY <2>1, <2>2, <2>3, <2>4, <2>5
<1>b. ASSUME ~Start, ~AssignHandle
      PROVE  /\ call'[Owner].place = "assign" <=> call[Owner].place = "assign"
             /\ \A n \in Bodies : Pending(n)' <=> Pending(n)
  BY <1>b, PendingKept
<1>2. CASE StartFails
  <2>1. ~joinable /\ call[Owner].place = "start" /\ call'[Owner].place = "idle"
    BY <1>2, OwnerAlone, Moves DEF StartFails, PastInv, At
  <2>2. \A n \in Bodies : ~Pending(n) /\ ~Pending(n)'
    BY <2>1 DEF Pending
  <2> QED
    BY <1>0, <1>2, <2>1, <2>2 DEF StartFails, thread, At
<1>3. CASE Destroy
  <2>1. ~joinable /\ call' = call /\ body' = body /\ call[Owner].place = "destroy"
    BY <1>3, OwnerAlone DEF Destroy, PastInv
  <2>2. \A n \in Bodies : ~Pending(n) /\ ~Pending(n)'
    BY <2>1 DEF Pending
  <2> QED
    BY <1>0, <1>3, <2>1, <2>2 DEF Destroy, thread, flags
<1>c. /\ \A n \in Bodies : Pending(n) => ~joinable
      /\ \A n, m \in Bodies : Pending(n) /\ Pending(m) => n = m
  BY <1>0 DEF Pending, PastInv, Newest, Bodies
<1>4. ASSUME NEW c \in Callers, Join(c), ~Start, ~AssignHandle PROVE HeldInv'
  <2>1. CASE CannotJoin(c)
    BY <1>b, <1>4, <2>1 DEF Join, flags
  <2>2. CASE ~CannotJoin(c)
    BY <1>0, <1>b, <1>4, <2>2 DEF Join, flags, CannotJoin, At
  <2> QED
    BY <2>1, <2>2
<1>5. ASSUME NEW c \in Callers, Detach(c), ~Start, ~AssignHandle PROVE HeldInv'
  <2>1. CASE joinable
    BY <1>0, <1>5, <2>1 DEF Detach, flags, At
  <2>2. CASE ~joinable
    BY <1>0, <1>b, <1>5, <2>2 DEF Detach, flags, At
  <2> QED
    BY <2>1, <2>2
<1>6. ASSUME NEW c \in Callers, Clear(c), ~Start, ~AssignHandle PROVE HeldInv'
  <2>1. ~joinable /\ \A n \in Bodies : ~Pending(n)
    BY <1>6 DEF Clear, PastInv, At, AssignInv, Pending
  <2> QED
    BY <1>0, <1>b, <1>6, <2>1 DEF Clear, thread, At
<1>7. ASSUME NEW n \in Bodies, CallbackReturns(n) \/ Notify(n) \/ Leave(n),
             ~Start, ~AssignHandle
      PROVE  HeldInv'
  <2>1. CASE CallbackReturns(n)
    <3>1. ASSUME NEW m \in Bodies, body[m] = "running", "forced" \notin past PROVE m = n
      <4>1. Live(m) /\ Live(n) /\ n \in Bodies
        BY <1>7, <2>1, <3>1 DEF CallbackReturns
      <4>2. /\ (m = handle /\ joinable) \/ Pending(m)
            /\ (n = handle /\ joinable) \/ Pending(n)
        BY <3>1, <4>1
      <4> QED
        BY <1>c, <3>1, <4>1, <4>2
    <3>2. \A m \in Bodies : body'[m] = IF m = n THEN "cleared" ELSE body[m]
      BY <1>0, <2>1 DEF CallbackReturns
    <3> QED
      BY <1>7, <1>b, <2>1, <3>1, <3>2 DEF CallbackReturns, thread
  <2>2. CASE Notify(n) \/ Leave(n)
    BY <1>0, <1>7, <1>b, <2>2 DEF Notify, Leave, thread, flags
  <2> QED
    BY <1>7, <2>1, <2>2
<1>8. ASSUME UNCHANGED <<isRunning, thread, body, fate>>, ~Start, ~AssignHandle,
             "forced" \notin past' => "forced" \notin past,
             "failed" \notin past' => "failed" \notin past
      PROVE  HeldInv'
  BY <1>b, <1>8 DEF thread
<1>9. ASSUME NEW c \in Callers, ~Start, ~AssignHandle,
             \/ \E limit \in {"timed", "forever"} : BeginStop(c, limit)
             \/ Test(c) \/ Wait(c) \/ Expire(c) \/ SpuriousWake(c) \/ Decide(c)
      PROVE  HeldInv'
  BY <1>8, <1>9 DEF BeginStop, Test, Wait, Expire, SpuriousWake, Decide, flags
<1>10. ASSUME NEW goal \in {"start", "destroy"}, BeginOwn(goal), ~Start, ~AssignHandle
       PROVE  HeldInv'
  BY <1>8, <1>10 DEF BeginOwn
<1>11. ASSUME UNCHANGED vars, ~Start, ~AssignHandle PROVE HeldInv'
  BY <1>8, <1>11 DEF vars, flags
<1> QED
  BY <1>1, <1>a, <1>2, <1>3, <1>4, <1>5, <1>6, <1>7, <1>9, <1>10, <1>11
  DEF Next, Stopping, Ending

\* The callback that stops its own thread finds isRunning set, and waits.
LEMMA SelfStep ==
    TypeOK /\ GoalsInv /\ PastInv /\ HeldInv /\ SelfInv /\ [Next]_vars => SelfInv'
<1> SUFFICES ASSUME TypeOK, GoalsInv, PastInv, HeldInv, SelfInv, [Next]_vars PROVE SelfInv'
  OBVIOUS
<1> USE ThreadAssumption DEF SelfInv, Busy
<1>0. /\ Self \in Callers /\ Owner \in Callers /\ Self # Owner
      /\ body \in [Bodies -> {"unborn", "running", "cleared", "leaving", "gone"}]
      /\ isRunning \in BOOLEAN /\ joinable \in BOOLEAN
  BY DEF TypeOK, Callers
<1>1. ASSUME NEW c \in Callers, NEW limit \in {"timed", "forever"}, BeginStop(c, limit)
      PROVE  SelfInv'
  <2>1. CASE c = Self
    BY <1>1, <2>1, Calls DEF BeginStop
  <2>2. CASE c # Self
    BY <1>0, <1>1, <2>2, Calls DEF BeginStop
  <2> QED
    BY <2>1, <2>2
<1>2. ASSUME NEW goal \in {"start", "destroy"}, BeginOwn(goal) PROVE SelfInv'
  <2>1. call'[Self] = call[Self]
    BY <1>0, <1>2 DEF TypeOK, BeginOwn
  <2> QED
    BY <1>2, <2>1 DEF BeginOwn
<1>3. CASE Start \/ StartFails \/ Destroy
  <2>1. call'[Self] = call[Self] /\ call[Self].place = "idle"
    BY <1>0, <1>3, OwnerAlone, Moves DEF Start, StartFails, Destroy
  <2> QED
    BY <2>1
<1>a. CASE AssignHandle
  <2>1. call'[Self] = call[Self] /\ UNCHANGED <<body, inside, past>>
    BY <1>0, <1>a, Moves DEF AssignHandle
  <2> QED
    BY <2>1
<1>4. ASSUME NEW c \in Callers, c # Self, Stopping(c) \/ SpuriousWake(c) PROVE SelfInv'
  <2>1. UNCHANGED <<body, inside>> /\ ("forced" \notin past' => "forced" \notin past)
    BY <1>4 DEF Stopping, SpuriousWake, Test, Join, Wait, Expire, Decide, Detach, Clear, Return
  <2>2. call'[Self] = call[Self]
    <3>1. Return(c) \/ UNCHANGED call \/ \E place \in Places : Go(c, place)
      BY <1>4 DEF Stopping, SpuriousWake, Test, Join, Wait, Expire, Decide, Detach, Clear,
         Places
    <3> QED
      BY <1>0, <1>4, <3>1, Returns, Moves
  <2> QED
    BY <2>1, <2>2
<1>5. ASSUME Return(Self), UNCHANGED body PROVE SelfInv'
  <2>1. call'[Self].place = "idle"
    BY <1>0, <1>5, Returns DEF GoalsInv
  <2> QED
    BY <2>1
<1>6. CASE Test(Self)
  <2>1. CASE joinable
    <3>1. Go(Self, IF isRunning THEN "lock" ELSE "join") /\ UNCHANGED <<inside, body, past>>
      BY <1>6, <2>1 DEF Test
    <3>2. Busy(Self)
      BY <1>6 DEF Test, At
    <3>3. "forced" \notin past => isRunning
      BY <3>2 DEF HeldInv
    <3> QED
      BY <1>0, <3>1, <3>2, <3>3, Moves
  <2>2. CASE ~joinable
    BY <1>5, <1>6, <2>2 DEF Test
  <2> QED
    BY <2>1, <2>2
<1>7. CASE Join(Self)
  <2>1. CASE CannotJoin(Self)
    BY <1>7, <2>1 DEF Join
  <2>2. CASE ~CannotJoin(Self) /\ call[Self].place = "join"
    BY <1>5, <1>7, <2>2 DEF Join
  <2>3. CASE ~CannotJoin(Self) /\ call[Self].place = "joinLocked"
    <3>1. Go(Self, "clear") /\ UNCHANGED <<inside, body, past>>
      BY <1>7, <2>3 DEF Join
    <3> QED
      BY <1>0, <2>3, <3>1, Moves
  <2> QED
    BY <1>7, <2>1, <2>2, <2>3 DEF Join, At
<1>8. CASE Wait(Self) \/ Expire(Self) \/ SpuriousWake(Self) \/ Detach(Self)
  <2>1. /\ UNCHANGED <<inside, body>> /\ ("forced" \notin past' => "forced" \notin past)
        /\ \E place \in {"waiting", "woken", "clear"} : Go(Self, place)
    BY <1>8 DEF Wait, Expire, SpuriousWake, Detach
  <2>2. Busy(Self)
    BY <1>8 DEF Wait, Expire, SpuriousWake, Detach, At
  <2> QED
    BY <1>0, <2>1, <2>2, Moves
<1>9. CASE Decide(Self)
  <2>1. Go(Self, IF isRunning THEN "detach" ELSE "joinLocked") /\ UNCHANGED <<inside, body, past>>
    BY <1>9 DEF Decide
  <2>2. Busy(Self)
    BY <1>9 DEF Decide, At
  <2>3. "forced" \notin past => isRunning
    BY <2>2 DEF HeldInv
  <2> QED
    BY <1>0, <2>1, <2>2, <2>3, Moves
<1>10. CASE Clear(Self)
  BY <1>5, <1>10 DEF Clear
<1>11. ASSUME NEW n \in Bodies, CallbackReturns(n) \/ Ending(n) PROVE SelfInv'
  <2>1. /\ UNCHANGED <<inside, past>>
        /\ inside \in Bodies /\ body[inside] = "running" => body'[inside] = "running"
    BY <1>0, <1>11 DEF CallbackReturns, Ending, Notify, Leave
  <2>2. \/ UNCHANGED call
        \/ \E c \in Callers : call[c].place = "waiting" /\ Go(c, "woken")
    BY <1>11 DEF CallbackReturns, Ending, Notify, Leave, NotifyOne, At
  <2>3. /\ Busy(Self)' => Busy(Self)
        /\ call'[Self].place \in {"join", "joinLocked"} => call'[Self] = call[Self]
    BY <1>0, <2>2, Moves
  <2> QED
    BY <2>1, <2>3
<1>12. CASE UNCHANGED vars
  BY <1>12 DEF vars
<1> QED
  BY <1>1, <1>2, <1>3, <1>a, <1>4, <1>6, <1>7, <1>8, <1>9, <1>10, <1>11, <1>12 DEF Next, Stopping

\* A caller no other call overlaps finds the thread as its test (line 169) did.
LEMMA AloneStep ==
    TypeOK /\ GoalsInv /\ AssignInv /\ PastInv /\ SelfInv /\ AloneInv /\ [Next]_vars => AloneInv'
<1> SUFFICES ASSUME TypeOK, GoalsInv, AssignInv, PastInv, SelfInv, AloneInv, [Next]_vars
             PROVE  AloneInv'
  OBVIOUS
<1> USE ThreadAssumption DEF AloneInv, TerminatesForAReason, InStop
<1>0. /\ Owner \in Callers
      /\ joinable \in BOOLEAN
      /\ past \subseteq {"forced", "failed", "overlap", "deadline", "spurious"}
  BY DEF TypeOK, Callers
<1>1. ASSUME NEW c \in Callers, NEW limit \in {"timed", "forever"}, BeginStop(c, limit)
      PROVE  AloneInv'
  <2>1. CASE \E d \in Callers : InStop(d)
    BY <1>1, <2>1 DEF BeginStop, At
  <2>2. CASE \A d \in Callers : ~InStop(d)
    BY <1>1, <2>2, Calls DEF BeginStop, thread
  <2> QED
    BY <2>1, <2>2
<1>2. ASSUME NEW goal \in {"start", "destroy"}, BeginOwn(goal) PROVE AloneInv'
  <2>1. /\ call'[Owner].place \in {"start", "destroy", "test"}
        /\ \A d \in Callers : d # Owner => call'[d].place = "idle"
    BY <1>0, <1>2 DEF TypeOK, BeginOwn, Busy
  <2> QED
    BY <1>0, <1>2, <2>1 DEF BeginOwn, thread
<1>3. CASE Start \/ StartFails \/ Destroy
  <2>1. ~joinable /\ \A c \in Callers : c # Owner => call'[c].place = "idle"
    BY <1>0, <1>3, OwnerAlone, Moves DEF Start, StartFails, Destroy, PastInv
  <2>2. call'[Owner].place \in {"idle", "assign", "destroy"}
    BY <1>0, <1>3, OwnerAlone, Moves DEF Start, StartFails, Destroy
  <2>3. fate' # "terminated" /\ past \subseteq past'
    BY <1>3 DEF Start, StartFails, Destroy, At
  <2> QED
    BY <1>0, <2>1, <2>2, <2>3
<1>a. CASE AssignHandle
  <2>1. call[Owner].place = "assign" /\ fate = "up"
    BY <1>a DEF AssignHandle, At
  <2>2. \A c \in Callers \ {Owner} :
           call'[c].place = "idle" \/ (c = Self /\ call'[c].place = "test")
    BY <1>0, <1>a, <2>1, Moves DEF AssignHandle, AssignInv
  <2>3. call'[Owner].place = "idle" /\ fate' = "up" /\ UNCHANGED past
    BY <1>0, <1>a, <2>1, Moves DEF AssignHandle, PastInv
  <2> QED
    BY <2>2, <2>3
<1>4. ASSUME NEW c \in Callers, InStop(c), past \subseteq past', UNCHANGED fate,
             \/ Return(c)
             \/ ~joinable' /\ Go(c, "clear")
             \/ \E place \in {"lock", "join", "waiting", "woken", "joinLocked"} :
                   joinable /\ Go(c, place) /\ UNCHANGED thread
             \/ \E place \in {"waiting", "woken", "joinLocked"} :
                   /\ call[c].place \in {"lock", "waiting", "woken"}
                   /\ Go(c, place) /\ UNCHANGED thread
             \/ Go(c, "detach") /\ UNCHANGED thread
      PROVE  AloneInv'
  <2>1. \A d \in Callers : d # c => call'[d] = call[d]
    BY <1>4, Moves, Returns
  <2>2. call'[c].place \in {"join", "lock", "waiting", "woken", "joinLocked"}
          /\ "overlap" \notin past' => joinable'
    BY <1>4, Moves, Returns DEF thread
  <2> QED
    BY <1>4, <2>1, <2>2
<1>5. ASSUME NEW c \in Callers, Test(c) PROVE AloneInv'
  BY <1>0, <1>4, <1>5 DEF Test, At
<1>6. ASSUME NEW c \in Callers, Join(c) PROVE AloneInv'
  <2>1. CASE CannotJoin(c)
    <3>1. c = Self /\ joinable => "forced" \in past
      BY <1>6, <2>1 DEF Join, At, SelfInv
    <3>2. ~joinable => "overlap" \in past
      BY <1>6, <2>1 DEF Join, At
    <3> QED
      BY <1>6, <2>1, <3>1, <3>2 DEF Join, CannotJoin
  <2>2. CASE ~CannotJoin(c)
    BY <1>4, <1>6, <2>2 DEF Join, At
  <2> QED
    BY <2>1, <2>2
<1>7. ASSUME NEW c \in Callers,
             Wait(c) \/ Expire(c) \/ SpuriousWake(c) \/ Decide(c) \/ Detach(c) \/ Clear(c)
      PROVE  AloneInv'
  BY <1>4, <1>7 DEF Wait, Expire, SpuriousWake, Decide, Detach, Clear, At
<1>8. ASSUME NEW n \in Bodies, CallbackReturns(n) \/ Ending(n) PROVE AloneInv'
  <2>1. /\ UNCHANGED <<thread, past, fate>>
        /\ UNCHANGED call \/ \E c \in Callers : At(c, "waiting") /\ Go(c, "woken")
    BY <1>8 DEF CallbackReturns, Ending, Notify, Leave, NotifyOne
  <2> QED
    BY <1>4, <2>1 DEF At, thread
<1>9. CASE UNCHANGED vars
  BY <1>9 DEF vars, thread
<1> QED
  BY <1>1, <1>2, <1>3, <1>a, <1>5, <1>6, <1>7, <1>8, <1>9 DEF Next, Stopping

Late == {"woken", "detach", "joinLocked"}
Past == handle # 0 /\ body[handle] \in {"leaving", "gone"}

\* Whoever the notification of line 155 woke finds the thread past its mutex.
LEMMA WokenStep ==
    /\ TypeOK /\ GoalsInv /\ AssignInv /\ PastInv /\ HeldInv /\ WokenInv
    /\ [Next]_vars
    => WokenInv'
<1> SUFFICES ASSUME TypeOK, GoalsInv, AssignInv, PastInv, HeldInv, WokenInv, [Next]_vars,
                    ~Noted({"deadline", "spurious"})'
             PROVE  /\ "forced" \notin past'
                    /\ \A c \in Callers :
                          /\ call'[c].place \in Late => Past'
                          /\ call'[c].place = "detach" => ~joinable'
  BY DEF WokenInv, Late, Past
<1> USE DEF Late
<1>0. /\ Owner \in Callers
      /\ body \in [Bodies -> {"unborn", "running", "cleared", "leaving", "gone"}]
      /\ joinable \in BOOLEAN /\ isRunning \in BOOLEAN
      /\ past \subseteq {"forced", "failed", "overlap", "deadline", "spurious"}
  BY DEF TypeOK, Callers
<1>1. past \subseteq past'
  BY DEF Next, BeginStop, BeginOwn, Start, AssignHandle, StartFails, Destroy, Stopping,
     SpuriousWake, Test, Join, Wait, Expire, Decide, Detach, Clear, CallbackReturns, Ending, Notify, Leave, vars
<1>2. /\ "forced" \notin past
      /\ \A c \in Callers :
            /\ call[c].place \in Late => Past
            /\ call[c].place = "detach" => ~joinable
  BY <1>1 DEF WokenInv, Past, Noted
<1>3. ASSUME NEW c \in Callers, NEW limit \in {"timed", "forever"}, BeginStop(c, limit)
      PROVE  /\ call'[c].place \notin Late
             /\ \A d \in Callers : d # c => call'[d] = call[d]
             /\ UNCHANGED <<body, handle, joinable>> /\ "forced" \notin past'
  <2>1. call'[c].place = "test" /\ \A d \in Callers : d # c => call'[d] = call[d]
    BY <1>3, Calls
  <2>2. UNCHANGED <<body, handle, joinable>>
    BY <1>3 DEF BeginStop, thread
  <2>3. "forced" \notin past'
    BY <1>2, <1>3 DEF BeginStop
  <2> QED
    BY <2>1, <2>2, <2>3
<1>4. ASSUME NEW goal \in {"start", "destroy"}, BeginOwn(goal)
      PROVE  /\ call'[Owner].place \notin Late
             /\ \A d \in Callers : d # Owner => call'[d] = call[d]
             /\ UNCHANGED <<body, handle, joinable>> /\ "forced" \notin past'
  BY <1>0, <1>2, <1>4 DEF BeginOwn, thread, TypeOK
<1>5. CASE Start \/ AssignHandle \/ StartFails \/ Destroy
  <2>1. \A c \in Callers : call'[c].place \notin Late
    <3>1. CASE Start \/ StartFails \/ Destroy
      BY <1>0, <3>1, OwnerAlone, Moves DEF Start, StartFails, Destroy
    <3>2. CASE AssignHandle
      BY <1>0, <3>2, Moves DEF AssignHandle, AssignInv, At
    <3> QED
      BY <1>5, <3>1, <3>2
  <2>2. "forced" \notin past'
    BY <1>2, <1>5 DEF Start, AssignHandle, StartFails, Destroy
  <2> QED
    BY <2>1, <2>2
<1>6. ASSUME NEW c \in Callers, Test(c) \/ Join(c) \/ Wait(c) \/ Clear(c)
      PROVE  /\ UNCHANGED call \/ call'[c].place \notin Late
             /\ \A d \in Callers : d # c => call'[d] = call[d]
             /\ UNCHANGED <<body, handle>> /\ "forced" \notin past' /\ (joinable' => joinable)
  <2>1. \/ UNCHANGED call \/ Return(c)
        \/ \E place \in {"lock", "join", "waiting", "clear"} : Go(c, place)
    BY <1>6 DEF Test, Join, Wait, Clear
  <2>2. UNCHANGED <<body, handle, past>> /\ (joinable' => joinable)
    BY <1>0, <1>6 DEF Test, Join, Wait, Clear, thread
  <2> QED
    BY <1>2, <2>1, <2>2, Moves, Returns
<1>7. ASSUME NEW c \in Callers, Expire(c) \/ SpuriousWake(c) PROVE FALSE
  BY <1>7 DEF Expire, SpuriousWake, Noted
<1>8. ASSUME NEW c \in Callers, Decide(c)
      PROVE  /\ call'[c].place \in Late => call[c].place \in Late
             /\ call'[c].place = "detach" => ~joinable
             /\ \A d \in Callers : d # c => call'[d] = call[d]
             /\ UNCHANGED <<body, handle, joinable>> /\ "forced" \notin past'
  <2>1. Past
    BY <1>2, <1>8 DEF Decide, At
  <2>2. isRunning => ~joinable
    BY <1>2, <2>1 DEF HeldInv, Past
  <2>3. Go(c, IF isRunning THEN "detach" ELSE "joinLocked")
    BY <1>8 DEF Decide
  <2> QED
    BY <1>0, <1>2, <1>8, <2>2, <2>3, Moves DEF Decide, thread, At
<1>9. ASSUME NEW c \in Callers, Detach(c)
      PROVE  /\ call'[c].place \notin Late
             /\ \A d \in Callers : d # c => call'[d] = call[d]
             /\ UNCHANGED <<body, handle>> /\ "forced" \notin past' /\ ~joinable'
  <2>1. ~joinable /\ Go(c, "clear")
    BY <1>2, <1>9 DEF Detach, At
  <2> QED
    BY <1>2, <1>9, <2>1, Moves DEF Detach
<1>10. ASSUME NEW n \in Bodies, CallbackReturns(n) \/ Leave(n)
       PROVE  /\ UNCHANGED <<call, handle, joinable>> /\ "forced" \notin past'
              /\ Past => Past'
  <2>1. UNCHANGED <<call, handle, joinable>> /\ "forced" \notin past'
    BY <1>2, <1>10 DEF CallbackReturns, Leave, thread
  <2>2. body[n] \in {"running", "leaving"} /\ body'[n] \in {"cleared", "gone"}
        /\ (body[n] = "leaving" => body'[n] = "gone")
        /\ \A k \in Bodies \ {n} : body'[k] = body[k]
    BY <1>0, <1>10 DEF CallbackReturns, Leave
  <2>3. handle \in Bodies \union {0}
    BY DEF TypeOK
  <2> QED
    BY <2>1, <2>2, <2>3 DEF Past
<1>11. ASSUME NEW n \in Bodies, Notify(n)
       PROVE  /\ UNCHANGED <<handle, joinable>> /\ "forced" \notin past'
              /\ \A c \in Callers :
                    /\ call'[c].place \in Late => Past'
                    /\ call'[c].place = "detach" => call[c].place = "detach"
  <2>1. n = handle \/ Pending(n)
    BY <1>2, <1>11 DEF Notify, HeldInv, Live
  <2>2. \A c \in Callers : call'[c].place = "detach" => call[c].place = "detach"
    BY <1>11, Moves DEF Notify, NotifyOne
  <2>3. UNCHANGED <<handle, joinable>> /\ "forced" \notin past'
    BY <1>2, <1>11 DEF Notify, thread
  <2>4. CASE n = handle
    BY <1>0, <1>11, <2>2, <2>3, <2>4 DEF Notify, Past, Bodies
  <2>5. CASE Pending(n)
    <3>1. \A c \in Callers : call[c].place \in {"idle", "test", "assign"}
      BY <1>0, <2>5 DEF Pending, AssignInv
    <3>2. UNCHANGED call
      BY <1>11, <3>1 DEF Notify, NotifyOne, At
    <3> QED
      BY <2>3, <3>1, <3>2
  <2> QED
    BY <2>1, <2>4, <2>5
<1>12. CASE UNCHANGED vars
  BY <1>2, <1>12 DEF vars, thread, Past
<1>13. ASSUME NEW c \in Callers, Stopping(c)
       PROVE  /\ "forced" \notin past'
              /\ \A d \in Callers :
                    /\ call'[d].place \in Late => Past'
                    /\ call'[d].place = "detach" => ~joinable'
  BY <1>0, <1>2, <1>6, <1>7, <1>8, <1>9, <1>13 DEF Stopping, Past
<1>14. ASSUME NEW n \in Bodies, CallbackReturns(n) \/ Ending(n)
       PROVE  /\ "forced" \notin past'
              /\ \A d \in Callers :
                    /\ call'[d].place \in Late => Past'
                    /\ call'[d].place = "detach" => ~joinable'
  BY <1>0, <1>2, <1>10, <1>11, <1>14 DEF Ending, Past
<1> QED
  BY <1>0, <1>2, <1>3, <1>4, <1>5, <1>7, <1>12, <1>13, <1>14 DEF Next, Past

\* The conjunction is inductive.
LEMMA Invariance == Spec => []Inv
<1>1. Init => Inv
  <2> SUFFICES ASSUME Init PROVE Inv
    OBVIOUS
  <2>1. /\ \A c \in Callers : call[c] = [place |-> "idle", limit |-> "timed", goal |-> "stop"]
        /\ \A n \in Bodies : body[n] = "unborn"
        /\ Self \in Callers
    BY DEF Init, Callers
  <2>2. TypeOK
    BY DEF Init, TypeOK, Places
  <2>3. GoalsInv /\ AssignInv /\ PastInv /\ SelfInv
    BY <2>1 DEF Init, GoalsInv, AssignInv, PastInv, SelfInv, Busy, Callers
  <2>4. HeldInv
    BY <2>1 DEF Init, HeldInv, NoBodyLeftBehind, Live, Pending, Callers
  <2>5. AloneInv /\ WokenInv
    BY <2>1 DEF Init, AloneInv, TerminatesForAReason, WokenInv, InStop
  <2> QED
    BY <2>2, <2>3, <2>4, <2>5 DEF Inv
<1>2. Inv /\ [Next]_vars => Inv'
  BY TypeStep, GoalsStep, AssignStep, PastStep, HeldStep, SelfStep, AloneStep, WokenStep DEF Inv
<1> QED
  BY <1>1, <1>2, PTL DEF Spec
------------------------------------------------------------------------------
\* The type invariant: the two flags, the std::thread, the mutex and every
\* caller keep their types, whoever stops, restarts and destroys.
THEOREM TypeCorrect == Spec => []TypeOK
<1>1. Inv => TypeOK
  BY DEF Inv
<1> QED
  BY <1>1, Invariance, PTL

\* isRunning is true exactly while a callback runs, whoever stops, restarts and
\* destroys in whatever order, as long as no thread was detached (line 201) and
\* no start failed (line 160).
THEOREM FlagTellsTheTruth == Spec => []RunningIsTrue
<1>1. Inv => RunningIsTrue
  <2> SUFFICES ASSUME Inv, "forced" \notin past, "failed" \notin past
               PROVE  isRunning <=> \E n \in Bodies : body[n] = "running"
    BY DEF RunningIsTrue
  <2>1. CASE call[Owner].place = "assign"
    BY <2>1 DEF Inv, AssignInv, HeldInv, Pending
  <2>2. CASE call[Owner].place # "assign"
    <3>1. isRunning => handle \in Bodies /\ body[handle] = "running"
      BY <2>2 DEF Inv, TypeOK, HeldInv, PastInv
    <3> QED
      BY <3>1 DEF Inv, TypeOK, HeldInv
  <2> QED
    BY <2>1, <2>2
<1> QED
  BY <1>1, Invariance, PTL

\* Without a deadline or a spurious wakeup the caller that joins under the
\* mutex (line 209) was notified by the thread it joins, from inside the mutex.
THEOREM JoinUnderLockIsSafe == Spec => []TrapNeedsDeadline
<1>1. Inv => TrapNeedsDeadline
  <2> SUFFICES ASSUME Inv, NEW c \in Callers, call[c].place = "joinLocked",
                      body[handle] = "cleared", ~Noted({"deadline", "spurious"})
               PROVE  FALSE
    BY DEF TrapNeedsDeadline, Trapped, Noted
  <2> QED
    BY DEF Inv, WokenInv
<1> QED
  BY <1>1, Invariance, PTL

\* No order of calls by one caller at a time joins a thread twice or from
\* itself, or overwrites one that runs, before a thread was detached.
THEOREM NeverTerminates == Spec => []TerminatesForAReason
<1>1. Inv => TerminatesForAReason
  BY DEF Inv, AloneInv
<1> QED
  BY <1>1, Invariance, PTL

\* The destructor (lines 115-120) leaves no thread of its own running.
THEOREM DestructorLeavesNobody == Spec => []NoBodyLeftBehind
<1>1. Inv => NoBodyLeftBehind
  BY DEF Inv, HeldInv
<1> QED
  BY <1>1, Invariance, PTL
===============================================================================
