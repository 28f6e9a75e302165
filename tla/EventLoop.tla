------------------------------ MODULE EventLoop ------------------------------
(* What mifsa::Queue promises those who post to it, without its lanes, its    *)
(* semaphores, its timer or the steps of its calls: an item that is accepted  *)
(* is handled at most once, while the loop runs, after the items accepted     *)
(* before it in its lane; and a loop that was asked to quit ends when nothing *)
(* is left of what had been accepted by then, and never runs again.  A loop   *)
(* that does not run may be closed: what is pending is dropped.               *)
EXTENDS Naturals

CONSTANT Lanes   \* disjoint sets of items; order is kept inside each

VARIABLES
    phase,      \* "idle", "running", "ended" or "closed"
    pending,    \* accepted and not yet handled
    ahead,      \* for each item, the pending items of its lane accepted before it
    handled,
    asked,      \* has somebody asked the loop to quit?
    owed        \* what is left of the items pending when it was asked

Items == UNION Lanes

promiseVars == <<phase, pending, ahead, handled, asked, owed>>

PromiseInit ==
    /\ phase = "idle"
    /\ pending = {} /\ handled = {}
    /\ ahead = [x \in Items |-> {}]
    /\ asked = FALSE /\ owed = {}

\* At any time, from any thread, also when the loop does not run.
Accept(lane, x) ==
    /\ phase # "closed"
    /\ x \notin pending \union handled
    /\ pending' = pending \union {x}
    /\ ahead' = [ahead EXCEPT ![x] = pending \intersect lane]
    /\ UNCHANGED <<phase, handled, asked, owed>>

Handle(x) ==
    /\ phase = "running"
    /\ x \in pending /\ ahead[x] = {}
    /\ pending' = pending \ {x}
    /\ handled' = handled \union {x}
    /\ ahead' = [y \in Items |-> ahead[y] \ {x}]
    /\ owed' = owed \ {x}
    /\ UNCHANGED <<phase, asked>>

Ask ==
    /\ phase # "closed" /\ ~asked
    /\ asked' = TRUE
    /\ owed' = pending
    /\ UNCHANGED <<phase, pending, ahead, handled>>

Start ==
    /\ phase = "idle" /\ ~asked
    /\ phase' = "running"
    /\ UNCHANGED <<pending, ahead, handled, asked, owed>>

Finish ==
    /\ phase = "running" /\ asked /\ owed = {}
    /\ phase' = "ended"
    /\ UNCHANGED <<pending, ahead, handled, asked, owed>>

Leave ==
    /\ phase = "ended"
    /\ phase' = "idle"
    /\ UNCHANGED <<pending, ahead, handled, asked, owed>>

Close ==
    /\ phase = "idle"
    /\ phase' = "closed"
    /\ pending' = {} /\ owed' = {}
    /\ ahead' = [x \in Items |-> {}]
    /\ UNCHANGED <<handled, asked>>

PromiseNext ==
    \/ \E lane \in Lanes : \E x \in lane : Accept(lane, x)
    \/ \E x \in Items : Handle(x)
    \/ Ask \/ Start \/ Finish \/ Leave \/ Close

PromiseSpec == PromiseInit /\ [][PromiseNext]_promiseVars
===============================================================================
