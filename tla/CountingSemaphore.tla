-------------------------- MODULE CountingSemaphore --------------------------
(* What mifsa::Semaphore promises its callers, without its counter, its       *)
(* mutex or its condition variable: permits are handed out at most once, a    *)
(* caller that finds none waits, a release serves one waiter when there is    *)
(* one, and a reset lets every waiter go and sets the permits afresh.         *)
EXTENDS Naturals

CONSTANTS Threads, InitialCount

VARIABLES
    permits,   \* permits nobody holds
    waiting,   \* callers waiting to be served
    woken      \* callers served that have not returned yet

promiseVars == <<permits, waiting, woken>>

PromiseInit ==
    /\ permits = InitialCount
    /\ waiting = {}
    /\ woken = {}

TakePermit(t) ==
    /\ t \notin waiting \union woken
    /\ permits > 0
    /\ permits' = permits - 1
    /\ UNCHANGED <<waiting, woken>>

StartWaiting(t) ==
    /\ t \notin waiting \union woken
    /\ permits = 0
    /\ waiting' = waiting \union {t}
    /\ UNCHANGED <<permits, woken>>

Leave(t) ==
    /\ t \in woken
    /\ woken' = woken \ {t}
    /\ UNCHANGED <<permits, waiting>>

\* A release serves a waiter if there is one and stores a permit otherwise.
Serve(t) ==
    /\ t \in waiting
    /\ waiting' = waiting \ {t}
    /\ woken' = woken \union {t}
    /\ UNCHANGED permits

StorePermit ==
    /\ waiting = {}
    /\ permits' = permits + 1
    /\ UNCHANGED <<waiting, woken>>

\* A reset may leave any number of permits.
ServeAll ==
    /\ permits' \in Nat
    /\ woken' = woken \union waiting
    /\ waiting' = {}

PromiseNext ==
    \/ \E t \in Threads :
          TakePermit(t) \/ StartWaiting(t) \/ Leave(t) \/ Serve(t)
    \/ StorePermit
    \/ ServeAll

PromiseSpec == PromiseInit /\ [][PromiseNext]_promiseVars
===============================================================================
