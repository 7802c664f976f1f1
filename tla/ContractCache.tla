--------------------------- MODULE ContractCache ---------------------------
(***************************************************************************)
(* The contract cache, provider/polymarket/contractcache.go, over          *)
(* ContractDiscovery.DiscoverActive, provider/polymarket/discovery.go: the *)
(* first refresh of Start, the worker that refreshes on a timer, and the   *)
(* goroutines that run the onRefresh callback one at a time.  The callback *)
(* is what the code names as its use: it compares the contracts it is      *)
(* given with the subscriptions and updates the difference.                *)
(***************************************************************************)
EXTENDS Naturals

CONSTANTS
    Contracts,     \* contracts whose slugs a refresh asks for
    MaxRefreshes   \* bound: refreshes begun

ASSUME CacheAssumption == MaxRefreshes \in Nat \ {0}

VARIABLES
    active,      \* contracts the exchange has open now
    worker,      \* "fetch", "notify", "wait", "ended"
    begun,       \* refreshes begun
    todo,        \* contracts whose request has not been answered
    found,       \* contracts found by the refresh in progress
    missed,      \* contracts whose request failed in it
    cached,      \* cc.contracts
    waiting,     \* callbacks not yet begun: [nr, contracts]
    running,     \* callbacks in progress, with the subscriptions each found
    subscribed,  \* contracts subscribed
    lastRun,     \* history: the callback that ended last
    stopped,     \* Stop was called or ctx cancelled
    ever,        \* history: contracts open at some time of the last refresh
    always       \* history: contracts open all the time of the last refresh

vars == <<active, worker, begun, todo, found, missed, cached, waiting, running, subscribed,
          lastRun, stopped, ever, always>>
historyVars == <<ever, always>>
fetchVars == <<begun, todo, found, missed>>
callbackVars == <<waiting, running, subscribed, lastRun>>

Init ==
    /\ active \in SUBSET Contracts
    /\ worker = "fetch"
    /\ begun = 1
    /\ todo = Contracts
    /\ found = {}
    /\ missed = {}
    /\ cached = {}
    /\ waiting = {}
    /\ running = {}
    /\ subscribed = {}
    /\ lastRun = [nr |-> 0, contracts |-> {}]
    /\ stopped = FALSE
    /\ ever = active
    /\ always = active

-----------------------------------------------------------------------------
(* refresh and DiscoverActive: the requests run in parallel.               *)

Answered(c) ==
    /\ worker = "fetch"
    /\ c \in todo
    /\ todo' = todo \ {c}
    /\ found' = IF c \in active THEN found \cup {c} ELSE found
    /\ UNCHANGED <<active, worker, begun, missed, cached, callbackVars, stopped, historyVars>>

\* An error, a status other than 200 or a cancelled context: only logged.
RequestFails(c) ==
    /\ worker = "fetch"
    /\ c \in todo
    /\ todo' = todo \ {c}
    /\ missed' = missed \cup {c}
    /\ UNCHANGED <<active, worker, begun, found, cached, callbackVars, stopped, historyVars>>

AddsToCache ==                     \* mutant: what a refresh finds is added
    /\ worker = "fetch"
    /\ todo = {}
    /\ cached' = cached \cup found
    /\ worker' = "notify"
    /\ UNCHANGED <<active, fetchVars, callbackVars, stopped, historyVars>>

\* DiscoverActive returns no error whatever failed, so refresh always swaps.
Swap ==
    /\ worker = "fetch"
    /\ todo = {}
    /\ cached' = found
    /\ worker' = "notify"
    /\ UNCHANGED <<active, fetchVars, callbackVars, stopped, historyVars>>

NotifyInPlace ==                   \* mutant: the worker waits for the callback's turn
    /\ worker = "notify"
    /\ waiting = {} /\ running = {}
    /\ waiting' = {[nr |-> begun, contracts |-> found]}
    /\ worker' = "wait"
    /\ UNCHANGED <<active, fetchVars, cached, running, subscribed, lastRun, stopped, historyVars>>

\* A goroutine is started for the callback; the worker goes back to its timer.
Notify ==
    /\ worker = "notify"
    /\ waiting' = waiting \cup {[nr |-> begun, contracts |-> found]}
    /\ worker' = "wait"
    /\ UNCHANGED <<active, fetchVars, cached, running, subscribed, lastRun, stopped, historyVars>>

TimerFires ==
    /\ worker = "wait"
    /\ begun < MaxRefreshes
    /\ worker' = "fetch"
    /\ begun' = begun + 1
    /\ todo' = Contracts
    /\ found' = {}
    /\ missed' = {}
    /\ ever' = active
    /\ always' = active
    /\ UNCHANGED <<active, cached, callbackVars, stopped>>

StopUnseen == FALSE /\ UNCHANGED vars   \* mutant: the select waits for the timer only

WorkerEnds ==
    /\ worker = "wait"
    /\ stopped
    /\ worker' = "ended"
    /\ UNCHANGED <<active, fetchVars, cached, callbackVars, stopped, historyVars>>

-----------------------------------------------------------------------------
(* The callbacks, serialized by onRefreshMu but in no order.               *)

Begun(j) == [nr |-> j.nr, contracts |-> j.contracts, old |-> subscribed]

CallbackUnlocked(j) ==             \* mutant: no onRefreshMu
    /\ j \in waiting
    /\ waiting' = waiting \ {j}
    /\ running' = running \cup {Begun(j)}
    /\ UNCHANGED <<active, worker, fetchVars, cached, subscribed, lastRun, stopped, historyVars>>

CallbackBegins(j) ==
    /\ j \in waiting
    /\ running = {}
    /\ waiting' = waiting \ {j}
    /\ running' = {Begun(j)}
    /\ UNCHANGED <<active, worker, fetchVars, cached, subscribed, lastRun, stopped, historyVars>>

CallbackEnds(j) ==
    /\ j \in running
    /\ running' = running \ {j}
    /\ subscribed' = (subscribed \ (j.old \ j.contracts)) \cup (j.contracts \ j.old)
    /\ lastRun' = [nr |-> j.nr, contracts |-> j.contracts]
    /\ UNCHANGED <<active, worker, fetchVars, cached, waiting, stopped, historyVars>>

-----------------------------------------------------------------------------
MarketChanges ==
    /\ active' \in SUBSET Contracts
    /\ active' # active
    /\ ever' = IF worker = "fetch" THEN ever \cup active' ELSE ever
    /\ always' = IF worker = "fetch" THEN always \cap active' ELSE always
    /\ UNCHANGED <<worker, fetchVars, cached, callbackVars, stopped>>

Stop ==
    /\ ~stopped
    /\ stopped' = TRUE
    /\ UNCHANGED <<active, worker, fetchVars, cached, callbackVars, historyVars>>

Refresh ==
    \/ \E c \in Contracts : Answered(c) \/ RequestFails(c)
    \/ Swap \/ Notify \/ TimerFires

Callback == \E j \in waiting \cup running : CallbackBegins(j) \/ CallbackEnds(j)

Next ==
    \/ Refresh
    \/ WorkerEnds
    \/ Callback
    \/ MarketChanges
    \/ Stop
    \/ worker = "wait" /\ begun = MaxRefreshes /\ UNCHANGED vars
    \/ worker = "ended" /\ UNCHANGED vars

Spec == Init /\ [][Next]_vars

\* Requests end (the client's timeout is 10 s) and the timer fires; the select,
\* random among ready cases, does not pass over the end for ever.  Nothing is
\* assumed of the callbacks, which may hang.
FairSpec == Spec /\ WF_vars(Refresh) /\ SF_vars(WorkerEnds)

-----------------------------------------------------------------------------
JobType == [nr : 1..MaxRefreshes, contracts : SUBSET Contracts]

RunType == [nr : 1..MaxRefreshes, contracts : SUBSET Contracts, old : SUBSET Contracts]

TypeOK ==
    /\ active \subseteq Contracts
    /\ worker \in {"fetch", "notify", "wait", "ended"}
    /\ begun \in 1..MaxRefreshes
    /\ todo \subseteq Contracts
    /\ found \subseteq Contracts \ todo
    /\ missed \subseteq Contracts \ todo
    /\ cached \subseteq Contracts
    /\ waiting \subseteq JobType
    /\ running \subseteq RunType
    /\ subscribed \subseteq Contracts
    /\ lastRun \in [nr : 0..MaxRefreshes, contracts : SUBSET Contracts]
    /\ stopped \in BOOLEAN
    /\ ever \subseteq Contracts
    /\ always \subseteq Contracts

\* Callbacks that find the subscriptions, compare and update them do not get in
\* each other's way: between two callbacks the subscriptions are the contracts
\* of the one that ended last, and those of the cache if that one was of the
\* latest refresh.
SubscriptionsOfLastCallback ==
    running = {} =>
        /\ subscribed = lastRun.contracts
        /\ lastRun.nr = begun => subscribed = cached

\* Though its requests are answered at different times, what a refresh caches
\* was open during it, and what was open all that time is cached unless its own
\* request failed: no contract outlives the refresh after its end.
CacheIsOfLastRefresh ==
    worker # "fetch" => always \ missed \subseteq cached /\ cached \subseteq ever

\* A callback that hangs does not stop the refreshes.
RefreshesGoOn == <>(begun = MaxRefreshes \/ stopped)

\* Stop ends the worker.
StopEndsWorker == stopped ~> (worker = "ended")

\* contractcache.go:134: "contract refresh failed, keeping stale cache".  A
\* refresh in which no request succeeds leaves the cache as it was.
FailureKeepsCache == [][missed = Contracts => cached' = cached]_vars

\* contractcache.go:197: the callback is for updating subscriptions "when the
\* contract set changes": once all callbacks ran they are of the cached set.
\* The code does not promise it: nothing orders the goroutines that wait for
\* onRefreshMu, and the older of two may come last.
SubscriptionsFollowCache ==
    worker = "wait" /\ waiting = {} /\ running = {} => subscribed = cached
=============================================================================
