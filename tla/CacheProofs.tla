---------------------------- MODULE CacheProofs ----------------------------
(***************************************************************************)
(* Proofs about the contract cache, for any set of contracts and any       *)
(* number of refreshes.                                                    *)
(***************************************************************************)
EXTENDS ContractCache, TLAPS

\* onRefreshMu: no callback runs, or one does, on the subscriptions it found;
\* between two of them the subscriptions are what the last one left.
LockInv ==
    \/ running = {} /\ subscribed = lastRun.contracts
    \/ \E j : running = {j} /\ subscribed = j.old

\* A callback of the refresh in progress exists only when that has ended, and
\* was given what it cached.
JobInv ==
    /\ begun \in Nat
    /\ worker = "notify" => cached = found
    /\ \A j \in waiting \cup running \cup {lastRun} :
          /\ j.nr \in Nat /\ j.nr <= begun
          /\ j.nr = begun => worker \notin {"fetch", "notify"} /\ j.contracts = cached

\* While the requests are out, what was found was open at some time, and what
\* has been open all the time and was answered without an error was found.
FetchInv ==
    /\ active \subseteq Contracts
    /\ worker = "fetch" =>
          /\ active \subseteq ever /\ always \subseteq active
          /\ found \subseteq ever
          /\ always \subseteq found \cup missed \cup todo

LEMMA JobsInit == Init => LockInv /\ JobInv
  <1> SUFFICES ASSUME Init PROVE LockInv /\ JobInv
    OBVIOUS
  <1>1. /\ begun = 1 /\ worker = "fetch" /\ waiting = {} /\ running = {} /\ subscribed = {}
        /\ lastRun = [nr |-> 0, contracts |-> {}]
    BY DEF Init
  <1>2. QED
    BY <1>1 DEF LockInv, JobInv

LEMMA LockStep ==
  ASSUME LockInv, [Next]_vars
  PROVE  LockInv'
  <1>1. ASSUME NEW j, CallbackBegins(j) PROVE LockInv'
    <2>1. running' = {Begun(j)} /\ subscribed' = subscribed /\ Begun(j).old = subscribed
      BY <1>1 DEF CallbackBegins, Begun
    <2>2. QED
      BY <2>1 DEF LockInv
  <1>2. ASSUME NEW j, CallbackEnds(j) PROVE LockInv'
    <2>1. running = {j} /\ subscribed = j.old
      BY <1>2 DEF CallbackEnds, LockInv
    <2>2. running' = {} /\ lastRun'.contracts = j.contracts
      BY <1>2, <2>1 DEF CallbackEnds
    <2>3. subscribed' = (j.old \ (j.old \ j.contracts)) \cup (j.contracts \ j.old)
      BY <1>2, <2>1 DEF CallbackEnds
    <2>4. subscribed' = j.contracts
      BY <2>3
    <2>5. QED
      BY <2>2, <2>4 DEF LockInv
  <1>3. CASE UNCHANGED <<running, subscribed, lastRun>>
    BY <1>3 DEF LockInv
  <1>4. QED
    BY <1>1, <1>2, <1>3 DEF Next, Refresh, Callback, Answered, RequestFails, Swap, Notify,
       TimerFires, WorkerEnds, MarketChanges, Stop, vars, callbackVars

LEMMA JobsStep ==
  ASSUME JobInv, [Next]_vars
  PROVE  JobInv'
  <1> USE DEF JobInv, callbackVars, fetchVars
  <1>1. ASSUME NEW c \in Contracts, Answered(c) \/ RequestFails(c) PROVE JobInv'
    BY <1>1 DEF Answered, RequestFails
  <1>2. CASE Swap
    BY <1>2 DEF Swap
  <1>3. CASE Notify
    <2> DEFINE job == [nr |-> begun, contracts |-> found]
    <2>1. /\ waiting' = waiting \cup {job} /\ job.nr = begun /\ job.contracts = cached
          /\ worker' = "wait" /\ UNCHANGED <<begun, found, cached, running, lastRun>>
      BY <1>3 DEF Notify
    <2> HIDE DEF job
    <2>2. QED
      BY <1>3, <2>1 DEF Notify
  <1>4. CASE TimerFires
    <2>1. /\ begun' = begun + 1 /\ worker' = "fetch"
          /\ UNCHANGED <<waiting, running, lastRun>>
      BY <1>4 DEF TimerFires
    <2>2. \A j \in waiting \cup running \cup {lastRun} :
             j.nr \in Nat /\ j.nr <= begun' /\ j.nr # begun'
      BY <2>1
    <2>3. QED
      BY <2>1, <2>2
  <1>5. ASSUME NEW j, CallbackBegins(j) PROVE JobInv'
    <2>1. /\ j \in waiting /\ waiting' = waiting \ {j} /\ running' = {Begun(j)}
          /\ Begun(j).nr = j.nr /\ Begun(j).contracts = j.contracts
          /\ UNCHANGED <<begun, worker, cached, found, lastRun>>
      BY <1>5 DEF CallbackBegins, Begun
    <2>2. QED
      BY <2>1
  <1>6. ASSUME NEW j, CallbackEnds(j) PROVE JobInv'
    <2>1. /\ j \in running /\ running' = running \ {j}
          /\ lastRun'.nr = j.nr /\ lastRun'.contracts = j.contracts
          /\ UNCHANGED <<begun, worker, cached, found, waiting>>
      BY <1>6 DEF CallbackEnds
    <2>2. QED
      BY <2>1
  <1>7. CASE WorkerEnds \/ MarketChanges \/ Stop \/ UNCHANGED vars
    BY <1>7 DEF WorkerEnds, MarketChanges, Stop, vars
  <1>8. QED
    BY <1>1, <1>2, <1>3, <1>4, <1>5, <1>6, <1>7 DEF Next, Refresh, Callback

\* Callbacks of refreshes may overtake each other before onRefreshMu, but one
\* that reads the subscriptions and then updates them is not disturbed: between
\* two callbacks the subscriptions are what the last one was given, which is
\* the cache if that was the callback of the latest refresh.
THEOREM CallbacksSerialized == Spec => []SubscriptionsOfLastCallback
  <1>1. LockInv /\ JobInv => SubscriptionsOfLastCallback
    BY DEF LockInv, JobInv, SubscriptionsOfLastCallback
  <1>2. QED
    BY <1>1, JobsInit, LockStep, JobsStep, PTL DEF Spec

LEMMA InitFetch == Init => FetchInv /\ CacheIsOfLastRefresh
  BY DEF Init, FetchInv, CacheIsOfLastRefresh

LEMMA NextFetch ==
  ASSUME FetchInv, CacheIsOfLastRefresh, [Next]_vars
  PROVE  FetchInv' /\ CacheIsOfLastRefresh'
  <1> USE DEF FetchInv, CacheIsOfLastRefresh, callbackVars, fetchVars, historyVars
  <1>1. ASSUME NEW c \in Contracts, Answered(c) PROVE FetchInv' /\ CacheIsOfLastRefresh'
    BY <1>1 DEF Answered
  <1>2. ASSUME NEW c \in Contracts, RequestFails(c) PROVE FetchInv' /\ CacheIsOfLastRefresh'
    BY <1>2 DEF RequestFails
  <1>3. CASE Swap
    BY <1>3 DEF Swap
  <1>4. CASE Notify \/ WorkerEnds
    BY <1>4 DEF Notify, WorkerEnds
  <1>5. CASE TimerFires
    BY <1>5 DEF TimerFires
  <1>6. CASE Callback
    BY <1>6 DEF Callback, CallbackBegins, CallbackEnds
  <1>7. CASE MarketChanges
    BY <1>7 DEF MarketChanges
  <1>8. CASE Stop \/ UNCHANGED vars
    BY <1>8 DEF Stop, vars
  <1>9. QED
    BY <1>1, <1>2, <1>3, <1>4, <1>5, <1>6, <1>7, <1>8 DEF Next, Refresh

\* The parallel requests of DiscoverActive see the market at different times,
\* and refresh swaps what they found: the cache never holds a contract that was
\* not open during the last refresh, and lacks one that was open all through it
\* only if its own request failed.
THEOREM CacheFollowsRefresh == Spec => []CacheIsOfLastRefresh
  BY InitFetch, NextFetch, PTL DEF Spec
=============================================================================
