------------------------- MODULE SportDiscoveryProofs -------------------------
(***************************************************************************)
(* Each tracked market is announced exactly once, for any tags, markets,   *)
(* page limit and failures.                                                *)
(***************************************************************************)
EXTENDS SportDiscovery, TLAPS

\* How often a market was found or announced is a number.
CountsType ==
    /\ found \in [Markets -> Nat]
    /\ announced \in [Markets -> Nat]

AnnounceInv == CountsType /\ TrackedIsAnnounced

\* What a poll adds to allNew was not known.
LEMMA NewIsUnknown ==
    ASSUME NEW tag
    PROVE  /\ NewMarkets(tag) \subseteq Markets
           /\ NewMarkets(tag) \cap known = {}
BY DEF NewMarkets, Page

LEMMA AnnounceInit == Init => AnnounceInv
<1> SUFFICES ASSUME Init PROVE AnnounceInv
    OBVIOUS
<1>1. pc = "polling" /\ known = {} /\ found = Nothing /\ announced = Nothing
    BY DEF Init
<1> QED
    BY <1>1 DEF AnnounceInv, CountsType, TrackedIsAnnounced, Nothing

\* The steps that leave the markets alone and do not end a poll.
LEMMA AnnounceUnchanged ==
    ASSUME AnnounceInv, UNCHANGED <<known, found, announced>>,
           pc' = "polling" \/ pc # "polling" \/ found = Nothing
    PROVE  AnnounceInv'
BY DEF AnnounceInv, CountsType, TrackedIsAnnounced, Nothing

LEMMA AnnounceStep == AnnounceInv /\ [Next]_vars => AnnounceInv'
<1> SUFFICES ASSUME AnnounceInv, [Next]_vars PROVE AnnounceInv'
    OBVIOUS
<1>1. ASSUME NEW tag \in ToSet(TagIDs), Fetched(tag)
      PROVE  AnnounceInv'
    \* A new market has been counted nowhere, and is now counted once.
  <2> USE <1>1
  <2>1. CountsType'
      BY NewIsUnknown DEF Fetched, AnnounceInv, CountsType
  <2>2. ASSUME NEW m \in Markets
        PROVE  announced'[m] + found'[m] = (IF m \in known' THEN 1 ELSE 0)
    <3>1. announced[m] + found[m] = (IF m \in known THEN 1 ELSE 0)
        BY DEF AnnounceInv, TrackedIsAnnounced
    <3>2. found[m] \in Nat /\ announced[m] \in Nat
        BY DEF AnnounceInv, CountsType
    <3>3. CASE m \in NewMarkets(tag)
        BY <3>1, <3>2, <3>3, NewIsUnknown DEF Fetched
    <3>4. CASE m \notin NewMarkets(tag)
        BY <3>1, <3>2, <3>4 DEF Fetched
    <3> QED
        BY <3>3, <3>4
  <2>3. pc' = "polling"
      BY DEF Fetched
  <2> QED
      BY <2>1, <2>2, <2>3 DEF AnnounceInv, TrackedIsAnnounced
<1>2. CASE FetchFails
    BY <1>2, AnnounceUnchanged DEF FetchFails
<1>3. CASE CallOnNew
    \* What was found becomes what is announced.
    BY <1>3 DEF CallOnNew, AnnounceInv, CountsType, TrackedIsAnnounced, Nothing
<1>4. CASE OnNewReturns
    BY <1>4, AnnounceUnchanged DEF OnNewReturns
<1>5. CASE NothingNew
    BY <1>5, AnnounceUnchanged DEF NothingNew
<1>6. CASE TimerFires
    BY <1>6, AnnounceUnchanged DEF TimerFires
<1>7. CASE WorkerEnds
    BY <1>7, AnnounceUnchanged DEF WorkerEnds
<1>8. CASE Stop
    BY <1>8, AnnounceUnchanged DEF Stop, AnnounceInv, TrackedIsAnnounced
<1>9. CASE Cancel
    BY <1>9, AnnounceUnchanged DEF Cancel, AnnounceInv, TrackedIsAnnounced
<1>10. ASSUME NEW m \in Markets, NEW s \in Statuses, StatusChanges(m, s)
       PROVE  AnnounceInv'
    BY <1>10, AnnounceUnchanged DEF StatusChanges
<1>11. CASE UNCHANGED vars
    BY <1>11, AnnounceUnchanged DEF vars
<1> QED
    BY <1>1, <1>2, <1>3, <1>4, <1>5, <1>6, <1>7, <1>8, <1>9, <1>10, <1>11 DEF Next, Poll

\* poll hands every market it tracks to onNew exactly once, sport_discovery.go
\* lines 157 and 181, whatever fails and whenever Stop or the context comes.
THEOREM TrackedOnce == Spec => []TrackedIsAnnounced
<1>1. AnnounceInv => TrackedIsAnnounced
    BY DEF AnnounceInv
<1> QED
    BY AnnounceInit, AnnounceStep, <1>1, PTL DEF Spec
=============================================================================
