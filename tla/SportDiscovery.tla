--------------------------- MODULE SportDiscovery ---------------------------
(***************************************************************************)
(* provider/polymarket/sport_discovery.go: a goroutine polls the Gamma API *)
(* for the events of each tag and hands the markets it had not seen to a   *)
(* callback.  Only poll writes known, first in Start and then in the       *)
(* worker, so a page is handled in one step.  An event has one market, and *)
(* a market's number is its place in the order of start dates.             *)
(***************************************************************************)
EXTENDS Integers, SequencesExt

CONSTANTS
    TagIDs,       \* the sequence of tags polled
    Markets,
    TagsOf,       \* the tags of a market's event
    PageLimit,    \* EventQuery.Limit
    Healthy,      \* tags whose requests do not fail for ever
    MaxChanges    \* bound: changes of a market's status

Statuses == {"unlisted", "paused", "badTokens", "open", "closed"}

ASSUME SportAssumption ==
    /\ Markets \subseteq Nat
    /\ TagsOf \in [Markets -> SUBSET ToSet(TagIDs)]
    /\ PageLimit \in Nat /\ MaxChanges \in Nat
    /\ Healthy \subseteq ToSet(TagIDs)

VARIABLES
    status,     \* of each market at the exchange
    changes,    \* changes of a status so far
    pc,         \* "polling", "calling" onNew, "waiting" in the select, "ended"
    todo,       \* tags this poll has still to ask for
    known,
    found,      \* allNew: how often each market is in it
    announced,  \* history: how often onNew was given each market
    ctxDone,
    done        \* closed by Stop

exchangeVars == <<status, changes>>
stopVars == <<ctxDone, done>>
vars == <<exchangeVars, pc, todo, known, found, announced, stopVars>>

Nothing == [m \in Markets |-> 0]

Init ==
    /\ status \in [Markets -> {"unlisted", "open"}]
    /\ changes = 0
    /\ pc = "polling"                  \* Start polls before it starts the worker
    /\ todo = TagIDs
    /\ known = {}
    /\ found = Nothing
    /\ announced = Nothing
    /\ ctxDone = FALSE
    /\ done = FALSE

-----------------------------------------------------------------------------
(* The exchange.                                                           *)

StatusChanges(m, s) ==
    /\ changes < MaxChanges
    /\ status[m] \notin {s, "closed"}
    /\ s # "unlisted"
    /\ status' = [status EXCEPT ![m] = s]
    /\ changes' = changes + 1
    /\ UNCHANGED <<pc, todo, known, found, announced, stopVars>>

\* GetEvents with closed=false, order=startDate, ascending=false: the newest
\* PageLimit events of the tag that are listed.
Page(tag) ==
    LET listed == {m \in Markets : tag \in TagsOf[m] /\ status[m] \notin {"unlisted", "closed"}}
    IN  {m \in listed : Cardinality({n \in listed : n > m}) < PageLimit}

-----------------------------------------------------------------------------
(* poll.                                                                   *)

\* Markets that take orders, have not been seen and whose token IDs parse.
NewMarkets(tag) == {m \in Page(tag) : status[m] = "open" /\ m \notin known}

Fetched(tag) ==
    /\ pc = "polling"
    /\ todo # <<>> /\ Head(todo) = tag
    /\ ~ctxDone
    /\ known' = known \cup NewMarkets(tag)
    /\ found' = [m \in Markets |-> found[m] + (IF m \in NewMarkets(tag) THEN 1 ELSE 0)]
    /\ todo' = Tail(todo)
    /\ UNCHANGED <<exchangeVars, pc, announced, stopVars>>

PollAborts ==                          \* mutant: poll returns the error
    /\ pc = "polling"
    /\ todo # <<>>
    /\ pc' = "waiting"
    /\ todo' = <<>>
    /\ found' = Nothing
    /\ UNCHANGED <<exchangeVars, known, announced, stopVars>>

\* The request's error is logged and the next tag is asked for.
FetchFails ==
    /\ pc = "polling"
    /\ todo # <<>>
    /\ todo' = Tail(todo)
    /\ UNCHANGED <<exchangeVars, pc, known, found, announced, stopVars>>

CallOnNew ==
    /\ pc = "polling"
    /\ todo = <<>>
    /\ found # Nothing
    /\ pc' = "calling"
    /\ announced' = [m \in Markets |-> announced[m] + found[m]]
    /\ found' = Nothing
    /\ UNCHANGED <<exchangeVars, todo, known, stopVars>>

OnNewReturns ==
    /\ pc = "calling"
    /\ pc' = "waiting"
    /\ UNCHANGED <<exchangeVars, todo, known, found, announced, stopVars>>

NothingNew ==
    /\ pc = "polling"
    /\ todo = <<>>
    /\ found = Nothing
    /\ pc' = "waiting"
    /\ UNCHANGED <<exchangeVars, todo, known, found, announced, stopVars>>

-----------------------------------------------------------------------------
(* The worker.                                                             *)

TimerFires ==
    /\ pc = "waiting"
    /\ pc' = "polling"
    /\ todo' = TagIDs
    /\ UNCHANGED <<exchangeVars, known, found, announced, stopVars>>

WorkerEnds ==
    /\ pc = "waiting"
    /\ ctxDone \/ done
    /\ pc' = "ended"
    /\ UNCHANGED <<exchangeVars, todo, known, found, announced, stopVars>>

Stop ==
    /\ ~done
    /\ done' = TRUE
    /\ UNCHANGED <<exchangeVars, pc, todo, known, found, announced, ctxDone>>

Cancel ==
    /\ ~ctxDone
    /\ ctxDone' = TRUE
    /\ UNCHANGED <<exchangeVars, pc, todo, known, found, announced, done>>

Poll == FetchFails \/ CallOnNew \/ OnNewReturns \/ NothingNew \/ TimerFires
            \/ \E tag \in ToSet(TagIDs) : Fetched(tag)

Next ==
    \/ Poll \/ WorkerEnds
    \/ Stop \/ Cancel
    \/ \E m \in Markets, s \in Statuses : StatusChanges(m, s)
    \/ pc = "ended" /\ UNCHANGED vars

Spec == Init /\ [][Next]_vars

\* The goroutine runs, requests end, the callback returns and the timer fires;
\* a healthy tag that is asked for again and again answers at some time.
FairSpec ==
    /\ Spec
    /\ WF_vars(Poll)
    /\ \A tag \in Healthy : SF_vars(Fetched(tag))

-----------------------------------------------------------------------------
TypeOK ==
    /\ status \in [Markets -> Statuses]
    /\ changes \in 0..MaxChanges
    /\ pc \in {"polling", "calling", "waiting", "ended"}
    /\ IsSuffix(todo, TagIDs)
    /\ known \subseteq Markets
    /\ found \in [Markets -> 0..1]
    /\ announced \in [Markets -> Nat]
    /\ ctxDone \in BOOLEAN
    /\ done \in BOOLEAN

\* A market that is tracked, and so will never count as new again, is given to
\* onNew exactly once: whichever tags list it, whichever requests of the poll
\* fail, and even if the poll outlives Stop or the context.
TrackedIsAnnounced ==
    /\ \A m \in Markets : announced[m] + found[m] = (IF m \in known THEN 1 ELSE 0)
    /\ pc # "polling" => found = Nothing

\* A market that stays open on the page of a healthy tag is announced, although
\* the requests for other tags may fail for ever.
OpenMarketFound ==
    \A m \in Markets :
        <>[](status[m] = "open" /\ \E tag \in Healthy : m \in Page(tag))
            => <>(announced[m] = 1 \/ ctxDone \/ done)
=============================================================================
