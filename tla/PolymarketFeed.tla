--------------------------- MODULE PolymarketFeed ---------------------------
(***************************************************************************)
(* The order book feed, provider/polymarket/wsfeed.go: readLoop with its   *)
(* reconnect and resubscribeAll, the goroutines that call Subscribe,       *)
(* Unsubscribe and UpdateSubscriptions, and Stop.  A step is one critical  *)
(* section of mu or subMu, or one network call between two of them.        *)
(*                                                                         *)
(* The exchange is the set of tokens subscribed on each connection and the *)
(* messages on their way to the client.  A book is its version: the market *)
(* publishes versions 1, 2, ...; a "book" message carries a whole version, *)
(* a "change" the step from the one before.                                *)
(***************************************************************************)
EXTENDS Integers, Sequences, FiniteSets, Functions

CONSTANTS
    Tokens,
    Callers,       \* goroutines that manage subscriptions
    MaxConns,      \* bound: connections dialled
    MaxUpdates,    \* bound: market updates of all tokens
    MaxCalls       \* bound: subscription calls of one goroutine

ASSUME FeedAssumption ==
    /\ IsFiniteSet(Tokens)
    /\ MaxConns \in Nat \ {0} /\ MaxUpdates \in Nat /\ MaxCalls \in Nat

NoBook == 0        \* the token is not in pf.books
Mixed == -1        \* a change was applied to a book it does not follow

VARIABLES
    conn,       \* pf.conn: a connection, 0 for nil
    dialled,    \* connections dialled so far
    stop,       \* Stop: "no", "closing" (done is closed), "closed"
    tracked,    \* subscribedIDs
    books,      \* cached version of each token's book
    reader,     \* readLoop: [at, conn, ids]
    caller,     \* each caller: [at, unsub, sub, conn]
    calls,      \* calls each caller has begun
    net,        \* per connection: [open, up, subs, inbox]
    market      \* the version the exchange has for each token

vars == <<conn, dialled, stop, tracked, books, reader, caller, calls, net, market>>
callerVars == <<caller, calls>>

NewConn == [open |-> TRUE, up |-> TRUE, subs |-> {}, inbox |-> <<>>]
NoConn == [open |-> FALSE, up |-> FALSE, subs |-> {}, inbox |-> <<>>]
Idle == [at |-> "idle", unsub |-> {}, sub |-> {}, conn |-> 0]
Message(t, kind) == [token |-> t, kind |-> kind, version |-> market[t]]

\* After Start: the first connection is made and readLoop runs.
Init ==
    /\ conn = 1
    /\ dialled = 1
    /\ stop = "no"
    /\ tracked = {}
    /\ books = [t \in Tokens |-> NoBook]
    /\ reader = [at |-> "top", conn |-> 0, ids |-> {}]
    /\ caller = [c \in Callers |-> Idle]
    /\ calls = [c \in Callers |-> 0]
    /\ net = [k \in 1..MaxConns |-> IF k = 1 THEN NewConn ELSE NoConn]
    /\ market = [t \in Tokens |-> 1]

-----------------------------------------------------------------------------
(* The network and the exchange.                                           *)

Works(k) == k # 0 /\ net[k].open /\ net[k].up

\* A subscription is answered with one book of each of its tokens, in any order.
Snapshots(ids) ==
    {s \in [1..Cardinality(ids) -> {Message(t, "book") : t \in ids}] :
        \A t \in ids : \E i \in DOMAIN s : s[i] = Message(t, "book")}

\* A frame is written to connection k; the exchange acts on it if it gets it.
WriteSubscribe(k, ids) ==
    IF Works(k)
    THEN \E s \in Snapshots(ids) :
             net' = [net EXCEPT ![k].subs = @ \cup ids, ![k].inbox = @ \o s]
    ELSE UNCHANGED net

WriteUnsubscribe(k, ids) ==
    IF Works(k) THEN net' = [net EXCEPT ![k].subs = @ \ ids] ELSE UNCHANGED net

CloseConn(k) == net' = [j \in 1..MaxConns |-> IF j = k THEN [net[j] EXCEPT !.open = FALSE] ELSE net[j]]

UpdatesLeft == FoldFunction(+, 0, market) < Cardinality(Tokens) + MaxUpdates

MarketMoves(t) ==
    /\ UpdatesLeft
    /\ market' = [market EXCEPT ![t] = @ + 1]
    /\ net' = [k \in 1..MaxConns |->
                  IF Works(k) /\ t \in net[k].subs
                  THEN [net[k] EXCEPT !.inbox = Append(@, [token |-> t, kind |-> "change",
                                                           version |-> market[t] + 1])]
                  ELSE net[k]]
    /\ UNCHANGED <<conn, dialled, stop, tracked, books, reader, callerVars>>

\* The connection breaks: writes are lost and the read fails sooner or later.
Break(k) ==
    /\ Works(k)
    /\ net' = [net EXCEPT ![k].up = FALSE]
    /\ UNCHANGED <<conn, dialled, stop, tracked, books, reader, callerVars, market>>

-----------------------------------------------------------------------------
(* readLoop and handleMessage.                                             *)

ReaderGoes(to) == reader' = [reader EXCEPT !.at = to]

Done == stop # "no"

LoopEnds ==
    /\ reader.at = "top"
    /\ Done
    /\ ReaderGoes("ended")
    /\ UNCHANGED <<conn, dialled, stop, tracked, books, callerVars, net, market>>

LoopGoesOn ==
    /\ reader.at = "top"
    /\ ~Done
    /\ ReaderGoes("load")
    /\ UNCHANGED <<conn, dialled, stop, tracked, books, callerVars, net, market>>

LoadConn ==
    /\ reader.at = "load"
    /\ reader' = [reader EXCEPT !.at = IF conn = 0 THEN "clear" ELSE "read", !.conn = conn]
    /\ UNCHANGED <<conn, dialled, stop, tracked, books, callerVars, net, market>>

FirstBookStays(m) ==               \* mutant: a cached book is not replaced
    IF books[m.token] = NoBook THEN m.version ELSE books[m.token]

HandleBook(m) == m.version

HandlePriceChange(m) ==
    IF books[m.token] = NoBook THEN NoBook
    ELSE IF books[m.token] = m.version - 1 THEN m.version
    ELSE Mixed

\* ReadMessage returns the next message; bytes already received can still be
\* read after the connection is closed or broken.
Handle ==
    /\ reader.at = "read"
    /\ net[reader.conn].inbox # <<>>
    /\ LET m == Head(net[reader.conn].inbox)
       IN  books' = [books EXCEPT ![m.token] =
                        IF m.kind = "book" THEN HandleBook(m) ELSE HandlePriceChange(m)]
    /\ net' = [net EXCEPT ![reader.conn].inbox = Tail(@)]
    /\ ReaderGoes("top")
    /\ UNCHANGED <<conn, dialled, stop, tracked, callerVars, market>>

ReadFails ==
    /\ reader.at = "read"
    /\ ~Works(reader.conn)
    /\ ReaderGoes("clear")
    /\ UNCHANGED <<conn, dialled, stop, tracked, books, callerVars, net, market>>

-----------------------------------------------------------------------------
(* reconnect, connect and resubscribeAll.                                  *)

AbandonConn ==                       \* mutant: the lost connection is not closed
    /\ reader.at = "clear"
    /\ conn' = 0
    /\ books' = [t \in Tokens |-> NoBook]
    /\ reader' = [at |-> "retry", conn |-> 0, ids |-> {}]
    /\ UNCHANGED <<dialled, stop, tracked, callerVars, net, market>>

Clear ==
    /\ reader.at = "clear"
    /\ CloseConn(conn)
    /\ conn' = 0
    /\ books' = [t \in Tokens |-> NoBook]
    /\ reader' = [at |-> "retry", conn |-> 0, ids |-> {}]
    /\ UNCHANGED <<dialled, stop, tracked, callerVars, market>>

RetryForEver ==                    \* mutant: the retry loop does not look at done
    /\ reader.at = "retry"
    /\ ReaderGoes("dial")
    /\ UNCHANGED <<conn, dialled, stop, tracked, books, callerVars, net, market>>

\* The loop looks at done, then sleeps.
Retry ==
    /\ reader.at = "retry"
    /\ ReaderGoes(IF Done THEN "top" ELSE "dial")
    /\ UNCHANGED <<conn, dialled, stop, tracked, books, callerVars, net, market>>

DialFails ==
    /\ reader.at = "dial"
    /\ ReaderGoes("retry")
    /\ UNCHANGED <<conn, dialled, stop, tracked, books, callerVars, net, market>>

Dial ==
    /\ reader.at = "dial"
    /\ dialled < MaxConns
    /\ dialled' = dialled + 1
    /\ conn' = dialled + 1
    /\ net' = [net EXCEPT ![dialled + 1] = NewConn]
    /\ ReaderGoes("collect")
    /\ UNCHANGED <<stop, tracked, books, callerVars, market>>

CollectCached ==                   \* mutant: only tokens with a book are renewed
    /\ reader.at = "collect"
    /\ LET ids == {t \in tracked : books[t] # NoBook}
       IN  reader' = [reader EXCEPT !.at = IF ids = {} THEN "top" ELSE "renew", !.ids = ids]
    /\ UNCHANGED <<conn, dialled, stop, tracked, books, callerVars, net, market>>

\* resubscribeAll copies the tracked tokens ...
Collect ==
    /\ reader.at = "collect"
    /\ reader' = [reader EXCEPT !.at = IF tracked = {} THEN "top" ELSE "renew", !.ids = tracked]
    /\ UNCHANGED <<conn, dialled, stop, tracked, books, callerVars, net, market>>

\* ... and sends them on the new connection.
Renew ==
    /\ reader.at = "renew"
    /\ WriteSubscribe(conn, reader.ids)
    /\ reader' = [reader EXCEPT !.at = "top", !.ids = {}]
    /\ UNCHANGED <<conn, dialled, stop, tracked, books, callerVars, market>>

-----------------------------------------------------------------------------
(* Subscribe, Unsubscribe and UpdateSubscriptions.                         *)

CallerGoes(c, to) == caller' = [caller EXCEPT ![c].at = to]

Begin(c, unsub, sub) ==
    /\ caller[c].at = "idle"
    /\ calls[c] < MaxCalls
    /\ calls' = [calls EXCEPT ![c] = @ + 1]
    /\ caller' = [caller EXCEPT ![c] = [at |-> IF unsub # {} THEN "untrack"
                                               ELSE IF sub # {} THEN "track" ELSE "idle",
                                        unsub |-> unsub, sub |-> sub, conn |-> 0]]
    /\ UNCHANGED <<conn, dialled, stop, tracked, books, reader, net, market>>

Subscribe(c) == \E ids \in SUBSET Tokens \ {{}} : Begin(c, {}, ids)

Unsubscribe(c) == \E ids \in SUBSET Tokens \ {{}} : Begin(c, ids, {})

\* The difference is computed under subMu; then Unsubscribe and Subscribe run.
UpdateSubscriptions(c) ==
    \E desired \in SUBSET Tokens : Begin(c, tracked \ desired, desired \ tracked)

Untrack(c) ==
    /\ caller[c].at = "untrack"
    /\ tracked' = tracked \ caller[c].unsub
    /\ CallerGoes(c, "uncache")
    /\ UNCHANGED <<conn, dialled, stop, books, reader, calls, net, market>>

Uncache(c) ==
    /\ caller[c].at = "uncache"
    /\ books' = [t \in Tokens |-> IF t \in caller[c].unsub THEN NoBook ELSE books[t]]
    /\ CallerGoes(c, "unsubConn")
    /\ UNCHANGED <<conn, dialled, stop, tracked, reader, calls, net, market>>

Track(c) ==
    /\ caller[c].at = "track"
    /\ tracked' = tracked \cup caller[c].sub
    /\ CallerGoes(c, "subConn")
    /\ UNCHANGED <<conn, dialled, stop, books, reader, calls, net, market>>

\* sendSubscription copies conn under mu ...
TakeConn(c) ==
    /\ \/ caller[c].at = "unsubConn" /\ caller' = [caller EXCEPT ![c].at = "unsubSend", ![c].conn = conn]
       \/ caller[c].at = "subConn" /\ caller' = [caller EXCEPT ![c].at = "subSend", ![c].conn = conn]
    /\ UNCHANGED <<conn, dialled, stop, tracked, books, reader, calls, net, market>>

\* ... and writes to it; an error is returned or logged and changes nothing.
SendUnsubscribe(c) ==
    /\ caller[c].at = "unsubSend"
    /\ WriteUnsubscribe(caller[c].conn, caller[c].unsub)
    /\ caller' = [caller EXCEPT ![c] = [@ EXCEPT !.at = IF caller[c].sub = {} THEN "idle" ELSE "track",
                                                 !.unsub = {}, !.conn = 0]]
    /\ UNCHANGED <<conn, dialled, stop, tracked, books, reader, calls, market>>

SendSubscribe(c) ==
    /\ caller[c].at = "subSend"
    /\ WriteSubscribe(caller[c].conn, caller[c].sub)
    /\ caller' = [caller EXCEPT ![c] = Idle]
    /\ UNCHANGED <<conn, dialled, stop, tracked, books, reader, calls, market>>

-----------------------------------------------------------------------------
(* Stop, called once.                                                      *)

StopBegins ==
    /\ stop = "no"
    /\ stop' = "closing"
    /\ UNCHANGED <<conn, dialled, tracked, books, reader, callerVars, net, market>>

StopCloses ==
    /\ stop = "closing"
    /\ stop' = "closed"
    /\ CloseConn(conn)
    /\ conn' = 0
    /\ UNCHANGED <<dialled, tracked, books, reader, callerVars, market>>

Reader ==
    \/ LoopEnds \/ LoopGoesOn \/ LoadConn \/ Handle \/ ReadFails
    \/ Clear \/ Retry \/ DialFails \/ Dial \/ Collect \/ Renew

Call(c) ==
    \/ Subscribe(c) \/ Unsubscribe(c) \/ UpdateSubscriptions(c)
    \/ Untrack(c) \/ Uncache(c) \/ Track(c)
    \/ TakeConn(c) \/ SendUnsubscribe(c) \/ SendSubscribe(c)

Next ==
    \/ Reader
    \/ \E c \in Callers : Call(c)
    \/ StopBegins \/ StopCloses
    \/ \E t \in Tokens : MarketMoves(t)
    \/ \E k \in 1..MaxConns : Break(k)
    \/ reader.at = "ended" /\ UNCHANGED vars

Spec == Init /\ [][Next]_vars

\* The read loop runs; a read of a closed or broken connection ends, by the
\* error or by the read deadline of 30 s; Stop gets its lock.
FairSpec == Spec /\ WF_vars(Reader) /\ WF_vars(StopCloses)

-----------------------------------------------------------------------------
MaxVersion == 1 + MaxUpdates

MessageType == [token : Tokens, kind : {"book", "change"}, version : 1..MaxVersion]

TypeOK ==
    /\ dialled \in 1..MaxConns
    /\ conn \in 0..dialled
    /\ stop \in {"no", "closing", "closed"}
    /\ tracked \subseteq Tokens
    /\ books \in [Tokens -> {Mixed} \cup 0..MaxVersion]
    /\ reader \in [at : {"top", "load", "read", "clear", "retry", "dial", "collect", "renew",
                         "ended"}, conn : 0..MaxConns, ids : SUBSET Tokens]
    /\ caller \in [Callers -> [at : {"idle", "untrack", "uncache", "unsubConn", "unsubSend",
                                     "track", "subConn", "subSend"},
                               unsub : SUBSET Tokens, sub : SUBSET Tokens, conn : 0..MaxConns]]
    /\ calls \in [Callers -> 0..MaxCalls]
    /\ net \in [1..MaxConns -> [open : BOOLEAN, up : BOOLEAN, subs : SUBSET Tokens,
                                inbox : Seq(MessageType)]]
    /\ market \in [Tokens -> 1..MaxVersion]

\* The feed still owes the exchange a subscription of t.
Owed(t) ==
    \/ reader.at = "collect"
    \/ reader.at = "renew" /\ t \in reader.ids
    \/ \E c \in Callers : /\ t \in caller[c].sub
                          /\ \/ caller[c].at = "subConn"
                             \/ caller[c].at = "subSend" /\ caller[c].conn = conn

\* No reconnect loses a subscription: on a connection that works, a tracked
\* token is subscribed or the frame that subscribes it is still to be sent,
\* however Subscribe, UpdateSubscriptions and the reconnect interleave.
TrackedIsSubscribed ==
    Works(conn) => \A t \in tracked : t \in net[conn].subs \/ Owed(t)

\* Reconnects do not pile up connections: all but the last one dialled are
\* closed, whatever Stop and the read loop have done to pf.conn.
OldConnsClosed == \A k \in 1..MaxConns : net[k].open => k = dialled

\* A cached book of a subscribed token with no message on its way is the
\* market's book: changes missed while disconnected or unsubscribed never leave
\* it behind, and no change is applied to a book it does not follow.
QuietBookIsCurrent ==
    \A t \in Tokens :
        /\ Works(conn) /\ t \in net[conn].subs /\ books[t] # NoBook
        /\ \A i \in DOMAIN net[conn].inbox : net[conn].inbox[i].token # t
        => books[t] = market[t]

\* After Stop the read loop ends, even while it cannot reconnect.
StopEndsReadLoop == (stop = "closed") ~> (reader.at = "ended")

\* wsfeed.go:127: "Stop closes the WebSocket connection and stops all
\* goroutines."
StopClosesConnection ==
    stop = "closed" /\ reader.at = "ended" => \A k \in 1..MaxConns : ~net[k].open

\* wsfeed.go:153: Unsubscribe "clears their cached books": once it returned, a
\* token that nobody tracks has no cached book.
UnsubscribedHasNoBook ==
    (\A c \in Callers : caller[c].at = "idle") =>
        \A t \in Tokens \ tracked : books[t] = NoBook

\* wsfeed.go:153: "Unsubscribe removes subscriptions": once it returned, and no
\* renewal is under way, the exchange has no subscription of it.
UnsubscribedIsGone ==
    (\A c \in Callers : caller[c].at = "idle") /\ reader.at = "read" /\ Works(conn) =>
        net[conn].subs \subseteq tracked
=============================================================================
