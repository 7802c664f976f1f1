------------------------------ MODULE OrderBook ------------------------------
(***************************************************************************)
(* What is in a cached book, provider/polymarket/wsfeed.go: handleBook,    *)
(* handlePriceChange and handleBestBidAsk keep the levels and the best     *)
(* prices, fanOut tells the listeners, and a listener's goroutine reads    *)
(* the book of the token that an update names.  PolymarketFeed models how  *)
(* the messages get here; a connection is their sequence, replaced as a    *)
(* whole by a reconnect.                                                   *)
(*                                                                         *)
(* A side of the market gives the size at each price, 0 for no level.  A   *)
(* handler is two steps, its critical section and its call of fanOut.      *)
(* The three event types that ask a listener to read a token's cache are   *)
(* one; an update "market_resolved" is news by itself.                     *)
(***************************************************************************)
EXTENDS Integers, SequencesExt

CONSTANTS
    Tokens,
    Prices,
    Sizes,         \* sizes a level may have
    Listeners,     \* goroutines that call AddListener
    ListenerCap,   \* capacity of a listener's channel
    MaxMoves       \* bound: changes of the market

ASSUME OrderBookAssumption ==
    /\ IsFiniteSet(Tokens) /\ IsFiniteSet(Prices)
    /\ Prices \subseteq Nat \ {0}
    /\ Sizes \subseteq Nat \ {0} /\ Sizes # {}
    /\ ListenerCap \in Nat \ {0}
    /\ MaxMoves \in Nat

VARIABLES
    market,     \* the exchange's book of each token
    moves,      \* changes of the market so far
    inbox,      \* messages of the connection not yet read
    books,      \* pf.books, a function on the tokens with a cached book
    best,       \* pf.bestBids and pf.bestAsks; 0 for no entry
    telling,    \* the update a handler is about to pass to fanOut, if any
    listening,  \* listeners with a channel in pf.listeners
    queue,      \* the updates in each listener's channel
    reading,    \* the update each listener took and has yet to act on, if any
    unseen,     \* history: what the cache has been told and the listener has not
    dropped     \* history: that whose last update met a full channel of others

exchangeVars == <<market, moves>>
cacheVars == <<books, best>>
listenerVars == <<listening, queue, reading, unseen, dropped>>
vars == <<exchangeVars, inbox, cacheVars, telling, listenerVars>>

Sides == {"bids", "asks"}
Side == [Prices -> Sizes \cup {0}]
NoBooks == [t \in {} |-> {}]

Update == [token : Tokens, resolved : BOOLEAN]
About(m) == [token |-> m.token, resolved |-> m.kind = "market_resolved"]

Level == [price : Prices, size : Sizes \cup {0}]
Priced(side) == {p \in Prices : side[p] > 0}
Levels(side) == {[price |-> p, size |-> side[p]] : p \in Priced(side)}

Better(s, p, q) == IF s = "bids" THEN p > q ELSE p < q

\* Bids ascend and asks descend, so the best level is the last.
WorstToBest(s, side) ==
    CHOOSE q \in SetToSeqs(Levels(side)) :
        \A i, j \in DOMAIN q : i < j => Better(s, q[j].price, q[i].price)

-----------------------------------------------------------------------------
(* The exchange and the connection.                                        *)

BookMessage(t) ==
    [token |-> t, kind |-> "book",
     levels |-> [s \in Sides |-> WorstToBest(s, market[t][s])]]

ChangeMessage(t, s, new) ==
    LET changed == {p \in Prices : new[p] # market[t][s][p]}
    IN  [token |-> t, kind |-> "price_change", side |-> s,
         changes |-> SetToSeq({[price |-> p, size |-> new[p]] : p \in changed})]

\* The best price of a side, 0 if it has none.
BestPrice(s, side) ==
    IF Priced(side) = {} THEN 0
    ELSE CHOOSE p \in Priced(side) : \A q \in Priced(side) \ {p} : Better(s, p, q)

BestMessage(t, m) ==
    [token |-> t, kind |-> "best_bid_ask", best |-> [s \in Sides |-> BestPrice(s, m[t][s])]]

\* One side changes; best_bid_ask may follow the change.
MarketMoves(t, s, new) ==
    /\ moves < MaxMoves
    /\ new # market[t][s]
    /\ moves' = moves + 1
    /\ market' = [market EXCEPT ![t][s] = new]
    /\ \E more \in {<<>>, <<BestMessage(t, market')>>} :
          inbox' = inbox \o <<ChangeMessage(t, s, new)>> \o more
    /\ UNCHANGED <<cacheVars, telling, listenerVars>>

MarketResolved(t) ==
    /\ moves < MaxMoves
    /\ moves' = moves + 1
    /\ inbox' = Append(inbox, [token |-> t, kind |-> "market_resolved"])
    /\ UNCHANGED <<market, cacheVars, telling, listenerVars>>

Init ==
    /\ market = [t \in Tokens |-> [s \in Sides |-> [p \in Prices |-> CHOOSE z \in Sizes : TRUE]]]
    /\ moves = 0
    /\ inbox \in SetToSeqs({BookMessage(t) : t \in Tokens})
    /\ books = NoBooks
    /\ best = [t \in Tokens |-> [s \in Sides |-> 0]]
    /\ telling = {}
    /\ listening = {}
    /\ queue = [l \in Listeners |-> <<>>]
    /\ reading = [l \in Listeners |-> {}]
    /\ unseen = [l \in Listeners |-> {}]
    /\ dropped = [l \in Listeners |-> {}]

-----------------------------------------------------------------------------
(* readLoop and the handlers.                                              *)

\* The read fails: the cache is cleared and the new connection answers the
\* renewed subscription with the books.
Reconnect ==
    /\ telling = {}
    /\ books' = NoBooks
    /\ best' = [t \in Tokens |-> [s \in Sides |-> 0]]
    /\ inbox' \in SetToSeqs({BookMessage(t) : t \in Tokens})
    /\ UNCHANGED <<exchangeVars, telling, listenerVars>>

\* The update of the best price in handleBook and handlePriceChange: the last
\* level's, if there is one.
LastPrice(levels, old) == IF levels = <<>> THEN old ELSE Last(levels).price

ZeroStays(levels, changes) ==          \* mutant: a level of size 0 is not removed
    LET unchanged == {l \in ToSet(levels) : \A c \in ToSet(changes) : c.price # l.price}
    IN  SetToSeqs(unchanged \cup ToSet(changes))

\* What the map holds at a price: the last entry written, 0 for none.
SizeAt(levels, p) ==
    LET written == {i \in DOMAIN levels : levels[i].price = p}
    IN  IF written = {} THEN 0 ELSE levels[Max(written)].size

\* applyPriceChanges: the result comes in the order of a range over a map.
ApplyPriceChanges(levels, changes) ==
    SetToSeqs(Levels([p \in Prices |-> SizeAt(levels \o changes, p)]))

HandleBook(m) ==
    LET t == m.token IN
    /\ m.kind = "book"
    /\ books' = [u \in DOMAIN books \cup {t} |-> IF u = t THEN m.levels ELSE books[u]]
    /\ best' = [best EXCEPT ![t] = [s \in Sides |-> LastPrice(m.levels[s], best[t][s])]]

\* A side without a price keeps the one it had.
HandleBestBidAsk(m) ==
    /\ m.kind = "best_bid_ask"
    /\ \E s \in Sides : m.best[s] > 0
    /\ LET price(s) == IF m.best[s] > 0 THEN m.best[s] ELSE best[m.token][s]
       IN  best' = [best EXCEPT ![m.token] = [s \in Sides |-> price(s)]]
    /\ UNCHANGED books

BestUntouched(m) ==                    \* mutant: the best price is left to best_bid_ask
    LET t == m.token IN
    /\ m.kind = "price_change"
    /\ IF t \notin DOMAIN books
       THEN UNCHANGED books
       ELSE \E levels \in ApplyPriceChanges(books[t][m.side], m.changes) :
                books' = [books EXCEPT ![t][m.side] = levels]
    /\ UNCHANGED best

HandlePriceChange(m) ==
    LET t == m.token IN
    /\ m.kind = "price_change"
    /\ IF t \notin DOMAIN books
       THEN UNCHANGED cacheVars
       ELSE \E levels \in ApplyPriceChanges(books[t][m.side], m.changes) :
                /\ books' = [books EXCEPT ![t][m.side] = levels]
                /\ best' = [best EXCEPT ![t][m.side] = LastPrice(levels, @)]

HandleResolved(m) == m.kind = "market_resolved" /\ UNCHANGED cacheVars

\* A message without any price is dropped and nobody is told.
Ignore ==
    /\ telling = {}
    /\ inbox # <<>>
    /\ Head(inbox).kind = "best_bid_ask"
    /\ \A s \in Sides : Head(inbox).best[s] = 0
    /\ inbox' = Tail(inbox)
    /\ UNCHANGED <<exchangeVars, cacheVars, telling, listenerVars>>

Handle ==
    /\ telling = {}
    /\ inbox # <<>>
    /\ LET m == Head(inbox) IN
       /\ HandleBook(m) \/ HandleBestBidAsk(m) \/ HandlePriceChange(m) \/ HandleResolved(m)
    /\ telling' = {About(Head(inbox))}
    /\ unseen' = [l \in Listeners |-> IF l \in listening THEN unseen[l] \cup telling' ELSE unseen[l]]
    /\ inbox' = Tail(inbox)
    /\ UNCHANGED <<exchangeVars, listening, queue, reading, dropped>>

Full(q) == Len(q) = ListenerCap

DropOldest(q, u) ==                    \* mutant: makes room in a full channel
    IF Full(q) THEN Append(Tail(q), u) ELSE Append(q, u)

\* fanOut's send does not wait: a full channel drops the update.
Send(q, u) == IF Full(q) THEN q ELSE Append(q, u)

\* What a full channel loses, unless it has the same update already.
Lost(l, u) == Full(queue[l]) /\ u \notin ToSet(queue[l])

FanOut == \E u \in telling :
    /\ queue' = [l \in Listeners |-> IF l \in listening THEN Send(queue[l], u) ELSE queue[l]]
    /\ dropped' = [l \in Listeners |-> IF l \in listening /\ Lost(l, u) THEN dropped[l] \cup {u}
                                       ELSE dropped[l] \ {u}]
    /\ telling' = {}
    /\ UNCHANGED <<exchangeVars, inbox, cacheVars, listening, reading, unseen>>

-----------------------------------------------------------------------------
(* The listeners.                                                          *)

AddListener(l) ==
    /\ l \notin listening
    /\ listening' = listening \cup {l}
    /\ UNCHANGED <<exchangeVars, inbox, cacheVars, telling, queue, reading, unseen, dropped>>

\* A listener takes an update from its channel ...
Receive(l) ==
    /\ reading[l] = {}
    /\ queue[l] # <<>>
    /\ reading' = [reading EXCEPT ![l] = {Head(queue[l])}]
    /\ queue' = [queue EXCEPT ![l] = Tail(@)]
    /\ UNCHANGED <<exchangeVars, inbox, cacheVars, telling, listening, unseen, dropped>>

\* ... and reads the book of the token it names, or takes note of a resolution.
Look(l) ==
    /\ reading[l] # {}
    /\ reading' = [reading EXCEPT ![l] = {}]
    /\ unseen' = [unseen EXCEPT ![l] = @ \ reading[l]]
    /\ dropped' = [dropped EXCEPT ![l] = @ \ reading[l]]
    /\ UNCHANGED <<exchangeVars, inbox, cacheVars, telling, listening, queue>>

Next ==
    \/ \E t \in Tokens, s \in Sides, new \in Side : MarketMoves(t, s, new)
    \/ \E t \in Tokens : MarketResolved(t)
    \/ Reconnect \/ Ignore \/ Handle \/ FanOut
    \/ \E l \in Listeners : AddListener(l) \/ Receive(l) \/ Look(l)

Spec == Init /\ [][Next]_vars

-----------------------------------------------------------------------------
Message ==
    [token : Tokens, kind : {"book"}, levels : [Sides -> Seq(Level)]]
    \cup [token : Tokens, kind : {"price_change"}, side : Sides, changes : Seq(Level)]
    \cup [token : Tokens, kind : {"best_bid_ask"}, best : [Sides -> Prices \cup {0}]]
    \cup [token : Tokens, kind : {"market_resolved"}]

TypeOK ==
    /\ market \in [Tokens -> [Sides -> Side]]
    /\ moves \in 0..MaxMoves
    /\ inbox \in Seq(Message)
    /\ DOMAIN books \subseteq Tokens
    /\ \A t \in DOMAIN books : books[t] \in [Sides -> Seq(Level)]
    /\ best \in [Tokens -> [Sides -> Prices \cup {0}]]
    /\ telling \subseteq Update
    /\ listening \subseteq Listeners
    /\ queue \in [Listeners -> Seq(Update)]
    /\ \A l \in Listeners : Len(queue[l]) <= ListenerCap
    /\ reading \in [Listeners -> SUBSET Update]
    /\ unseen \in [Listeners -> SUBSET Update]
    /\ dropped \in [Listeners -> SUBSET Update]

\* No message about t is on its way.
Quiet(t) == \A i \in DOMAIN inbox : inbox[i].token # t

\* Once the messages about a token are handled its cached book has the market's
\* levels, each once: increments, snapshots and reconnects in any order never
\* lose a level, keep a removed one or leave two of one price.
QuietBookIsMarket ==
    \A t \in Tokens : Quiet(t) =>
        /\ t \in DOMAIN books
        /\ \A s \in Sides :
              /\ ToSet(books[t][s]) = Levels(market[t][s])
              /\ Len(books[t][s]) = Cardinality(Levels(market[t][s]))

\* GetBestBidAsk, and with it the hybrid client's mid price, never names a price
\* at which a quiet, non-empty side of the market has nothing to trade.
QuietBestIsALevel ==
    \A t \in Tokens, s \in Sides :
        Quiet(t) /\ Priced(market[t][s]) # {} => best[t][s] \in Priced(market[t][s])

\* What a listener has been told, is about to be told or is about to act on.
Coming(l) == telling \cup ToSet(queue[l]) \cup reading[l]

\* A listener that has not acted on the last news of a token, or on its
\* resolution, still has an update that says so coming, unless the last such
\* update met a channel full of others and it has read nothing of it since.
\* Where a channel is full with such an update among the rest, nothing is lost.
MissedOnlyWhenFull ==
    \A l \in Listeners : unseen[l] \subseteq Coming(l) \cup dropped[l]

\* What the channels do not give: an update of one token that is dropped behind
\* those of others leaves its book unread until the next update of it, and a
\* "market_resolved" that is dropped is lost for good.
NothingMissed == \A l \in Listeners : unseen[l] \subseteq Coming(l)

\* wsfeed.go:559: "Best bid = last bid (highest price), best ask = last ask
\* (lowest price)."
BestIsBest ==
    \A t \in Tokens, s \in Sides :
        Quiet(t) /\ Priced(market[t][s]) # {} => best[t][s] = BestPrice(s, market[t][s])
=============================================================================
