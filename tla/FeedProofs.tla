----------------------------- MODULE FeedProofs -----------------------------
(***************************************************************************)
(* Proofs about the order book feed, for any tokens, callers and bounds.   *)
(* ConnInv says which connections may be open, ManagerInv and              *)
(* TrackedIsSubscribed what a reconnect must not lose, BookInv what the    *)
(* messages on their way will make of each cached book.                    *)
(***************************************************************************)
EXTENDS PolymarketFeed, FiniteSetTheorems, SequenceTheorems, TLAPS

MessageKind == [token : Tokens, kind : {"book", "change"}, version : Nat]
ConnType == [open : BOOLEAN, up : BOOLEAN, subs : SUBSET Tokens, inbox : Seq(MessageKind)]
ReaderType == [at : {"top", "load", "read", "clear", "retry", "dial", "collect", "renew", "ended"},
               conn : 0..MaxConns, ids : SUBSET Tokens]
CallerType == [at : {"idle", "untrack", "uncache", "unsubConn", "unsubSend", "track", "subConn",
                     "subSend"},
               unsub : SUBSET Tokens, sub : SUBSET Tokens, conn : 0..MaxConns]

FeedType ==
    /\ dialled \in 1..MaxConns
    /\ conn \in 0..MaxConns
    /\ tracked \subseteq Tokens
    /\ books \in [Tokens -> Int]
    /\ reader \in ReaderType
    /\ reader.at = "read" => reader.conn # 0
    /\ caller \in [Callers -> CallerType]
    /\ net \in [1..MaxConns -> ConnType]
    /\ market \in [Tokens -> Nat]

\* An answer holds the market's books of the tokens asked for, all of them.
LEMMA SnapshotsAreBooks ==
  ASSUME FeedType, NEW ids \in SUBSET Tokens, NEW s \in Snapshots(ids)
  PROVE  /\ s \in Seq(MessageKind)
         /\ \A i \in 1..Len(s) : s[i].kind = "book" /\ s[i].version = market[s[i].token]
         /\ \A i \in 1..Len(s) : s[i].token \in ids
         /\ \A t \in ids : \E i \in 1..Len(s) : s[i].token = t
  <1>1. Cardinality(ids) \in Nat
    BY FS_Subset, FS_CardinalityType, FeedAssumption DEF FeedAssumption
  <1> DEFINE answers == {Message(t, "book") : t \in ids}
  <1>2. s \in [1..Cardinality(ids) -> answers]
    BY DEF Snapshots
  <1>3. s \in Seq(answers) /\ Len(s) = Cardinality(ids) /\ DOMAIN s = 1..Len(s)
    BY <1>1, <1>2
  <1>4. \A m \in answers : m \in MessageKind /\ m.kind = "book" /\ m.version = market[m.token]
                           /\ m.token \in ids
    BY DEF Message, MessageKind, FeedType
  <1>5. \A i \in 1..Len(s) : s[i] \in answers
    BY <1>2, <1>3
  <1>6. \A t \in ids : \E i \in 1..Len(s) : s[i].token = t
    BY <1>3 DEF Snapshots, Message
  <1>7. s \in Seq(MessageKind)
    BY <1>1, <1>2, <1>3, <1>4
  <1> HIDE DEF answers
  <1>8. QED
    BY <1>4, <1>5, <1>6, <1>7

LEMMA InitType == Init => FeedType
  BY FeedAssumption DEF FeedAssumption, Init, FeedType, NewConn, NoConn, Idle, NoBook, MessageKind,
     ConnType, ReaderType, CallerType

LEMMA SubscribeType ==
  ASSUME FeedType, NEW k \in 0..MaxConns, NEW ids \in SUBSET Tokens, WriteSubscribe(k, ids)
  PROVE  net' \in [1..MaxConns -> ConnType]
  <1>1. CASE ~Works(k)
    BY <1>1 DEF WriteSubscribe, FeedType
  <1>2. CASE Works(k)
    <2>1. PICK s \in Snapshots(ids) :
             net' = [net EXCEPT ![k].subs = @ \cup ids, ![k].inbox = @ \o s]
      BY <1>2 DEF WriteSubscribe
    <2>2. s \in Seq(MessageKind)
      BY SnapshotsAreBooks
    <2>3. k \in 1..MaxConns /\ net[k] \in ConnType
      BY <1>2, FeedAssumption DEF Works, FeedAssumption, FeedType
    <2>4. net[k].inbox \o s \in Seq(MessageKind)
      BY <2>2, <2>3 DEF ConnType
    <2>5. [net[k] EXCEPT !.subs = @ \cup ids, !.inbox = @ \o s] \in ConnType
      BY <2>3, <2>4 DEF ConnType
    <2>6. net' = [net EXCEPT ![k] = [net[k] EXCEPT !.subs = @ \cup ids, !.inbox = @ \o s]]
      BY <2>1, <2>3 DEF FeedType, ConnType
    <2>7. QED
      BY <2>3, <2>5, <2>6 DEF FeedType
  <1>3. QED
    BY <1>1, <1>2

LEMMA ReaderGoesType ==
  ASSUME FeedType, NEW at, ReaderGoes(at),
         at \in {"top", "load", "read", "clear", "retry", "dial", "collect", "renew", "ended"}
  PROVE  reader' \in ReaderType /\ reader'.at = at /\ reader'.conn = reader.conn
  BY DEF ReaderGoes, FeedType, ReaderType

LEMMA CloseType ==
  ASSUME FeedType, NEW k, CloseConn(k)
  PROVE  net' \in [1..MaxConns -> ConnType]
  <1>1. \A j \in 1..MaxConns : net[j] \in ConnType /\ [net[j] EXCEPT !.open = FALSE] \in ConnType
    BY DEF FeedType, ConnType
  <1>2. QED
    BY <1>1 DEF CloseConn

LEMMA ReaderKeepsType ==
  ASSUME FeedType, Reader
  PROVE  FeedType'
  <1> USE DEF callerVars
  <1>1. CASE LoopEnds \/ LoopGoesOn \/ ReadFails \/ Retry \/ DialFails
    <2>1. reader' \in ReaderType /\ reader'.at # "read"
      BY <1>1, ReaderGoesType DEF LoopEnds, LoopGoesOn, ReadFails, Retry, DialFails
    <2>2. UNCHANGED <<conn, dialled, tracked, books, caller, net, market>>
      BY <1>1 DEF LoopEnds, LoopGoesOn, ReadFails, Retry, DialFails
    <2>3. QED
      BY <2>1, <2>2 DEF FeedType
  <1>2. CASE LoadConn \/ Collect
    <2>1. reader' \in ReaderType /\ (reader'.at = "read" => reader'.conn # 0)
      BY <1>2 DEF LoadConn, Collect, FeedType, ReaderType
    <2>2. UNCHANGED <<conn, dialled, tracked, books, caller, net, market>>
      BY <1>2 DEF LoadConn, Collect
    <2>3. QED
      BY <2>1, <2>2 DEF FeedType
  <1>3. CASE Handle
    <2> DEFINE k == reader.conn
    <2>1. reader' \in ReaderType /\ reader'.at # "read"
      BY <1>3, ReaderGoesType DEF Handle
    <2>2. k \in 1..MaxConns
      BY <1>3, FeedAssumption DEF Handle, FeedType, ReaderType, FeedAssumption
    <2>3. net[k].inbox \in Seq(MessageKind) /\ net[k].inbox # <<>>
      BY <1>3, <2>2 DEF Handle, FeedType, ConnType
    <2>4. Head(net[k].inbox) \in MessageKind /\ Tail(net[k].inbox) \in Seq(MessageKind)
      BY <2>3, HeadTailProperties
    <2>5. net' \in [1..MaxConns -> ConnType]
      <3>1. net' = [net EXCEPT ![k] = [net[k] EXCEPT !.inbox = Tail(net[k].inbox)]]
        BY <1>3, <2>2 DEF Handle, FeedType
      <3>a. net[k] \in ConnType
        BY <2>2 DEF FeedType
      <3>2. [net[k] EXCEPT !.inbox = Tail(net[k].inbox)] \in ConnType
        BY <2>4, <3>a DEF ConnType
      <3>3. QED
        BY <3>1, <3>2 DEF FeedType
    <2>6. books' \in [Tokens -> Int]
      <3> DEFINE m == Head(net[k].inbox)
      <3>1. m.token \in Tokens /\ m.version \in Int /\ books[m.token] \in Int
        <4>1. m \in MessageKind
          BY <2>4
        <4> HIDE DEF m
        <4>2. QED
          BY <4>1 DEF FeedType, MessageKind
      <3>2. HandleBook(m) \in Int /\ HandlePriceChange(m) \in Int
        BY <3>1 DEF HandleBook, HandlePriceChange, NoBook, Mixed
      <3>3. books' = [books EXCEPT ![m.token] = IF m.kind = "book" THEN HandleBook(m)
                                                ELSE HandlePriceChange(m)]
        BY <1>3 DEF Handle
      <3> HIDE DEF m
      <3>4. QED
        BY <3>1, <3>2, <3>3 DEF FeedType
    <2>7. QED
      BY <1>3, <2>1, <2>5, <2>6 DEF Handle, FeedType
  <1>4. CASE Clear
    <2>1. net' \in [1..MaxConns -> ConnType]
      BY <1>4, CloseType DEF Clear
    <2>2. reader' \in ReaderType /\ reader'.at # "read"
      BY <1>4, FeedAssumption DEF Clear, ReaderType, FeedAssumption
    <2>3. QED
      BY <1>4, <2>1, <2>2, FeedAssumption DEF Clear, NoBook, FeedType, FeedAssumption
  <1>5. CASE Dial
    <2>1. net' \in [1..MaxConns -> ConnType]
      BY <1>5, FeedAssumption DEF Dial, NewConn, FeedAssumption, FeedType, ConnType
    <2>2. reader' \in ReaderType /\ reader'.at # "read"
      BY <1>5, ReaderGoesType DEF Dial
    <2>3. QED
      BY <1>5, <2>1, <2>2, FeedAssumption DEF Dial, FeedType, FeedAssumption
  <1>6. CASE Renew
    <2>1. net' \in [1..MaxConns -> ConnType]
      BY <1>6, SubscribeType DEF Renew, FeedType, ReaderType
    <2>2. reader' \in ReaderType /\ reader'.at # "read"
      BY <1>6 DEF Renew, FeedType, ReaderType
    <2>3. QED
      BY <1>6, <2>1, <2>2 DEF Renew, FeedType
  <1>7. QED
    BY <1>1, <1>2, <1>3, <1>4, <1>5, <1>6 DEF Reader

LEMMA CallKeepsType ==
  ASSUME FeedType, NEW c \in Callers, Call(c)
  PROVE  FeedType'
  <1>1. CASE Subscribe(c) \/ Unsubscribe(c) \/ UpdateSubscriptions(c)
    <2>1. PICK unsub \in SUBSET Tokens, sub \in SUBSET Tokens : Begin(c, unsub, sub)
      BY <1>1 DEF Subscribe, Unsubscribe, UpdateSubscriptions, FeedType
    <2>2. caller' \in [Callers -> CallerType]
      BY <2>1, FeedAssumption DEF Begin, FeedType, CallerType, FeedAssumption
    <2>3. QED
      BY <2>1, <2>2 DEF Begin, FeedType
  <1>2. CASE Untrack(c) \/ Uncache(c) \/ Track(c)
    <2>1. caller' \in [Callers -> CallerType]
      <3>1. PICK to \in {"uncache", "unsubConn", "subConn"} : CallerGoes(c, to)
        BY <1>2 DEF Untrack, Uncache, Track
      <3>2. caller' = [caller EXCEPT ![c] = [caller[c] EXCEPT !.at = to]]
        BY <3>1 DEF CallerGoes, FeedType
      <3>3. [caller[c] EXCEPT !.at = to] \in CallerType
        BY DEF FeedType, CallerType
      <3>4. QED
        BY <3>2, <3>3 DEF FeedType
    <2>2. tracked' \subseteq Tokens /\ books' \in [Tokens -> Int]
      BY <1>2 DEF Untrack, Uncache, Track, NoBook, FeedType, CallerType
    <2>3. QED
      BY <1>2, <2>1, <2>2 DEF Untrack, Uncache, Track, FeedType
  <1>3. CASE TakeConn(c)
    <2>1. caller' \in [Callers -> CallerType]
      <3>1. PICK to \in {"unsubSend", "subSend"} :
               caller' = [caller EXCEPT ![c] = [caller[c] EXCEPT !.at = to, !.conn = conn]]
        BY <1>3 DEF TakeConn, FeedType
      <3>2. [caller[c] EXCEPT !.at = to, !.conn = conn] \in CallerType
        BY DEF FeedType, CallerType
      <3>3. QED
        BY <3>1, <3>2 DEF FeedType
    <2>2. QED
      BY <1>3, <2>1 DEF TakeConn, FeedType
  <1>4. CASE SendUnsubscribe(c)
    <2>1. caller' \in [Callers -> CallerType]
      <3>1. PICK to \in {"idle", "track"} :
               caller' = [caller EXCEPT ![c] = [@ EXCEPT !.at = to, !.unsub = {}, !.conn = 0]]
        BY <1>4 DEF SendUnsubscribe
      <3>2. [caller[c] EXCEPT !.at = to, !.unsub = {}, !.conn = 0] \in CallerType
        <4>1. caller[c] \in CallerType /\ 0 \in 0..MaxConns
          BY FeedAssumption DEF FeedType, FeedAssumption
        <4>2. QED
          BY <4>1 DEF CallerType
      <3>3. QED
        BY <3>1, <3>2 DEF FeedType
    <2>2. net' \in [1..MaxConns -> ConnType]
      <3> DEFINE k == caller[c].conn
      <3>1. CASE UNCHANGED net
        BY <3>1 DEF FeedType
      <3>2. CASE Works(k) /\ net' = [net EXCEPT ![k].subs = @ \ caller[c].unsub]
        <4>1. k \in 1..MaxConns
          BY <3>2, FeedAssumption DEF FeedType, CallerType, Works, FeedAssumption
        <4>2. net' = [net EXCEPT ![k] = [net[k] EXCEPT !.subs = @ \ caller[c].unsub]]
          BY <3>2, <4>1 DEF FeedType
        <4>3. [net[k] EXCEPT !.subs = @ \ caller[c].unsub] \in ConnType
          <5>1. net[k] \in ConnType
            BY <4>1 DEF FeedType
          <5>2. QED
            BY <5>1 DEF ConnType
        <4>4. QED
          BY <4>2, <4>3 DEF FeedType
      <3>3. QED
        BY <1>4, <3>1, <3>2 DEF SendUnsubscribe, WriteUnsubscribe
    <2>3. QED
      BY <1>4, <2>1, <2>2 DEF SendUnsubscribe, FeedType
  <1>5. CASE SendSubscribe(c)
    <2>1. caller' \in [Callers -> CallerType]
      BY <1>5, FeedAssumption DEF SendSubscribe, Idle, FeedType, CallerType, FeedAssumption
    <2>2. net' \in [1..MaxConns -> ConnType]
      BY <1>5, SubscribeType DEF SendSubscribe, FeedType, CallerType
    <2>3. QED
      BY <1>5, <2>1, <2>2 DEF SendSubscribe, FeedType
  <1>6. QED
    BY <1>1, <1>2, <1>3, <1>4, <1>5 DEF Call

LEMMA NextType == FeedType /\ [Next]_vars => FeedType'
  <1> SUFFICES ASSUME FeedType, [Next]_vars PROVE FeedType'
    OBVIOUS
  <1>1. CASE Reader
    BY <1>1, ReaderKeepsType
  <1>2. ASSUME NEW c \in Callers, Call(c) PROVE FeedType'
    BY <1>2, CallKeepsType
  <1>3. CASE StopBegins
    BY <1>3 DEF StopBegins, callerVars, FeedType
  <1>4. CASE StopCloses
    <2>1. net' \in [1..MaxConns -> ConnType]
      BY <1>4, CloseType DEF StopCloses
    <2>2. QED
      BY <1>4, <2>1, FeedAssumption DEF StopCloses, callerVars, FeedType, FeedAssumption
  <1>5. ASSUME NEW t \in Tokens, MarketMoves(t) PROVE FeedType'
    <2>1. [token |-> t, kind |-> "change", version |-> market[t] + 1] \in MessageKind
      BY DEF FeedType, MessageKind
    <2> DEFINE change == [token |-> t, kind |-> "change", version |-> market[t] + 1]
    <2> HIDE DEF change
    <2>2. \A k \in 1..MaxConns :
             [net[k] EXCEPT !.inbox = Append(@, change)] \in ConnType
      <3>1. TAKE k \in 1..MaxConns
      <3>2. Append(net[k].inbox, change) \in Seq(MessageKind)
        BY <2>1 DEF FeedType, ConnType, change
      <3>3. QED
        BY <3>2 DEF FeedType, ConnType
    <2>3. net' \in [1..MaxConns -> ConnType]
      <3>1. net' = [k \in 1..MaxConns |->
                       IF Works(k) /\ t \in net[k].subs
                       THEN [net[k] EXCEPT !.inbox = Append(@, change)] ELSE net[k]]
        BY <1>5 DEF MarketMoves, change
      <3>2. QED
        BY <2>2, <3>1 DEF FeedType
    <2>4. market' \in [Tokens -> Nat]
      BY <1>5 DEF MarketMoves, FeedType
    <2>5. QED
      BY <1>5, <2>3, <2>4 DEF MarketMoves, callerVars, FeedType
  <1>6. ASSUME NEW k \in 1..MaxConns, Break(k) PROVE FeedType'
    <2>1. net' \in [1..MaxConns -> ConnType]
      BY <1>6 DEF Break, FeedType, ConnType
    <2>2. QED
      BY <1>6, <2>1 DEF Break, callerVars, FeedType
  <1>7. CASE UNCHANGED vars
    BY <1>7 DEF vars, FeedType
  <1>8. QED
    BY <1>1, <1>2, <1>3, <1>4, <1>5, <1>6, <1>7 DEF Next

-----------------------------------------------------------------------------
(* What writes, closes and breaks do to the connections.                   *)

LEMMA SubscribeEffect ==
  ASSUME FeedType, NEW k \in 0..MaxConns, NEW ids \in SUBSET Tokens, WriteSubscribe(k, ids)
  PROVE  \A j \in 1..MaxConns :
            /\ net'[j].open = net[j].open /\ net'[j].up = net[j].up
            /\ ~(j = k /\ Works(k)) => net'[j] = net[j]
            /\ j = k /\ Works(k) => /\ net'[j].subs = net[j].subs \cup ids
                                    /\ \E s \in Snapshots(ids) : net'[j].inbox = net[j].inbox \o s
  <1>1. CASE ~Works(k)
    BY <1>1 DEF WriteSubscribe
  <1>2. CASE Works(k)
    <2>1. PICK s \in Snapshots(ids) :
             net' = [net EXCEPT ![k].subs = @ \cup ids, ![k].inbox = @ \o s]
      BY <1>2 DEF WriteSubscribe
    <2>2. k \in 1..MaxConns
      BY <1>2, FeedAssumption DEF Works, FeedAssumption
    <2>3. net' = [net EXCEPT ![k] = [net[k] EXCEPT !.subs = @ \cup ids, !.inbox = @ \o s]]
      BY <2>1, <2>2 DEF FeedType, ConnType
    <2>4. QED
      BY <1>2, <2>2, <2>3 DEF FeedType, ConnType
  <1>3. QED
    BY <1>1, <1>2

LEMMA UnsubscribeEffect ==
  ASSUME FeedType, NEW k \in 0..MaxConns, NEW ids, WriteUnsubscribe(k, ids)
  PROVE  \A j \in 1..MaxConns :
            /\ net'[j].open = net[j].open /\ net'[j].up = net[j].up
            /\ net'[j].inbox = net[j].inbox
            /\ net'[j].subs = IF j = k /\ Works(k) THEN net[j].subs \ ids ELSE net[j].subs
  <1>1. CASE ~Works(k)
    BY <1>1 DEF WriteUnsubscribe
  <1>2. CASE Works(k)
    <2>1. k \in 1..MaxConns
      BY <1>2, FeedAssumption DEF Works, FeedAssumption
    <2>2. net' = [net EXCEPT ![k] = [net[k] EXCEPT !.subs = @ \ ids]]
      BY <1>2, <2>1 DEF WriteUnsubscribe, FeedType
    <2>3. QED
      BY <1>2, <2>1, <2>2 DEF FeedType, ConnType
  <1>3. QED
    BY <1>1, <1>2

LEMMA CloseEffect ==
  ASSUME FeedType, NEW k, CloseConn(k)
  PROVE  \A j \in 1..MaxConns :
            /\ net'[j].open <=> net[j].open /\ j # k
            /\ net'[j].up = net[j].up
            /\ net'[j].subs = net[j].subs /\ net'[j].inbox = net[j].inbox
  BY DEF CloseConn, FeedType, ConnType

LEMMA BreakEffect ==
  ASSUME FeedType, NEW k \in 1..MaxConns, Break(k)
  PROVE  \A j \in 1..MaxConns :
            /\ net'[j].open = net[j].open
            /\ net'[j].up <=> net[j].up /\ j # k
            /\ net'[j].subs = net[j].subs /\ net'[j].inbox = net[j].inbox
  BY DEF Break, FeedType, ConnType

LEMMA MarketEffect ==
  ASSUME FeedType, NEW t \in Tokens, MarketMoves(t)
  PROVE  \A j \in 1..MaxConns :
            /\ net'[j].open = net[j].open /\ net'[j].up = net[j].up
            /\ net'[j].subs = net[j].subs
            /\ net'[j].inbox = IF Works(j) /\ t \in net[j].subs
                               THEN Append(net[j].inbox, [token |-> t, kind |-> "change",
                                                          version |-> market[t] + 1])
                               ELSE net[j].inbox
  BY DEF MarketMoves, FeedType, ConnType

LEMMA HandleEffect ==
  ASSUME FeedType, Handle
  PROVE  /\ reader.conn \in 1..MaxConns
         /\ net[reader.conn].inbox \in Seq(MessageKind) \ {<<>>}
         /\ \A j \in 1..MaxConns :
            /\ net'[j].open = net[j].open /\ net'[j].up = net[j].up
            /\ net'[j].subs = net[j].subs
            /\ net'[j].inbox = IF j = reader.conn THEN Tail(net[j].inbox) ELSE net[j].inbox
  <1>1. reader.conn \in 1..MaxConns
    BY FeedAssumption DEF Handle, FeedType, ReaderType, FeedAssumption
  <1>2. QED
    BY <1>1 DEF Handle, FeedType, ConnType

-----------------------------------------------------------------------------
(* The connection the feed holds is the last one dialled, or none; all     *)
(* others are closed.                                                      *)

ConnInv ==
    /\ \A k \in 1..MaxConns : net[k].open => k = conn
    /\ conn \in {0, dialled}
    /\ reader.at \in {"retry", "dial"} => conn = 0
    /\ reader.at = "read" /\ conn # 0 => reader.conn = conn

LEMMA InitConn == Init => ConnInv
  BY FeedAssumption DEF FeedAssumption, Init, ConnInv, NewConn, NoConn

LEMMA NextConn ==
  ASSUME FeedType, ConnInv, [Next]_vars
  PROVE  ConnInv'
  <1> USE DEF callerVars
  <1>1. CASE LoopEnds \/ LoopGoesOn \/ ReadFails \/ DialFails
    BY <1>1, ReaderGoesType DEF LoopEnds, LoopGoesOn, ReadFails, DialFails, ConnInv
  <1>2. CASE Retry
    BY <1>2, ReaderGoesType DEF Retry, ConnInv
  <1>3. CASE LoadConn \/ Collect
    BY <1>3 DEF LoadConn, Collect, ConnInv, FeedType, ReaderType
  <1>4. CASE Handle
    BY <1>4, HandleEffect, ReaderGoesType DEF Handle, ConnInv
  <1>5. CASE Clear
    BY <1>5, CloseEffect DEF Clear, ConnInv
  <1>6. CASE Dial
    <2>1. \A j \in 1..MaxConns : net'[j] = IF j = dialled + 1 THEN NewConn ELSE net[j]
      BY <1>6 DEF Dial, FeedType
    <2>2. \A j \in 1..MaxConns : ~net[j].open
      BY <1>6, FeedAssumption DEF Dial, ConnInv, FeedAssumption
    <2>3. reader'.at = "collect"
      BY <1>6, ReaderGoesType DEF Dial
    <2>4. QED
      BY <1>6, <2>1, <2>2, <2>3 DEF Dial, ConnInv
  <1>7. CASE Renew
    BY <1>7, SubscribeEffect DEF Renew, ConnInv, FeedType, ReaderType
  <1>8. ASSUME NEW c \in Callers, Call(c) PROVE ConnInv'
    <2>1. UNCHANGED <<conn, dialled, reader>>
      BY <1>8 DEF Call, Subscribe, Unsubscribe, UpdateSubscriptions, Begin, Untrack, Uncache,
         Track, TakeConn, SendUnsubscribe, SendSubscribe
    <2>2. \A j \in 1..MaxConns : net'[j].open = net[j].open
      <3>1. CASE UNCHANGED net
        BY <3>1
      <3>2. CASE SendSubscribe(c)
        BY <3>2, SubscribeEffect DEF SendSubscribe, FeedType, CallerType
      <3>3. CASE SendUnsubscribe(c)
        BY <3>3, UnsubscribeEffect DEF SendUnsubscribe, FeedType, CallerType
      <3>4. QED
        BY <1>8, <3>1, <3>2, <3>3 DEF Call, Subscribe, Unsubscribe, UpdateSubscriptions, Begin,
           Untrack, Uncache, Track, TakeConn
    <2>3. QED
      BY <2>1, <2>2 DEF ConnInv
  <1>9. CASE StopBegins
    BY <1>9 DEF StopBegins, ConnInv
  <1>10. CASE StopCloses
    BY <1>10, CloseEffect DEF StopCloses, ConnInv
  <1>11. ASSUME NEW t \in Tokens, MarketMoves(t) PROVE ConnInv'
    BY <1>11, MarketEffect DEF MarketMoves, ConnInv
  <1>12. ASSUME NEW k \in 1..MaxConns, Break(k) PROVE ConnInv'
    BY <1>12, BreakEffect DEF Break, ConnInv
  <1>13. CASE UNCHANGED vars
    BY <1>13 DEF vars, ConnInv
  <1>14. QED
    BY <1>1, <1>2, <1>3, <1>4, <1>5, <1>6, <1>7, <1>8, <1>9, <1>10, <1>11, <1>12, <1>13
       DEF Next, Reader

\* Whatever Stop, reconnect and the callers do, every connection but the last
\* one dialled is closed: reconnect and Stop close pf.conn before they drop it.
THEOREM OneConnection == Spec => []OldConnsClosed
  <1>1. FeedType /\ ConnInv => OldConnsClosed
    BY FeedAssumption DEF FeedType, ConnInv, OldConnsClosed, FeedAssumption
  <1>2. FeedType /\ ConnInv /\ [Next]_vars => ConnInv'
    BY NextConn
  <1>3. QED
    BY <1>1, <1>2, InitType, NextType, InitConn, PTL DEF Spec

\* No step but Dial makes a connection work.
LEMMA WorkedBefore ==
  ASSUME FeedType, UNCHANGED conn, Works(conn)',
         \A j \in 1..MaxConns : (net'[j].open => net[j].open) /\ (net'[j].up => net[j].up)
  PROVE  conn \in 1..MaxConns /\ Works(conn)
  <1>1. conn # 0 /\ net'[conn].open /\ net'[conn].up
    BY DEF Works
  <1>2. conn \in 1..MaxConns
    BY <1>1, FeedAssumption DEF FeedType, FeedAssumption
  <1>3. QED
    BY <1>1, <1>2 DEF Works

-----------------------------------------------------------------------------
(* No subscription is lost, for one goroutine that manages them: what it   *)
(* is about to unsubscribe nobody tracks any more.                         *)

OneManager == \A c, d \in Callers : c = d

ManagerInv ==
    \A c \in Callers :
        caller[c].at \in {"uncache", "unsubConn", "unsubSend"} => caller[c].unsub \cap tracked = {}

SubscribedInv == FeedType /\ ConnInv /\ ManagerInv /\ TrackedIsSubscribed

LEMMA InitSubscribed == Init => ManagerInv /\ TrackedIsSubscribed
  BY DEF Init, ManagerInv, TrackedIsSubscribed, Idle

\* The reader's own steps do not change what is tracked.
LEMMA ReaderKeepsSubscribed ==
  ASSUME SubscribedInv, Reader
  PROVE  ManagerInv' /\ TrackedIsSubscribed'
  <1> USE DEF callerVars, SubscribedInv
  <1>1. UNCHANGED <<tracked, caller>>
    BY DEF Reader, LoopEnds, LoopGoesOn, LoadConn, Handle, ReadFails, Clear, Retry, DialFails,
       Dial, Collect, Renew
  <1>2. ManagerInv'
    BY <1>1 DEF ManagerInv
  <1>3. CASE LoopEnds \/ LoopGoesOn \/ ReadFails \/ Retry \/ DialFails \/ LoadConn
    <2>1. UNCHANGED <<conn, net>> /\ reader.at \notin {"collect", "renew"}
      BY <1>3 DEF LoopEnds, LoopGoesOn, LoadConn, ReadFails, Retry, DialFails
    <2>2. QED
      BY <1>1, <1>2, <2>1 DEF TrackedIsSubscribed, Works, Owed
  <1>4. CASE Handle
    <2>1. UNCHANGED conn /\ reader.at = "read"
      BY <1>4 DEF Handle
    <2>2. ASSUME Works(conn)' PROVE Works(conn) /\ net'[conn].subs = net[conn].subs
      BY <1>4, <2>1, <2>2, HandleEffect, WorkedBefore
    <2>3. QED
      BY <1>1, <1>2, <2>1, <2>2 DEF TrackedIsSubscribed, Owed
  <1>5. CASE Clear
    BY <1>2, <1>5 DEF Clear, TrackedIsSubscribed, Works
  <1>6. CASE Dial
    <2>1. reader'.at = "collect"
      BY <1>6, ReaderGoesType DEF Dial
    <2>2. QED
      BY <1>2, <2>1 DEF TrackedIsSubscribed, Owed
  <1>7. CASE Collect
    <2>1. UNCHANGED <<conn, net>>
      BY <1>7 DEF Collect
    <2>2. tracked = {} \/ (reader'.at = "renew" /\ reader'.ids = tracked)
      BY <1>7 DEF Collect, FeedType, ReaderType
    <2>3. QED
      BY <1>1, <1>2, <2>1, <2>2 DEF TrackedIsSubscribed, Owed
  <1>8. CASE Renew
    <2>1. UNCHANGED conn /\ reader.at = "renew"
      BY <1>8 DEF Renew
    <2>2. \A j \in 1..MaxConns : net'[j].open = net[j].open /\ net'[j].up = net[j].up
      BY <1>8, SubscribeEffect DEF Renew, FeedType, ReaderType
    <2>3. ASSUME Works(conn)' PROVE Works(conn) /\ net'[conn].subs = net[conn].subs \cup reader.ids
      <3>1. conn \in 1..MaxConns /\ Works(conn)
        BY <2>1, <2>2, <2>3, WorkedBefore
      <3>2. QED
        <4>1. conn \in 0..MaxConns /\ reader.ids \in SUBSET Tokens /\ WriteSubscribe(conn, reader.ids)
          BY <1>8 DEF Renew, FeedType, ReaderType
        <4>2. QED
          BY <3>1, <4>1, SubscribeEffect
    <2>4. QED
      BY <1>1, <1>2, <2>1, <2>3 DEF TrackedIsSubscribed, Owed
  <1>9. QED
    BY <1>3, <1>4, <1>5, <1>6, <1>7, <1>8 DEF Reader

LEMMA CallKeepsSubscribed ==
  ASSUME OneManager, SubscribedInv, NEW c \in Callers, Call(c)
  PROVE  ManagerInv' /\ TrackedIsSubscribed'
  <1> USE DEF SubscribedInv
  <1>1. \A d \in Callers : d = c
    BY DEF OneManager
  <1>2. UNCHANGED <<conn, reader>>
    BY DEF Call, Subscribe, Unsubscribe, UpdateSubscriptions, Begin, Untrack, Uncache, Track,
       TakeConn, SendUnsubscribe, SendSubscribe
  <1>3. CASE Subscribe(c) \/ Unsubscribe(c) \/ UpdateSubscriptions(c)
    <2>1. PICK unsub \in SUBSET Tokens, sub \in SUBSET Tokens : Begin(c, unsub, sub)
      BY <1>3 DEF Subscribe, Unsubscribe, UpdateSubscriptions, FeedType
    <2>2. UNCHANGED <<tracked, net>> /\ caller[c].at = "idle"
      BY <2>1 DEF Begin
    <2>3. caller'[c].at \in {"untrack", "track", "idle"}
      BY <2>1 DEF Begin, FeedType
    <2>4. QED
      BY <1>1, <1>2, <2>2, <2>3 DEF ManagerInv, TrackedIsSubscribed, Owed, Works
  <1>4. CASE Untrack(c)
    <2>1. /\ tracked' = tracked \ caller[c].unsub /\ UNCHANGED net /\ caller[c].at = "untrack"
          /\ caller'[c].unsub = caller[c].unsub
      BY <1>4 DEF Untrack, CallerGoes, FeedType, CallerType
    <2>2. QED
      BY <1>1, <1>2, <2>1 DEF ManagerInv, TrackedIsSubscribed, Owed, Works
  <1>5. CASE Uncache(c)
    <2>1. /\ UNCHANGED <<tracked, net>> /\ caller[c].at = "uncache"
          /\ caller'[c].unsub = caller[c].unsub
      BY <1>5 DEF Uncache, CallerGoes, FeedType, CallerType
    <2>2. QED
      BY <1>1, <1>2, <2>1 DEF ManagerInv, TrackedIsSubscribed, Owed, Works
  <1>6. CASE Track(c)
    <2>1. /\ tracked' = tracked \cup caller[c].sub /\ UNCHANGED net /\ caller[c].at = "track"
          /\ caller'[c].at = "subConn" /\ caller'[c].sub = caller[c].sub
      BY <1>6 DEF Track, CallerGoes, FeedType, CallerType
    <2>2. QED
      BY <1>1, <1>2, <2>1 DEF ManagerInv, TrackedIsSubscribed, Owed, Works
  <1>7. CASE TakeConn(c)
    <2>1. UNCHANGED <<tracked, net>>
      BY <1>7 DEF TakeConn
    <2>2. \/ /\ caller[c].at = "unsubConn" /\ caller'[c].at = "unsubSend"
             /\ caller'[c].unsub = caller[c].unsub
          \/ /\ caller[c].at = "subConn" /\ caller'[c].at = "subSend"
             /\ caller'[c].sub = caller[c].sub /\ caller'[c].conn = conn
      BY <1>7 DEF TakeConn, FeedType, CallerType
    <2>3. QED
      BY <1>1, <1>2, <2>1, <2>2 DEF ManagerInv, TrackedIsSubscribed, Owed, Works
  <1>8. CASE SendUnsubscribe(c)
    <2>1. UNCHANGED tracked /\ caller[c].at = "unsubSend" /\ caller'[c].at \in {"idle", "track"}
      BY <1>8 DEF SendUnsubscribe, FeedType, CallerType
    <2>2. caller[c].unsub \cap tracked = {}
      BY <2>1 DEF ManagerInv
    <2>3. ASSUME Works(conn)'
          PROVE  Works(conn) /\ net[conn].subs \ caller[c].unsub \subseteq net'[conn].subs
      <3>1. caller[c].conn \in 0..MaxConns /\ WriteUnsubscribe(caller[c].conn, caller[c].unsub)
        BY <1>8 DEF SendUnsubscribe, FeedType, CallerType
      <3>2. conn \in 1..MaxConns /\ Works(conn)
        BY <1>2, <2>3, <3>1, UnsubscribeEffect, WorkedBefore
      <3>3. net'[conn].subs = IF conn = caller[c].conn /\ Works(caller[c].conn)
                              THEN net[conn].subs \ caller[c].unsub ELSE net[conn].subs
        <4> DEFINE k == caller[c].conn
                   ids == caller[c].unsub
        <4>1. FeedType /\ k \in 0..MaxConns /\ WriteUnsubscribe(k, ids)
          BY <3>1
        <4> HIDE DEF k, ids
        <4>2. net'[conn].subs = IF conn = k /\ Works(k) THEN net[conn].subs \ ids ELSE net[conn].subs
          BY <3>2, <4>1, UnsubscribeEffect
        <4>3. QED
          BY <4>2 DEF k, ids
      <3>4. QED
        BY <3>2, <3>3
    <2>4. QED
      BY <1>1, <1>2, <2>1, <2>2, <2>3 DEF ManagerInv, TrackedIsSubscribed, Owed
  <1>9. CASE SendSubscribe(c)
    <2>1. UNCHANGED tracked /\ caller[c].at = "subSend" /\ caller'[c].at = "idle"
      BY <1>9 DEF SendSubscribe, Idle, FeedType
    <2>2. ASSUME Works(conn)'
          PROVE  /\ Works(conn)
                 /\ net[conn].subs \subseteq net'[conn].subs
                 /\ caller[c].conn = conn => caller[c].sub \subseteq net'[conn].subs
      <3>1. /\ caller[c].conn \in 0..MaxConns /\ caller[c].sub \in SUBSET Tokens
            /\ WriteSubscribe(caller[c].conn, caller[c].sub)
        BY <1>9 DEF SendSubscribe, FeedType, CallerType
      <3>2. conn \in 1..MaxConns /\ Works(conn)
        BY <1>2, <2>2, <3>1, SubscribeEffect, WorkedBefore
      <3>3. QED
        BY <3>1, <3>2, SubscribeEffect
    <2>3. QED
      BY <1>1, <1>2, <2>1, <2>2 DEF ManagerInv, TrackedIsSubscribed, Owed
  <1>10. QED
    BY <1>3, <1>4, <1>5, <1>6, <1>7, <1>8, <1>9 DEF Call

LEMMA NextSubscribed ==
  ASSUME OneManager, SubscribedInv, [Next]_vars
  PROVE  ManagerInv' /\ TrackedIsSubscribed'
  <1> USE DEF SubscribedInv, callerVars
  <1>1. CASE Reader
    BY <1>1, ReaderKeepsSubscribed
  <1>2. ASSUME NEW c \in Callers, Call(c) PROVE ManagerInv' /\ TrackedIsSubscribed'
    BY <1>2, CallKeepsSubscribed
  <1>3. CASE StopBegins
    BY <1>3 DEF StopBegins, ManagerInv, TrackedIsSubscribed, Owed, Works
  <1>4. CASE StopCloses
    BY <1>4 DEF StopCloses, ManagerInv, TrackedIsSubscribed, Works
  <1>5. ASSUME NEW t \in Tokens, MarketMoves(t) PROVE ManagerInv' /\ TrackedIsSubscribed'
    <2>1. UNCHANGED <<conn, tracked, reader, caller>>
      BY <1>5 DEF MarketMoves
    <2>2. ASSUME Works(conn)' PROVE Works(conn) /\ net'[conn].subs = net[conn].subs
      BY <1>5, <2>1, <2>2, MarketEffect, WorkedBefore
    <2>3. QED
      BY <2>1, <2>2 DEF ManagerInv, TrackedIsSubscribed, Owed
  <1>6. ASSUME NEW k \in 1..MaxConns, Break(k) PROVE ManagerInv' /\ TrackedIsSubscribed'
    <2>1. UNCHANGED <<conn, tracked, reader, caller>>
      BY <1>6 DEF Break
    <2>2. ASSUME Works(conn)' PROVE Works(conn) /\ net'[conn].subs = net[conn].subs
      BY <1>6, <2>1, <2>2, BreakEffect, WorkedBefore
    <2>3. QED
      BY <2>1, <2>2 DEF ManagerInv, TrackedIsSubscribed, Owed
  <1>7. CASE UNCHANGED vars
    BY <1>7 DEF vars, ManagerInv, TrackedIsSubscribed, Owed, Works
  <1>8. QED
    BY <1>1, <1>2, <1>3, <1>4, <1>5, <1>6, <1>7 DEF Next

\* With one call of Subscribe, Unsubscribe or UpdateSubscriptions at a time, as
\* the contract cache makes them (CallbacksSerialized), a reconnect at any
\* point between the critical sections of a call and its writes loses no
\* subscription.
THEOREM NoSubscriptionLost ==
  ASSUME OneManager
  PROVE  Spec => []TrackedIsSubscribed
  <1>1. SubscribedInv /\ [Next]_vars => SubscribedInv'
    BY NextType, NextConn, NextSubscribed DEF SubscribedInv
  <1>2. Init => SubscribedInv
    BY InitType, InitConn, InitSubscribed DEF SubscribedInv
  <1>3. SubscribedInv => TrackedIsSubscribed
    BY DEF SubscribedInv
  <1>4. QED
    BY <1>1, <1>2, <1>3, PTL DEF Spec

-----------------------------------------------------------------------------
(* The messages on their way as what they do to the cached book.           *)

\* Message j is the last one about t before place n of q.
IsLast(q, t, n, j) == q[j].token = t /\ \A k \in (j + 1)..(n - 1) : q[k].token # t
IsFirst(q, t, n) == \A k \in 1..(n - 1) : q[k].token # t

\* Each change in q is the step from what the message before it, or the cached
\* book b, has.
Follows(q, t, b) ==
    \A i \in 1..Len(q) : q[i].token = t /\ q[i].kind = "change" =>
        /\ \A j \in 1..(i - 1) : IsLast(q, t, i, j) => q[j].version = q[i].version - 1
        /\ IsFirst(q, t, i) => b \in {NoBook, q[i].version - 1}

\* After all of q the cached book, if there is one, has version v.
LeadsTo(q, t, b, v) ==
    /\ \A j \in 1..Len(q) : IsLast(q, t, Len(q) + 1, j) => q[j].version = v
    /\ IsFirst(q, t, Len(q) + 1) => b \in {NoBook, v}

\* The cached book of t after message m.
After(m, t, b) ==
    IF m.token # t THEN b
    ELSE IF m.kind = "book" THEN m.version
    ELSE IF b = NoBook THEN NoBook
    ELSE IF b = m.version - 1 THEN m.version
    ELSE Mixed

LEMMA HandleOne ==
  ASSUME NEW q \in Seq(MessageKind), q # <<>>, NEW t, NEW b \in Int, Follows(q, t, b)
  PROVE  /\ Follows(Tail(q), t, After(Head(q), t, b))
         /\ \A v \in Nat : LeadsTo(q, t, b, v) => LeadsTo(Tail(q), t, After(Head(q), t, b), v)
  <1> DEFINE r == Tail(q)
             m == Head(q)
  <1>1. /\ r \in Seq(MessageKind) /\ Len(r) = Len(q) - 1 /\ Len(r) \in Nat
        /\ \A i \in 1..Len(r) : r[i] = q[i + 1] /\ r[i] \in MessageKind
        /\ m = q[1] /\ m \in MessageKind
    BY HeadTailProperties
  <1> HIDE DEF r, m
  <1>2. \A i \in 1..Len(r) : \A k \in 1..(i - 1) : r[k] = q[k + 1]
    BY <1>1
  <1>3. ASSUME NEW n \in 1..(Len(r) + 1), NEW j \in 1..(n - 1), IsLast(r, t, n, j)
        PROVE  IsLast(q, t, n + 1, j + 1)
    <2>1. q[j + 1].token = t
      BY <1>1, <1>3 DEF IsLast
    <2>2. ASSUME NEW k \in (j + 2)..n PROVE q[k].token # t
      <3>1. k - 1 \in (j + 1)..(n - 1) /\ k - 1 \in 1..Len(r)
        BY <1>1
      <3>2. r[k - 1] = q[k] /\ r[k - 1].token # t
        BY <1>1, <1>3, <3>1 DEF IsLast
      <3>3. QED
        BY <3>2
    <2>3. QED
      BY <2>1, <2>2 DEF IsLast
  <1>4. ASSUME NEW n \in 1..(Len(r) + 1), IsFirst(r, t, n)
        PROVE  IF m.token = t THEN IsLast(q, t, n + 1, 1) ELSE IsFirst(q, t, n + 1)
    <2>1. ASSUME NEW k \in 2..n PROVE q[k].token # t
      <3>1. k - 1 \in 1..(n - 1) /\ k - 1 \in 1..Len(r)
        BY <1>1
      <3>2. r[k - 1] = q[k] /\ r[k - 1].token # t
        BY <1>1, <1>4, <3>1 DEF IsFirst
      <3>3. QED
        BY <3>2
    <2>2. QED
      BY <1>1, <2>1 DEF IsLast, IsFirst
  <1>5. m.token = t /\ m.kind = "change" => b \in {NoBook, m.version - 1}
    BY <1>1 DEF Follows, IsFirst
  <1>6. ASSUME NEW v \in Nat, m.token = t, m.version = v PROVE After(m, t, b) \in {NoBook, v}
    BY <1>1, <1>5, <1>6 DEF After, MessageKind
  <1>7. Follows(r, t, After(m, t, b))
    <2>1. SUFFICES ASSUME NEW i \in 1..Len(r), r[i].token = t, r[i].kind = "change"
                   PROVE  /\ \A j \in 1..(i - 1) : IsLast(r, t, i, j) => r[j].version = r[i].version - 1
                          /\ IsFirst(r, t, i) => After(m, t, b) \in {NoBook, r[i].version - 1}
      BY DEF Follows
    <2>2. i + 1 \in 1..Len(q) /\ r[i] = q[i + 1] /\ r[i].version \in Nat
      BY <1>1 DEF MessageKind
    <2>3. ASSUME NEW j \in 1..(i - 1), IsLast(r, t, i, j) PROVE r[j].version = r[i].version - 1
      <3>1. IsLast(q, t, i + 1, j + 1) /\ j + 1 \in 1..((i + 1) - 1)
        BY <1>1, <1>3, <2>3, SMTT(30)
      <3>2. q[j + 1].version = q[i + 1].version - 1
        BY <2>1, <2>2, <3>1 DEF Follows
      <3>3. r[j] = q[j + 1]
        BY <1>2
      <3>4. QED
        BY <2>2, <3>2, <3>3
    <2>4. ASSUME IsFirst(r, t, i) PROVE After(m, t, b) \in {NoBook, r[i].version - 1}
      <3>1. CASE m.token = t
        <4>1. IsLast(q, t, i + 1, 1) /\ 1 \in 1..((i + 1) - 1)
          BY <1>1, <1>4, <2>4, <3>1
        <4>2. m.version = r[i].version - 1 /\ m.version \in Nat
          BY <1>1, <2>1, <2>2, <4>1, SMTT(30) DEF Follows, MessageKind
        <4>3. QED
          BY <1>6, <3>1, <4>2
      <3>2. CASE m.token # t
        <4>1. IsFirst(q, t, i + 1)
          BY <1>1, <1>4, <2>4, <3>2
        <4>2. QED
          BY <2>1, <2>2, <3>2, <4>1 DEF Follows, After
      <3>3. QED
        BY <3>1, <3>2
    <2>5. QED
      BY <2>3, <2>4
  <1>8. ASSUME NEW v \in Nat, LeadsTo(q, t, b, v) PROVE LeadsTo(r, t, After(m, t, b), v)
    <2>1. ASSUME NEW j \in 1..Len(r), IsLast(r, t, Len(r) + 1, j) PROVE r[j].version = v
      <3>1. IsLast(q, t, Len(q) + 1, j + 1) /\ j + 1 \in 1..Len(q)
        BY <1>1, <1>3, <2>1
      <3>2. QED
        BY <1>1, <1>8, <3>1 DEF LeadsTo
    <2>2. ASSUME IsFirst(r, t, Len(r) + 1) PROVE After(m, t, b) \in {NoBook, v}
      <3>1. CASE m.token = t
        <4>1. IsLast(q, t, Len(q) + 1, 1) /\ 1 \in 1..Len(q)
          BY <1>1, <1>4, <2>2, <3>1
        <4>2. m.version = v
          BY <1>1, <1>8, <4>1 DEF LeadsTo
        <4>3. QED
          BY <1>6, <3>1, <4>2
      <3>2. CASE m.token # t
        <4>1. IsFirst(q, t, Len(q) + 1)
          BY <1>1, <1>4, <2>2, <3>2
        <4>2. QED
          BY <1>8, <3>2, <4>1 DEF LeadsTo, After
      <3>3. QED
        BY <3>1, <3>2
    <2>3. QED
      BY <2>1, <2>2 DEF LeadsTo
  <1>9. QED
    BY <1>7, <1>8 DEF r, m

LEMMA ForgetBook ==
  ASSUME NEW q, NEW t, NEW b
  PROVE  /\ Follows(q, t, b) => Follows(q, t, NoBook)
         /\ \A v : LeadsTo(q, t, b, v) => LeadsTo(q, t, NoBook, v)
  BY DEF Follows, LeadsTo

LEMMA ConcatAt ==
  ASSUME NEW q \in Seq(MessageKind), NEW s \in Seq(MessageKind)
  PROVE  /\ q \o s \in Seq(MessageKind)
         /\ Len(q \o s) = Len(q) + Len(s) /\ Len(q) \in Nat /\ Len(s) \in Nat
         /\ \A i \in 1..Len(q) : (q \o s)[i] = q[i]
         /\ \A i \in (Len(q) + 1)..(Len(q) + Len(s)) : (q \o s)[i] = s[i - Len(q)]
  BY ConcatProperties, LenProperties

LEMMA AppendBooks ==
  ASSUME NEW q \in Seq(MessageKind), NEW s \in Seq(MessageKind), NEW t, NEW b, NEW v,
         \A i \in 1..Len(s) : s[i].token = t => s[i].kind = "book" /\ s[i].version = v
  PROVE  /\ Follows(q, t, b) => Follows(q \o s, t, b)
         /\ LeadsTo(q, t, b, v) \/ (\E i \in 1..Len(s) : s[i].token = t) => LeadsTo(q \o s, t, b, v)
  <1> DEFINE r == q \o s
  <1>1. /\ r \in Seq(MessageKind)
        /\ Len(r) = Len(q) + Len(s) /\ Len(q) \in Nat /\ Len(s) \in Nat
        /\ \A i \in 1..Len(q) : r[i] = q[i]
        /\ \A i \in (Len(q) + 1)..(Len(q) + Len(s)) : r[i] = s[i - Len(q)] /\ i - Len(q) \in 1..Len(s)
    BY ConcatAt
  <1> HIDE DEF r
  <1>a. ASSUME NEW i \in 1..Len(s) PROVE Len(q) + i \in (Len(q) + 1)..Len(r) /\ r[Len(q) + i] = s[i]
    <2>1. Len(q) + i \in (Len(q) + 1)..(Len(q) + Len(s)) /\ (Len(q) + i) - Len(q) = i
      BY <1>1
    <2>2. r[Len(q) + i] = s[(Len(q) + i) - Len(q)]
      BY <1>1, <2>1
    <2>3. QED
      BY <1>1, <2>1, <2>2
  <1>b. ASSUME NEW i \in 1..Len(r), i > Len(q), r[i].token = t PROVE r[i].kind = "book" /\ r[i].version = v
    <2>1. i \in (Len(q) + 1)..(Len(q) + Len(s))
      BY <1>1, <1>b
    <2>2. PICK k \in 1..Len(s) : r[i] = s[k]
      BY <1>1, <2>1
    <2>3. QED
      BY <1>b, <2>2
  <1>2. ASSUME Follows(q, t, b) PROVE Follows(r, t, b)
    <2>1. SUFFICES ASSUME NEW i \in 1..Len(r), r[i].token = t, r[i].kind = "change"
                   PROVE  /\ \A j \in 1..(i - 1) : IsLast(r, t, i, j) => r[j].version = r[i].version - 1
                          /\ IsFirst(r, t, i) => b \in {NoBook, r[i].version - 1}
      BY DEF Follows
    <2>2. i \in 1..Len(q) /\ r[i] = q[i]
      <3>1. ~(i > Len(q))
        BY <1>b, <2>1
      <3>2. QED
        BY <1>1, <3>1
    <2>3. \A k \in 1..(i - 1) : k \in 1..Len(q) /\ r[k] = q[k]
      BY <1>1, <2>2
    <2>4. \A j \in 1..(i - 1) : IsLast(r, t, i, j) => IsLast(q, t, i, j)
      BY <2>3 DEF IsLast
    <2>5. IsFirst(r, t, i) => IsFirst(q, t, i)
      BY <2>3 DEF IsFirst
    <2>6. QED
      BY <1>2, <2>1, <2>2, <2>3, <2>4, <2>5 DEF Follows
  <1>3. ASSUME LeadsTo(q, t, b, v) \/ \E i \in 1..Len(s) : s[i].token = t
        PROVE  LeadsTo(r, t, b, v)
    <2>1. ASSUME NEW j \in 1..Len(r), IsLast(r, t, Len(r) + 1, j) PROVE r[j].version = v
      <3>1. CASE j > Len(q)
        BY <1>b, <2>1, <3>1 DEF IsLast
      <3>2. CASE j <= Len(q)
        <4>1. r[j] = q[j] /\ j \in 1..Len(q)
          BY <1>1, <3>2
        <4>2. \A i \in 1..Len(s) : s[i].token # t
          <5>1. TAKE i \in 1..Len(s)
          <5>2. Len(q) + i \in (j + 1)..((Len(r) + 1) - 1) /\ r[Len(q) + i] = s[i]
            BY <1>1, <1>a, <3>2
          <5>3. QED
            BY <2>1, <5>2 DEF IsLast
        <4>3. IsLast(q, t, Len(q) + 1, j)
          <5>1. \A k \in (j + 1)..((Len(q) + 1) - 1) : k \in (j + 1)..((Len(r) + 1) - 1) /\ r[k] = q[k]
            BY <1>1, <3>2
          <5>2. QED
            BY <2>1, <4>1, <5>1 DEF IsLast
        <4>4. QED
          BY <1>3, <4>1, <4>2, <4>3 DEF LeadsTo
      <3>3. QED
        BY <1>1, <3>1, <3>2
    <2>2. ASSUME IsFirst(r, t, Len(r) + 1) PROVE b \in {NoBook, v}
      <3>1. \A i \in 1..Len(s) : s[i].token # t
        <4>1. TAKE i \in 1..Len(s)
        <4>2. Len(q) + i \in 1..((Len(r) + 1) - 1) /\ r[Len(q) + i] = s[i]
          BY <1>1, <1>a
        <4>3. QED
          BY <2>2, <4>2 DEF IsFirst
      <3>2. IsFirst(q, t, Len(q) + 1)
        <4>1. \A k \in 1..((Len(q) + 1) - 1) : k \in 1..((Len(r) + 1) - 1) /\ r[k] = q[k]
          BY <1>1
        <4>2. QED
          BY <2>2, <4>1 DEF IsFirst
      <3>3. QED
        BY <1>3, <3>1, <3>2 DEF LeadsTo
    <2>3. QED
      BY <2>1, <2>2 DEF LeadsTo
  <1>4. QED
    BY <1>2, <1>3 DEF r

LEMMA AppendChange ==
  ASSUME NEW q \in Seq(MessageKind), NEW c \in MessageKind, NEW b, NEW v \in Nat,
         c.kind = "change", c.version = v + 1,
         Follows(q, c.token, b), LeadsTo(q, c.token, b, v)
  PROVE  Follows(Append(q, c), c.token, b) /\ LeadsTo(Append(q, c), c.token, b, v + 1)
  <1> DEFINE r == Append(q, c)
             t == c.token
  <1>1. /\ Len(r) = Len(q) + 1 /\ Len(q) \in Nat
        /\ \A i \in 1..Len(q) : r[i] = q[i]
        /\ r[Len(q) + 1] = c
    BY AppendProperties, LenProperties
  <1> HIDE DEF r, t
  <1>2. \A n \in 1..Len(r) : \A j \in 1..(n - 1) : r[j] = q[j] /\ (IsLast(r, t, n, j) => IsLast(q, t, n, j))
    <2>1. TAKE n \in 1..Len(r)
    <2>2. \A j \in 1..(n - 1) : j \in 1..Len(q) /\ r[j] = q[j]
      BY <1>1
    <2>3. QED
      BY <2>2, SMTT(30) DEF IsLast
  <1>3. \A n \in 1..Len(r) : IsFirst(r, t, n) => IsFirst(q, t, n)
    <2>1. TAKE n \in 1..Len(r)
    <2>2. \A j \in 1..(n - 1) : j \in 1..Len(q) /\ r[j] = q[j]
      BY <1>1
    <2>3. QED
      BY <2>2 DEF IsFirst
  <1>4. Follows(r, t, b)
    <2>1. SUFFICES ASSUME NEW i \in 1..Len(r), r[i].token = t, r[i].kind = "change"
                   PROVE  /\ \A j \in 1..(i - 1) : IsLast(r, t, i, j) => r[j].version = r[i].version - 1
                          /\ IsFirst(r, t, i) => b \in {NoBook, r[i].version - 1}
      BY DEF Follows
    <2>2. CASE i \in 1..Len(q)
      BY <1>1, <1>2, <1>3, <2>1, <2>2 DEF Follows, t
    <2>3. CASE i = Len(q) + 1
      BY <1>1, <1>2, <1>3, <2>3 DEF LeadsTo, t
    <2>4. QED
      BY <1>1, <2>2, <2>3
  <1>5. LeadsTo(r, t, b, v + 1)
    <2>1. ASSUME NEW j \in 1..Len(r), IsLast(r, t, Len(r) + 1, j) PROVE j = Len(r)
      <3>1. j < Len(r) => Len(r) \in (j + 1)..((Len(r) + 1) - 1)
        BY <1>1
      <3>2. QED
        BY <1>1, <2>1, <3>1 DEF IsLast, t
    <2>2. ~IsFirst(r, t, Len(r) + 1)
      <3>1. Len(r) \in 1..((Len(r) + 1) - 1)
        BY <1>1
      <3>2. QED
        BY <1>1, <3>1 DEF IsFirst, t
    <2>3. QED
      BY <1>1, <2>1, <2>2 DEF LeadsTo
  <1>6. QED
    BY <1>4, <1>5 DEF r, t

-----------------------------------------------------------------------------
(* No step applies a change to a book it does not follow, and a book the   *)
(* messages under way do not touch is the market's.                        *)

Feeds(k, t) ==
    /\ Follows(net[k].inbox, t, books[t])
    /\ Works(k) /\ t \in net[k].subs => LeadsTo(net[k].inbox, t, books[t], market[t])

BookInv ==
    /\ reader.at \in {"retry", "dial"} => \A t \in Tokens : books[t] = NoBook
    /\ conn # 0 => \A t \in Tokens : Feeds(conn, t)

LEMMA InitBook == Init => BookInv
  <1> SUFFICES ASSUME Init, NEW t \in Tokens PROVE Feeds(1, t) /\ reader.at \notin {"retry", "dial"} /\ conn = 1
    BY DEF Init, BookInv
  <1>1. net[1].inbox = <<>> /\ net[1].subs = {}
    BY FeedAssumption DEF FeedAssumption, Init, NewConn
  <1>2. Follows(<<>>, t, books[t])
    BY DEF Follows
  <1>3. Feeds(1, t)
    BY <1>1, <1>2 DEF Feeds
  <1>4. QED
    BY <1>3 DEF Init

\* A step that leaves books, market and the messages alone.
LEMMA QuietKeepsFeeds ==
  ASSUME FeedType, BookInv, conn # 0, UNCHANGED <<conn, books, market>>,
         net'[conn].inbox = net[conn].inbox, net'[conn].subs \subseteq net[conn].subs,
         Works(conn)' => Works(conn)
  PROVE  \A t \in Tokens : Feeds(conn, t)'
  BY DEF BookInv, Feeds

\* The answers to a subscription are whole books of the market.
LEMMA SubscribeKeepsFeeds ==
  ASSUME FeedType, BookInv, conn # 0, UNCHANGED <<conn, books, market>>,
         NEW k \in 0..MaxConns, NEW ids \in SUBSET Tokens, WriteSubscribe(k, ids)
  PROVE  \A t \in Tokens : Feeds(conn, t)'
  <1>1. conn \in 1..MaxConns
    BY FeedAssumption DEF FeedType, FeedAssumption
  <1>2. Works(conn)' <=> Works(conn)
    BY <1>1, SubscribeEffect DEF Works
  <1>3. CASE ~(conn = k /\ Works(k))
    BY <1>1, <1>2, <1>3, SubscribeEffect, QuietKeepsFeeds
  <1>4. CASE conn = k /\ Works(k)
    <2> DEFINE Answered(j) == /\ net'[j].subs = net[j].subs \cup ids
                              /\ \E s \in Snapshots(ids) : net'[j].inbox = net[j].inbox \o s
    <2>a. \A j \in 1..MaxConns : j = k /\ Works(k) => Answered(j)
      BY SubscribeEffect
    <2>b. Answered(conn)
      BY <1>1, <1>4, <2>a
    <2>1. net'[conn].subs = net[conn].subs \cup ids
      BY <2>b
    <2>2. PICK s \in Snapshots(ids) : net'[conn].inbox = net[conn].inbox \o s
      BY <2>b
    <2>3. net[conn].inbox \in Seq(MessageKind)
      BY <1>1 DEF FeedType, ConnType
    <2>4. TAKE t \in Tokens
    <2>5. Follows(net[conn].inbox, t, books[t])
      BY DEF BookInv, Feeds
    <2>6. s \in Seq(MessageKind)
          /\ \A i \in 1..Len(s) : s[i].token = t => s[i].kind = "book" /\ s[i].version = market[t]
      BY SnapshotsAreBooks
    <2>7. /\ Follows(net'[conn].inbox, t, books[t])
          /\ LeadsTo(net[conn].inbox, t, books[t], market[t]) \/ (\E i \in 1..Len(s) : s[i].token = t)
                => LeadsTo(net'[conn].inbox, t, books[t], market[t])
      BY <2>2, <2>3, <2>5, <2>6, AppendBooks
    <2>8. t \in net'[conn].subs =>
             LeadsTo(net[conn].inbox, t, books[t], market[t]) \/ (\E i \in 1..Len(s) : s[i].token = t)
      BY <1>4, <2>1, SnapshotsAreBooks DEF BookInv, Feeds
    <2>9. QED
      BY <2>7, <2>8 DEF Feeds
  <1>5. QED
    BY <1>3, <1>4

\* A change is applied to the book it follows, or to none.
LEMMA HandleKeepsFeeds ==
  ASSUME FeedType, ConnInv, BookInv, conn # 0, Handle
  PROVE  \A t \in Tokens : Feeds(conn, t)'
  <1> DEFINE q == net[conn].inbox
             m == Head(q)
  <1>1. conn = reader.conn /\ UNCHANGED <<conn, market>>
    BY DEF ConnInv, Handle
  <1>2. conn \in 1..MaxConns /\ q \in Seq(MessageKind) /\ q # <<>>
    BY <1>1, HandleEffect
  <1>3. net'[conn].inbox = Tail(q) /\ net'[conn].subs = net[conn].subs /\ (Works(conn)' <=> Works(conn))
    BY <1>1, HandleEffect DEF Works
  <1>4. m \in MessageKind
    BY <1>2, HeadTailProperties
  <1>5. books' = [books EXCEPT ![m.token] = IF m.kind = "book" THEN HandleBook(m) ELSE HandlePriceChange(m)]
    BY <1>1 DEF Handle
  <1> HIDE DEF m
  <1>6. TAKE t \in Tokens
  <1>7. books'[t] = After(m, t, books[t])
    BY <1>4, <1>5 DEF FeedType, MessageKind, After, HandleBook, HandlePriceChange
  <1>8. Follows(q, t, books[t]) /\ books[t] \in Int
    BY DEF BookInv, Feeds, FeedType
  <1>9. /\ Follows(Tail(q), t, After(m, t, books[t]))
        /\ \A v \in Nat : LeadsTo(q, t, books[t], v) => LeadsTo(Tail(q), t, After(m, t, books[t]), v)
    BY <1>2, <1>8, HandleOne DEF m
  <1>10. market[t] \in Nat
    BY DEF FeedType
  <1> HIDE DEF q
  <1>11. Works(conn) /\ t \in net[conn].subs => LeadsTo(q, t, books[t], market[t])
    BY DEF BookInv, Feeds, q
  <1>12. QED
    BY <1>1, <1>3, <1>7, <1>9, <1>10, <1>11 DEF Feeds

\* A move of the market reaches the connections that subscribe the token.
LEMMA MarketKeepsFeeds ==
  ASSUME FeedType, BookInv, conn # 0, NEW u \in Tokens, MarketMoves(u)
  PROVE  \A t \in Tokens : Feeds(conn, t)'
  <1> DEFINE q == net[conn].inbox
             c == [token |-> u, kind |-> "change", version |-> market[u] + 1]
  <1>1. UNCHANGED <<conn, books>> /\ market' = [market EXCEPT ![u] = @ + 1]
    BY DEF MarketMoves
  <1>a. conn \in 1..MaxConns /\ market[u] \in Nat
    BY FeedAssumption DEF FeedType, FeedAssumption
  <1>b. q \in Seq(MessageKind)
    BY <1>a DEF FeedType, ConnType
  <1>c. c \in MessageKind
    BY <1>a DEF MessageKind
  <1>2. conn \in 1..MaxConns /\ q \in Seq(MessageKind) /\ c \in MessageKind /\ market[u] \in Nat
    BY <1>a, <1>b, <1>c
  <1>3. /\ net'[conn].subs = net[conn].subs /\ (Works(conn)' <=> Works(conn))
        /\ net'[conn].inbox = IF Works(conn) /\ u \in net[conn].subs THEN Append(q, c) ELSE q
    BY <1>1, <1>2, MarketEffect DEF Works
  <1>4. c.token = u /\ c.kind = "change" /\ c.version = market[u] + 1
    OBVIOUS
  <1> HIDE DEF c
  <1>5. TAKE t \in Tokens
  <1>6. /\ Follows(q, t, books[t])
        /\ Works(conn) /\ t \in net[conn].subs => LeadsTo(q, t, books[t], market[t])
    BY DEF BookInv, Feeds
  <1> HIDE DEF q
  <1>7. t # u => market'[t] = market[t]
    BY <1>1 DEF FeedType
  <1>8. market'[u] = market[u] + 1
    BY <1>1 DEF FeedType
  <1>9. CASE ~(Works(conn) /\ u \in net[conn].subs)
    BY <1>1, <1>3, <1>6, <1>7, <1>9 DEF Feeds
  <1>10. CASE Works(conn) /\ u \in net[conn].subs /\ t = u
    <2>1. Follows(Append(q, c), t, books[t]) /\ LeadsTo(Append(q, c), t, books[t], market[t] + 1)
      BY <1>2, <1>4, <1>6, <1>10, AppendChange
    <2>2. QED
      BY <1>1, <1>3, <1>8, <1>10, <2>1 DEF Feeds
  <1>11. CASE Works(conn) /\ u \in net[conn].subs /\ t # u
    <2>1. <<c>> \in Seq(MessageKind) /\ \A i \in 1..Len(<<c>>) : <<c>>[i].token # t
      BY <1>2, <1>4, <1>11
    <2>2. q \o <<c>> = Append(q, c)
      BY <1>2
    <2>3. /\ Follows(q \o <<c>>, t, books[t])
          /\ LeadsTo(q, t, books[t], market[t]) => LeadsTo(q \o <<c>>, t, books[t], market[t])
      BY <1>2, <1>6, <2>1, AppendBooks
    <2>4. QED
      BY <1>1, <1>3, <1>6, <1>7, <1>11, <2>2, <2>3 DEF Feeds
  <1>12. QED
    BY <1>9, <1>10, <1>11

LEMMA NextBook ==
  ASSUME FeedType, ConnInv, BookInv, [Next]_vars
  PROVE  BookInv'
  <1> USE DEF callerVars
  <1>0. conn # 0 => conn \in 1..MaxConns
    BY FeedAssumption DEF FeedType, FeedAssumption
  <1>1. CASE LoopEnds \/ LoopGoesOn \/ ReadFails
    <2>1. UNCHANGED <<conn, books, market, net>> /\ reader'.at \notin {"retry", "dial"}
      BY <1>1, ReaderGoesType DEF LoopEnds, LoopGoesOn, ReadFails
    <2>2. QED
      BY <2>1 DEF BookInv, Feeds, Works
  <1>2. CASE Retry \/ DialFails
    <2>1. UNCHANGED <<conn, books, market, net>> /\ reader.at \in {"retry", "dial"}
      BY <1>2 DEF Retry, DialFails
    <2>2. QED
      BY <2>1 DEF BookInv, Feeds, Works
  <1>3. CASE LoadConn \/ Collect
    <2>1. UNCHANGED <<conn, books, market, net>> /\ reader'.at \notin {"retry", "dial"}
      BY <1>3 DEF LoadConn, Collect, FeedType, ReaderType
    <2>2. QED
      BY <2>1 DEF BookInv, Feeds, Works
  <1>4. CASE Handle
    <2>1. UNCHANGED conn /\ reader'.at \notin {"retry", "dial"}
      BY <1>4, ReaderGoesType DEF Handle
    <2>2. QED
      BY <1>4, <2>1, HandleKeepsFeeds DEF BookInv
  <1>5. CASE Clear
    BY <1>5 DEF Clear, BookInv
  <1>6. CASE Dial
    <2>1. conn' \in 1..MaxConns /\ net'[conn'] = NewConn /\ UNCHANGED books
      BY <1>6, FeedAssumption DEF Dial, FeedType, FeedAssumption
    <2>2. net'[conn'].inbox = <<>> /\ net'[conn'].subs = {}
      BY <2>1 DEF NewConn
    <2>3. \A t \in Tokens : Feeds(conn, t)'
      BY <2>2 DEF Feeds, Follows
    <2>4. reader'.at \notin {"retry", "dial"}
      BY <1>6, ReaderGoesType DEF Dial
    <2>5. QED
      BY <2>3, <2>4 DEF BookInv
  <1>7. CASE Renew
    <2>1. UNCHANGED <<conn, books, market>> /\ reader'.at \notin {"retry", "dial"}
      BY <1>7 DEF Renew, FeedType, ReaderType
    <2>2. conn \in 0..MaxConns /\ reader.ids \in SUBSET Tokens /\ WriteSubscribe(conn, reader.ids)
      BY <1>7 DEF Renew, FeedType, ReaderType
    <2>3. QED
      BY <2>1, <2>2, SubscribeKeepsFeeds DEF BookInv
  <1>8. ASSUME NEW c \in Callers, Call(c) PROVE BookInv'
    <2>1. UNCHANGED <<conn, reader, market>>
      BY <1>8 DEF Call, Subscribe, Unsubscribe, UpdateSubscriptions, Begin, Untrack, Uncache,
         Track, TakeConn, SendUnsubscribe, SendSubscribe
    <2>2. CASE UNCHANGED <<books, net>>
      BY <2>1, <2>2 DEF BookInv, Feeds, Works
    <2>3. CASE Uncache(c)
      <3>1. UNCHANGED net
        BY <2>3 DEF Uncache
      <3>2. \A t \in Tokens : books'[t] \in {NoBook, books[t]}
        BY <2>3 DEF Uncache
      <3>3. ASSUME NEW t \in Tokens, Feeds(conn, t) PROVE Feeds(conn, t)'
        <4>1. CASE books'[t] = books[t]
          BY <2>1, <3>1, <3>3, <4>1 DEF Feeds, Works
        <4>2. CASE books'[t] = NoBook
          BY <2>1, <3>1, <3>3, <4>2, ForgetBook DEF Feeds, Works
        <4>3. QED
          BY <3>2, <4>1, <4>2
      <3>4. QED
        BY <2>1, <3>2, <3>3 DEF BookInv
    <2>4. CASE SendUnsubscribe(c)
      <3>1. caller[c].conn \in 0..MaxConns /\ WriteUnsubscribe(caller[c].conn, caller[c].unsub)
            /\ UNCHANGED books
        BY <2>4 DEF SendUnsubscribe, FeedType, CallerType
      <3>2. ASSUME conn # 0
            PROVE  /\ net'[conn].inbox = net[conn].inbox /\ net'[conn].subs \subseteq net[conn].subs
                   /\ Works(conn)' => Works(conn)
        <4>1. conn \in 1..MaxConns /\ conn' = conn
          BY <1>0, <2>1, <3>2
        <4>2. /\ net'[conn].open = net[conn].open /\ net'[conn].up = net[conn].up
              /\ net'[conn].inbox = net[conn].inbox
              /\ net'[conn].subs = IF conn = caller[c].conn /\ Works(caller[c].conn)
                                   THEN net[conn].subs \ caller[c].unsub ELSE net[conn].subs
          <5>1. \A j \in 1..MaxConns :
                   /\ net'[j].open = net[j].open /\ net'[j].up = net[j].up
                   /\ net'[j].inbox = net[j].inbox
                   /\ net'[j].subs = IF j = caller[c].conn /\ Works(caller[c].conn)
                                     THEN net[j].subs \ caller[c].unsub ELSE net[j].subs
            BY <3>1, UnsubscribeEffect
          <5>2. QED
            BY <4>1, <5>1
        <4>3. QED
          BY <4>1, <4>2 DEF Works
      <3>3. QED
        BY <2>1, <3>1, <3>2, QuietKeepsFeeds DEF BookInv
    <2>5. CASE SendSubscribe(c)
      <3>1. /\ caller[c].conn \in 0..MaxConns /\ caller[c].sub \in SUBSET Tokens
            /\ WriteSubscribe(caller[c].conn, caller[c].sub) /\ UNCHANGED books
        BY <2>5 DEF SendSubscribe, FeedType, CallerType
      <3>2. QED
        BY <2>1, <3>1, SubscribeKeepsFeeds DEF BookInv
    <2>6. QED
      BY <1>8, <2>2, <2>3, <2>4, <2>5 DEF Call, Subscribe, Unsubscribe, UpdateSubscriptions,
         Begin, Untrack, Track, TakeConn
  <1>9. CASE StopBegins
    BY <1>9 DEF StopBegins, BookInv, Feeds, Works
  <1>10. CASE StopCloses
    BY <1>10 DEF StopCloses, BookInv
  <1>11. ASSUME NEW t \in Tokens, MarketMoves(t) PROVE BookInv'
    <2>1. UNCHANGED <<conn, reader, books>>
      BY <1>11 DEF MarketMoves
    <2>2. QED
      BY <1>11, <2>1, MarketKeepsFeeds DEF BookInv
  <1>12. ASSUME NEW k \in 1..MaxConns, Break(k) PROVE BookInv'
    <2>1. UNCHANGED <<conn, reader, books, market>>
      BY <1>12 DEF Break
    <2>2. ASSUME conn # 0
          PROVE  /\ net'[conn].inbox = net[conn].inbox /\ net'[conn].subs \subseteq net[conn].subs
                 /\ Works(conn)' => Works(conn)
      BY <1>0, <1>12, <2>1, <2>2, BreakEffect DEF Works
    <2>3. QED
      BY <2>1, <2>2, QuietKeepsFeeds DEF BookInv
  <1>13. CASE UNCHANGED vars
    BY <1>13 DEF vars, BookInv, Feeds, Works
  <1>14. QED
    BY <1>1, <1>2, <1>3, <1>4, <1>5, <1>6, <1>7, <1>8, <1>9, <1>10, <1>11, <1>12, <1>13
       DEF Next, Reader

\* handleMessage never leaves a subscribed token with a stale or mixed book:
\* once none of its messages is on its way, a cached book is the market's,
\* across reconnects, lost frames, unsubscriptions and renewals.
THEOREM QuietBookFollowsMarket == Spec => []QuietBookIsCurrent
  <1>1. ASSUME FeedType, BookInv PROVE QuietBookIsCurrent
    <2>1. SUFFICES ASSUME NEW t \in Tokens, Works(conn), t \in net[conn].subs, books[t] # NoBook,
                          \A i \in DOMAIN net[conn].inbox : net[conn].inbox[i].token # t
                   PROVE  books[t] = market[t]
      BY DEF QuietBookIsCurrent
    <2>2. conn \in 1..MaxConns
      BY <1>1, <2>1, FeedAssumption DEF FeedType, FeedAssumption, Works
    <2>3. net[conn].inbox \in Seq(MessageKind)
      BY <1>1, <2>2 DEF FeedType, ConnType
    <2>4. DOMAIN net[conn].inbox = 1..((Len(net[conn].inbox) + 1) - 1)
      BY <2>3, LenProperties
    <2>5. IsFirst(net[conn].inbox, t, Len(net[conn].inbox) + 1)
      BY <2>1, <2>4 DEF IsFirst
    <2>6. LeadsTo(net[conn].inbox, t, books[t], market[t])
      BY <1>1, <2>1, <2>2 DEF BookInv, Feeds
    <2>7. QED
      BY <2>1, <2>5, <2>6 DEF LeadsTo
  <1>2. FeedType /\ ConnInv /\ BookInv /\ [Next]_vars => BookInv'
    BY NextBook
  <1>3. FeedType /\ BookInv => QuietBookIsCurrent
    BY <1>1
  <1>4. QED
    BY <1>2, <1>3, InitType, NextType, InitConn, NextConn, InitBook, PTL DEF Spec
=============================================================================
