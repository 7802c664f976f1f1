--------------------------- MODULE ExecutorProofs ---------------------------
(***************************************************************************)
(* Proofs about one call of Execute, for any number of retries, every      *)
(* order type and networks that lose replies.                              *)
(***************************************************************************)
EXTENDS PolymarketExecutor, SequenceTheorems, TLAPS

Placing == at \in {"limit", "gtc", "fok"}

\* The retry loop's counter, the calls an order type makes, and that nothing is
\* returned before the end.
CallInv ==
    /\ http = "sleep" => attempt < MaxRetries
    /\ mode = "LIMIT_FALLBACK" => at # "gtc"
    /\ mode # "LIMIT_FALLBACK" => at \in {"gtc", "fok", "done"}
    /\ at \in {"poll", "done"} => http = "idle"
    /\ at # "done" => result = NoResult
    /\ Placing /\ http = "ok" => answer \in {"LIVE", "MATCHED", "UNMATCHED"}

\* Each attempt makes at most one order, and the fall back comes after the
\* limit order's attempts.
Before == IF mode = "LIMIT_FALLBACK" /\ at = "fok" THEN MaxRetries + 1 ELSE 0

CountInv ==
    /\ Placing => Len(orders) <= Before + attempt
                                 + (IF http \in {"ok", "failed", "sleep"} THEN 1 ELSE 0)
    /\ Placing /\ http = "ok" => Len(orders) > 0
    /\ at \in {"poll", "status", "cancelLate", "cancelDone"} => Len(orders) <= MaxRetries + 1
    /\ RetryBound

\* Nothing is put on the wire once the context has ended.
LateInv ==
    /\ ~ctxDone => afterDone = 0
    /\ afterDone <= 1
    /\ afterDone = 1 => http # "wire"

\* Whoever believes in a fill has seen one.
FullyFilled == \E k \in 1..Len(orders) : orders[k].filled = Lots

FillInv ==
    /\ answer = "MATCHED" => FullyFilled
    /\ result.status \in {"filled", "MATCHED"} => FullyFilled

\* On a network that loses no reply an order ends the attempts, unless the
\* context ended while the request was on the wire.
SingleInv ==
    ~lossy /\ mode # "LIMIT_FALLBACK" =>
        /\ Len(orders) <= 1
        /\ orders # <<>> => http # "wire"
        /\ orders # <<>> /\ at # "done" /\ ~ctxDone => http = "ok"
        /\ orders # <<>> /\ result.err => ctxDone

ExecInv == TypeOK /\ CallInv /\ CountInv /\ LateInv /\ FillInv /\ SingleInv

LEMMA OrderKinds ==
  /\ [filled |-> Lots, open |-> FALSE] \in OrderType
  /\ [filled |-> 0, open |-> FALSE] \in OrderType
  /\ [filled |-> 0, open |-> TRUE] \in OrderType
  BY DEF OrderType, Lots

LEMMA OrderChanges ==
  ASSUME NEW o \in OrderType
  PROVE  /\ Closed(o) \in OrderType
         /\ Closed(o).filled = o.filled
         /\ o.open => Filling(o) \in OrderType /\ o.filled # Lots
  <1>1. o.filled \in 0..Lots /\ o.open \in BOOLEAN /\ (o.open => o.filled < Lots)
    BY DEF OrderType
  <1>2. Closed(o) \in OrderType /\ Closed(o).filled = o.filled
    BY <1>1 DEF OrderType, Closed
  <1>3. CASE o.open
    <2>1. o.filled + 1 \in 0..Lots /\ o.filled # Lots
      BY <1>1, <1>3 DEF Lots
    <2>2. Filling(o) \in [filled : 0..Lots, open : BOOLEAN]
      BY <2>1 DEF Filling
    <2>3. QED
      BY <1>2, <2>1, <2>2 DEF OrderType, Filling
  <1>4. QED
    BY <1>2, <1>3

LEMMA InitExec == Init => ExecInv
  <1> SUFFICES ASSUME Init PROVE ExecInv
    OBVIOUS
  <1>1. TypeOK
    <2>1. orders \in Seq(OrderType) /\ limit \in 0..Len(orders)
      BY EmptySeq DEF Init
    <2>2. attempt \in 0..MaxRetries /\ mode \in Modes /\ lossy \in BOOLEAN
      BY ExecutorAssumption DEF Init
    <2>3. at \in {"limit", "gtc", "fok"}
      BY DEF Init
    <2>4. QED
      BY <2>1, <2>2, <2>3 DEF Init, TypeOK, NoResult
  <1>2. CallInv
    BY ExecutorAssumption DEF Init, CallInv, NoResult, Placing
  <1>3. CountInv /\ LateInv /\ FillInv /\ SingleInv
    BY ExecutorAssumption
       DEF Init, CountInv, Placing, Before, RetryBound, LateInv, FillInv, SingleInv, NoResult
  <1>4. QED
    BY <1>1, <1>2, <1>3 DEF ExecInv

-----------------------------------------------------------------------------
(* The exchange.                                                           *)

\* What a served request does: an attempt to place adds one order, and no
\* order loses what it has filled.
LEMMA ServeEffect ==
  ASSUME TypeOK, Serve
  PROVE  /\ orders' \in Seq(OrderType)
         /\ answer' \in {"none", "LIVE", "MATCHED", "UNMATCHED", "CANCELED"}
         /\ Placing => answer' \in {"LIVE", "MATCHED", "UNMATCHED"}
         /\ Len(orders') = Len(orders) + (IF Placing THEN 1 ELSE 0)
         /\ afterDone' = IF Placing /\ ctxDone THEN afterDone + 1 ELSE afterDone
         /\ FullyFilled => FullyFilled'
         /\ answer' = "MATCHED" => FullyFilled'
  <1>1. CASE /\ Placing
             /\ \E o \in Accepted : orders' = Append(orders, o)
             /\ answer' = (IF orders'[Len(orders')].filled = Lots THEN "MATCHED"
                           ELSE IF at = "fok" THEN "UNMATCHED" ELSE "LIVE")
             /\ afterDone' = IF ctxDone THEN afterDone + 1 ELSE afterDone
    <2>0. Accepted \subseteq OrderType
      BY OrderKinds DEF Accepted
    <2>1. PICK o \in OrderType : orders' = Append(orders, o)
      BY <1>1, <2>0
    <2>2. /\ orders' \in Seq(OrderType)
          /\ Len(orders') = Len(orders) + 1
          /\ \A k \in 1..Len(orders) : orders'[k] = orders[k]
      BY <2>1, AppendProperties DEF TypeOK
    <2>3. Len(orders) \in Nat
      BY DEF TypeOK
    <2>4. FullyFilled => FullyFilled'
      BY <2>2, <2>3 DEF FullyFilled
    <2>5. answer' = "MATCHED" => FullyFilled'
      BY <1>1, <2>2, <2>3 DEF FullyFilled
    <2>6. QED
      BY <1>1, <2>2, <2>4, <2>5
  <1>2. CASE at = "status" /\ answer' = Status(limit) /\ UNCHANGED <<orders, afterDone>>
    <2>1. limit \in 1..Len(orders)
      BY <1>2 DEF TypeOK
    <2>2. QED
      BY <1>2, <2>1 DEF Status, FullyFilled, Placing, TypeOK
  <1>3. CASE /\ at \in {"cancelLate", "cancelDone"}
             /\ orders' = [orders EXCEPT ![limit] = Closed(orders[limit])]
             /\ answer' = "none"
             /\ UNCHANGED afterDone
    <2>1. limit \in 1..Len(orders) /\ orders \in Seq(OrderType)
      BY <1>3 DEF TypeOK
    <2>2. orders[limit] \in OrderType
      BY <2>1, ElementOfSeq
    <2>3. /\ orders' \in Seq(OrderType)
          /\ Len(orders') = Len(orders)
          /\ \A k \in 1..Len(orders) : orders'[k].filled = orders[k].filled
      BY <1>3, <2>1, <2>2, OrderChanges, ExceptSeq
    <2>4. FullyFilled => FullyFilled'
      BY <2>3 DEF FullyFilled
    <2>5. ~Placing /\ answer' = "none" /\ answer' # "MATCHED" /\ afterDone' = afterDone
      BY <1>3 DEF Placing
    <2>6. Len(orders') = Len(orders) + 0
      BY <2>1, <2>3, LenProperties
    <2>7. QED
      BY <2>3, <2>4, <2>5, <2>6
  <1>4. QED
    BY <1>1, <1>2, <1>3 DEF Serve, Placing

LEMMA MarketExec ==
  ASSUME ExecInv, CancelAll \/ \E k \in 1..Len(orders) : Match(k)
  PROVE  ExecInv'
  <1>1. UNCHANGED <<callVars, mode, lossy, ctxDone, deadline, limit, result, afterDone>>
    BY DEF CancelAll, Match
  <1>2. /\ orders' \in Seq(OrderType)
        /\ Len(orders') = Len(orders)
        /\ \A k \in 1..Len(orders) : orders[k].filled = Lots => orders'[k].filled = Lots
    <2>1. CASE CancelAll
      <3>1. orders \in Seq(OrderType) /\ Len(orders) \in Nat
        BY LenProperties DEF ExecInv, TypeOK
      <3>2. \A k \in 1..Len(orders) : orders[k] \in OrderType
        BY <3>1, ElementOfSeq
      <3>3. /\ orders' \in [1..Len(orders) -> OrderType]
            /\ \A k \in 1..Len(orders) : orders'[k].filled = orders[k].filled
        BY <2>1, <3>2, OrderChanges DEF CancelAll
      <3>4. orders' \in Seq(OrderType)
        BY <3>1, <3>3, SeqDef
      <3>5. Len(orders') = Len(orders)
        BY <3>1, <3>3, <3>4, LenProperties
      <3>6. QED
        BY <3>3, <3>4, <3>5
    <2>2. ASSUME NEW k \in 1..Len(orders), Match(k)
          PROVE  /\ orders' \in Seq(OrderType)
                 /\ Len(orders') = Len(orders)
                 /\ \A j \in 1..Len(orders) : orders[j].filled = Lots => orders'[j].filled = Lots
      <3>1. orders \in Seq(OrderType) /\ orders[k] \in OrderType /\ orders[k].open
        BY <2>2, ElementOfSeq DEF Match, ExecInv, TypeOK
      <3>2. orders' = [orders EXCEPT ![k] = Filling(orders[k])]
        BY <2>2 DEF Match
      <3>3. QED
        BY <3>1, <3>2, OrderChanges, ExceptSeq
    <2>3. QED
      BY <2>1, <2>2
  <1>3. FullyFilled => FullyFilled'
    BY <1>2 DEF FullyFilled
  <1>4. orders # <<>> <=> orders' # <<>>
    BY <1>2, EmptySeq DEF ExecInv, TypeOK
  <1>5. QED
    BY <1>1, <1>2, <1>3, <1>4
       DEF ExecInv, TypeOK, CallInv, CountInv, RetryBound, Placing, Before, LateInv, FillInv,
           SingleInv, callVars

-----------------------------------------------------------------------------
(* The client.                                                             *)

LEMMA ServeExec ==
  ASSUME ExecInv, Served \/ ReplyLost
  PROVE  ExecInv'
  <1>1. /\ Serve /\ http = "wire"
        /\ UNCHANGED <<at, attempt, mode, lossy, ctxDone, deadline, limit, result>>
        /\ \/ http' = "ok"
           \/ http' = (IF attempt = MaxRetries THEN "failed" ELSE "sleep") /\ (lossy \/ ctxDone)
    BY DEF Served, ReplyLost, AfterError
  <1>2. /\ orders' \in Seq(OrderType)
        /\ answer' \in {"none", "LIVE", "MATCHED", "UNMATCHED", "CANCELED"}
        /\ Placing => answer' \in {"LIVE", "MATCHED", "UNMATCHED"}
        /\ Len(orders') = Len(orders) + (IF Placing THEN 1 ELSE 0)
        /\ afterDone' = IF Placing /\ ctxDone THEN afterDone + 1 ELSE afterDone
        /\ FullyFilled => FullyFilled'
        /\ answer' = "MATCHED" => FullyFilled'
    BY <1>1, ServeEffect DEF ExecInv
  <1>3. Len(orders) \in Nat /\ Len(orders') \in Nat
    BY <1>2, LenProperties DEF ExecInv, TypeOK
  <1>4. TypeOK'
    BY <1>1, <1>2, <1>3 DEF ExecInv, TypeOK
  <1>5. CallInv'
    BY <1>1, <1>2, ExecutorAssumption DEF ExecInv, TypeOK, CallInv, Placing
  <1>6. CountInv'
    BY <1>1, <1>2, <1>3, ExecutorAssumption
       DEF ExecInv, TypeOK, CallInv, CountInv, RetryBound, Placing, Before
  <1>7. LateInv'
    BY <1>1, <1>2 DEF ExecInv, TypeOK, LateInv
  <1>8. FillInv'
    BY <1>1, <1>2 DEF ExecInv, FillInv
  <1>9. SingleInv'
    <2>1. orders = <<>> => Len(orders) = 0
      BY EmptySeq
    <2>2. CASE ~lossy /\ mode # "LIMIT_FALLBACK"
      BY <1>1, <1>2, <1>3, <2>1, <2>2 DEF ExecInv, SingleInv, CallInv, Placing, NoResult
    <2>3. QED
      BY <1>1, <2>2 DEF SingleInv
  <1>10. QED
    BY <1>4, <1>5, <1>6, <1>7, <1>8, <1>9 DEF ExecInv

LEMMA RetryExec ==
  ASSUME ExecInv,
         \/ Send \/ WaitFails \/ Retry \/ GiveUp
         \/ \E kind \in {"permanent", "other"} : NotServed(kind)
  PROVE  ExecInv'
  <1>1. UNCHANGED <<at, answer, mode, lossy, ctxDone, deadline, orders, limit, result, afterDone>>
    BY DEF Send, WaitFails, Retry, GiveUp, NotServed, otherVars
  <1>2. \/ http = "try" /\ http' = "wire" /\ ~ctxDone /\ UNCHANGED attempt
        \/ /\ http \in {"try", "wire"} /\ UNCHANGED attempt
           /\ http = "try" => ctxDone
           /\ http' = "failed" \/ (http' = "sleep" /\ attempt # MaxRetries)
        \/ http = "sleep" /\ http' = "try" /\ attempt' = attempt + 1
        \/ http = "sleep" /\ http' = "failed" /\ ctxDone /\ UNCHANGED attempt
    BY DEF Send, WaitFails, Retry, GiveUp, NotServed, AfterError, otherVars
  <1>3. Len(orders) \in Nat
    BY LenProperties DEF ExecInv, TypeOK
  <1>4. TypeOK' /\ CallInv'
    BY <1>1, <1>2, ExecutorAssumption DEF ExecInv, TypeOK, CallInv, Placing
  <1>5. CountInv'
    BY <1>1, <1>2, <1>3, ExecutorAssumption
       DEF ExecInv, TypeOK, CallInv, CountInv, RetryBound, Placing, Before
  <1>6. LateInv' /\ FillInv'
    BY <1>1, <1>2 DEF ExecInv, LateInv, FillInv, FullyFilled
  <1>7. SingleInv'
    BY <1>1, <1>2 DEF ExecInv, SingleInv, CallInv
  <1>8. QED
    BY <1>4, <1>5, <1>6, <1>7 DEF ExecInv

-----------------------------------------------------------------------------
(* The executor and the context.                                           *)

\* Execute returns.
LEMMA ReturnExec ==
  ASSUME ExecInv, PlaceFails \/ PlaceReturns \/ LimitFilled \/ ReturnCancelled
  PROVE  ExecInv'
  <1>1. PICK s, e :
           /\ Return(s, e)
           /\ \/ Placing /\ http = "failed" /\ s = "failed" /\ e = TRUE
              \/ at \in {"gtc", "fok"} /\ http = "ok" /\ s = answer /\ e = FALSE
              \/ answer = "MATCHED" /\ s = "filled" /\ e = FALSE
              \/ at = "cancelDone" /\ s = "cancelled" /\ e = TRUE
    BY DEF PlaceFails, PlaceReturns, LimitFilled, ReturnCancelled, Placing
  <1>2. /\ at' = "done" /\ http' = "idle"
        /\ UNCHANGED <<mode, lossy, ctxDone, deadline, attempt, answer, orders, limit, afterDone>>
        /\ result' = [status |-> s, err |-> e]
    BY <1>1 DEF Return
  <1>3. /\ s \in {"failed", "filled", "cancelled", "LIVE", "MATCHED", "UNMATCHED"}
        /\ e \in BOOLEAN
        /\ s \in {"filled", "MATCHED"} => answer = "MATCHED"
    BY <1>1 DEF ExecInv, CallInv, Placing
  <1>4. /\ result' \in [status : {"none", "failed", "filled", "cancelled", "LIVE", "MATCHED",
                                  "UNMATCHED"}, err : BOOLEAN]
        /\ result'.status = s /\ result'.err = e
    BY <1>2, <1>3
  <1>5. TypeOK' /\ CallInv'
    BY <1>2, <1>4 DEF ExecInv, TypeOK, CallInv, Placing
  <1>6. CountInv' /\ LateInv'
    BY <1>2 DEF ExecInv, CountInv, RetryBound, Placing, LateInv
  <1>7. FillInv'
    BY <1>2, <1>3, <1>4 DEF ExecInv, FillInv, FullyFilled
  <1>8. SingleInv'
    BY <1>1, <1>2, <1>4 DEF ExecInv, CallInv, SingleInv, Placing
  <1>9. QED
    BY <1>5, <1>6, <1>7, <1>8 DEF ExecInv

\* Execute goes on with another call or to its poll loop.
LEMMA CallExec ==
  ASSUME ExecInv,
         \/ LimitRests \/ PollTick \/ PollAgain \/ FallBack
         \/ DeadlineCase \/ DoneCase
  PROVE  ExecInv'
  <1>1. Len(orders) \in Nat
    BY LenProperties DEF ExecInv, TypeOK
  <1>2. CASE LimitRests
    BY <1>1, <1>2, ExecutorAssumption
       DEF LimitRests, ExecInv, TypeOK, CallInv, CountInv, RetryBound, Placing, Before,
           LateInv, FillInv, FullyFilled, SingleInv
  <1>3. CASE PollTick \/ PollAgain \/ DeadlineCase \/ DoneCase
    BY <1>1, <1>3, ExecutorAssumption
       DEF PollTick, PollAgain, DeadlineCase, DoneCase, Call, otherVars, ExecInv, TypeOK, CallInv,
           CountInv, RetryBound, Placing, LateInv, FillInv, FullyFilled, SingleInv
  <1>4. CASE FallBack
    BY <1>1, <1>4, ExecutorAssumption
       DEF FallBack, Call, otherVars, ExecInv, TypeOK, CallInv,
           CountInv, RetryBound, Placing, Before, LateInv, FillInv, FullyFilled, SingleInv
  <1>5. QED
    BY <1>2, <1>3, <1>4

LEMMA ContextExec ==
  ASSUME ExecInv, Cancel \/ DeadlineFires \/ UNCHANGED vars
  PROVE  ExecInv'
  <1>1. /\ UNCHANGED <<callVars, mode, lossy, orders, limit, result, afterDone>>
        /\ UNCHANGED ctxDone \/ ctxDone' = TRUE
        /\ UNCHANGED deadline \/ deadline' = "fired"
    BY DEF Cancel, DeadlineFires, vars, callVars
  <1>2. TypeOK' /\ CallInv' /\ CountInv'
    <2>1. TypeOK'
      <3>1. ctxDone' \in BOOLEAN /\ deadline' \in {"off", "set", "fired"}
        BY <1>1 DEF ExecInv, TypeOK
      <3>2. QED
        BY <1>1, <3>1 DEF callVars, ExecInv, TypeOK
    <2>2. CallInv' /\ CountInv'
      BY <1>1 DEF callVars, ExecInv, CallInv, CountInv, RetryBound, Placing, Before
    <2>3. QED
      BY <2>1, <2>2
  <1>3. LateInv' /\ FillInv'
    BY <1>1 DEF callVars, ExecInv, LateInv, FillInv, FullyFilled
  <1>4. SingleInv'
    BY <1>1 DEF callVars, ExecInv, TypeOK, SingleInv
  <1>5. QED
    BY <1>2, <1>3, <1>4 DEF ExecInv

LEMMA NextExec == ExecInv /\ [Next]_vars => ExecInv'
  BY MarketExec, ServeExec, RetryExec, ReturnExec, CallExec, ContextExec
     DEF Next, Client, Executor

\* However replies are lost and repeated, and for every number of retries, one
\* call of Execute puts at most MaxRetries + 1 orders on the market, the limit
\* order with its fall back twice as many.
THEOREM RetriesBounded == Spec => []RetryBound
  <1>1. ExecInv => RetryBound
    BY DEF ExecInv, CountInv
  <1>2. QED
    BY <1>1, InitExec, NextExec, PTL DEF Spec

\* Once the context is cancelled at most one more request, the one that was
\* on the wire, becomes an order.
THEOREM CancelStopsOrders == Spec => []NoOrderAfterCancel
  <1>1. ExecInv => NoOrderAfterCancel
    BY DEF ExecInv, LateInv, NoOrderAfterCancel
  <1>2. QED
    BY <1>1, InitExec, NextExec, PTL DEF Spec

\* A result that says the order is filled is only returned when an order of
\* the call is.
THEOREM FillsAreReal == Spec => []HonestFill
  <1>1. ExecInv => HonestFill
    BY DEF ExecInv, FillInv, FullyFilled, HonestFill
  <1>2. QED
    BY <1>1, InitExec, NextExec, PTL DEF Spec

\* Execute's retries do not double an order on a network that loses no reply: a
\* FOK or GTC call makes at most one, even if it is cancelled between attempts.
THEOREM OneOrderPerCall == Spec => []SingleOrder
  <1>1. ExecInv => SingleOrder
    BY DEF ExecInv, SingleInv, SingleOrder
  <1>2. QED
    BY <1>1, InitExec, NextExec, PTL DEF Spec

\* On such a network an error from a call that was not cancelled means there is
\* no order: this discharges, for fill-or-kill and good-till-cancel, the
\* assumption ~LostReplies of the pipeline's theorems.
THEOREM ErrorsAreFinal == Spec => []ErrorMeansNoOrder
  <1>1. ExecInv => ErrorMeansNoOrder
    BY DEF ExecInv, SingleInv, ErrorMeansNoOrder
  <1>2. QED
    BY <1>1, InitExec, NextExec, PTL DEF Spec
=============================================================================
