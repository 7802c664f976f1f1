------------------------- MODULE PolymarketExecutor -------------------------
(***************************************************************************)
(* One call of Executor.Execute, provider/polymarket/executor.go, with the *)
(* HTTP client's rate limiter and retry loop, provider/polymarket/client.go*)
(* and the exchange it talks to.  A request is one step when it is put on  *)
(* the wire, one when the exchange handles it, and one when the retry loop *)
(* looks at the outcome; the market and the context move in between.       *)
(*                                                                         *)
(* A request's size is Lots lots, so that an order can be partly filled.   *)
(***************************************************************************)
EXTENDS Integers, SequencesExt

CONSTANTS
    Modes,         \* order types the executor may be configured with
    MaxRetries,    \* Client.maxRetries
    Networks       \* kinds of network: TRUE for one that may lose a reply

ASSUME ExecutorAssumption ==
    /\ Modes \subseteq {"FOK", "GTC", "LIMIT_FALLBACK"}
    /\ MaxRetries \in Nat
    /\ Networks \subseteq BOOLEAN

Lots == 2

VARIABLES
    mode,       \* Executor.orderType
    lossy,      \* may the network lose a reply?
    ctxDone,    \* Execute's context is cancelled
    deadline,   \* the limit timeout: "off", "set", "fired"
    at,         \* the executor's step: a client call, "poll" or "done"
    http,       \* withRetry: "idle", "try", "wire", "sleep", "ok", "failed"
    attempt,    \* withRetry's loop variable
    answer,     \* the order status in the last reply, or the error's kind
    orders,     \* the exchange: every order it accepted
    limit,      \* index of the order whose id the limit reply carried
    result,     \* what Execute returned
    afterDone   \* history: orders accepted since the context was cancelled

vars == <<mode, lossy, ctxDone, deadline, at, http, attempt, answer, orders, limit, result, afterDone>>
callVars == <<at, http, attempt, answer>>
otherVars == <<mode, lossy, ctxDone, deadline, orders, limit, result, afterDone>>

NoResult == [status |-> "none", err |-> FALSE]

Init ==
    /\ mode \in Modes
    /\ lossy \in Networks
    /\ ctxDone = FALSE
    /\ deadline = "off"
    /\ at = (CASE mode = "GTC" -> "gtc" [] mode = "FOK" -> "fok" [] OTHER -> "limit")
    /\ http = "try"
    /\ attempt = 0
    /\ answer = "none"
    /\ orders = <<>>
    /\ limit = 0
    /\ result = NoResult
    /\ afterDone = 0

-----------------------------------------------------------------------------
(* The exchange.                                                           *)

Status(k) == IF orders[k].filled = Lots THEN "MATCHED"
             ELSE IF orders[k].open THEN "LIVE" ELSE "CANCELED"

Closed(o) == [filled |-> o.filled, open |-> FALSE]
Filling(o) == [filled |-> o.filled + 1, open |-> o.filled + 1 < Lots]

\* A GTC order rests or is matched at once; a FOK order is matched or killed.
Accepted == IF at = "fok"
            THEN {[filled |-> Lots, open |-> FALSE], [filled |-> 0, open |-> FALSE]}
            ELSE {[filled |-> Lots, open |-> FALSE], [filled |-> 0, open |-> TRUE]}

\* The effect of a request at the exchange and the status its reply carries.
Serve ==
    \/ /\ at \in {"limit", "gtc", "fok"}
       /\ \E o \in Accepted : orders' = Append(orders, o)
       /\ answer' = (IF orders'[Len(orders')].filled = Lots THEN "MATCHED"
                     ELSE IF at = "fok" THEN "UNMATCHED" ELSE "LIVE")
       /\ afterDone' = IF ctxDone THEN afterDone + 1 ELSE afterDone
    \/ /\ at = "status"
       /\ answer' = Status(limit)
       /\ UNCHANGED <<orders, afterDone>>
    \/ /\ at \in {"cancelLate", "cancelDone"}
       /\ orders' = [orders EXCEPT ![limit] = Closed(@)]
       /\ answer' = "none"
       /\ UNCHANGED afterDone

\* The market fills a lot of a resting order.
Match(k) ==
    /\ orders[k].open
    /\ orders' = [orders EXCEPT ![k] = Filling(@)]
    /\ UNCHANGED <<callVars, mode, lossy, ctxDone, deadline, limit, result, afterDone>>

\* Executor.CancelAll, called from another goroutine.
CancelAll ==
    /\ \E k \in 1..Len(orders) : orders[k].open
    /\ orders' = [k \in 1..Len(orders) |-> Closed(orders[k])]
    /\ UNCHANGED <<callVars, mode, lossy, ctxDone, deadline, limit, result, afterDone>>

-----------------------------------------------------------------------------
(* withRetry and the requests it repeats.                                  *)

SendWithoutWait ==                \* mutant: the limiter does not take ctx
    /\ http = "try"
    /\ http' = "wire"
    /\ UNCHANGED <<at, attempt, answer, otherVars>>

\* limiter.Wait passes and the request is written.
Send ==
    /\ http = "try"
    /\ ~ctxDone
    /\ http' = "wire"
    /\ UNCHANGED <<at, attempt, answer, otherVars>>

OneRetryTooMany(kind) ==          \* mutant: the loop runs to maxRetries + 1
    http' = IF kind = "permanent" \/ attempt > MaxRetries THEN "failed" ELSE "sleep"

\* fn returned an error: retried after a delay unless it is permanent or the
\* attempts are used up.
AfterError(kind) ==
    http' = IF kind = "permanent" \/ attempt = MaxRetries THEN "failed" ELSE "sleep"

\* limiter.Wait returns ctx's error: nothing is sent.
WaitFails ==
    /\ http = "try"
    /\ ctxDone
    /\ AfterError("other")
    /\ UNCHANGED <<at, attempt, answer, otherVars>>

\* The exchange handles the request and the reply arrives.
Served ==
    /\ http = "wire"
    /\ Serve
    /\ http' = "ok"
    /\ UNCHANGED <<at, attempt, mode, lossy, ctxDone, deadline, limit, result>>

\* It handles the request, and the reply is lost or no longer waited for.
ReplyLost ==
    /\ http = "wire"
    /\ lossy \/ ctxDone
    /\ Serve
    /\ AfterError("other")
    /\ UNCHANGED <<at, attempt, mode, lossy, ctxDone, deadline, limit, result>>

\* A network error before the exchange, a 429 or another error status.  A 404
\* is permanent except to CancelOrder, which does not use executeAndDecode.
NotServed(kind) ==
    /\ http = "wire"
    /\ kind = "permanent" => at \notin {"cancelLate", "cancelDone"}
    /\ AfterError(kind)
    /\ UNCHANGED <<at, attempt, answer, otherVars>>

\* The delay passes, or ctx ends it.
Retry ==
    /\ http = "sleep"
    /\ http' = "try"
    /\ attempt' = attempt + 1
    /\ UNCHANGED <<at, answer, otherVars>>

GiveUp ==
    /\ http = "sleep"
    /\ ctxDone
    /\ http' = "failed"
    /\ UNCHANGED <<at, attempt, answer, otherVars>>

-----------------------------------------------------------------------------
(* Execute: executeFOK, executeGTC and executeLimitFallback.               *)

Call(l) == at' = l /\ http' = "try" /\ attempt' = 0

Return(status, err) ==
    /\ at' = "done"
    /\ http' = "idle"
    /\ result' = [status |-> status, err |-> err]
    /\ UNCHANGED <<mode, lossy, ctxDone, deadline, attempt, answer, orders, limit, afterDone>>

RestingIsFailure ==              \* mutant: an order that rests is reported failed
    /\ at \in {"limit", "gtc", "fok"}
    /\ http = "failed" \/ (http = "ok" /\ answer = "LIVE")
    /\ Return("failed", TRUE)

\* PlaceOrder returned an error.
PlaceFails ==
    /\ at \in {"limit", "gtc", "fok"}
    /\ http = "failed"
    /\ Return("failed", TRUE)

\* executeFOK and executeGTC return the exchange's own status word.
PlaceReturns ==
    /\ at \in {"gtc", "fok"}
    /\ http = "ok"
    /\ Return(answer, FALSE)

FilledOnAnyReply ==               \* mutant: a poll reply is taken for a fill
    /\ at \in {"limit", "status"}
    /\ http = "ok"
    /\ Return("filled", FALSE)

\* The limit order was matched at once, or a poll finds it matched.
LimitFilled ==
    /\ at \in {"limit", "status"}
    /\ http = "ok"
    /\ answer = "MATCHED"
    /\ Return("filled", FALSE)

LimitRests ==
    /\ at = "limit"
    /\ http = "ok"
    /\ answer # "MATCHED"
    /\ at' = "poll"
    /\ http' = "idle"
    /\ limit' = Len(orders)
    /\ deadline' = "set"
    /\ UNCHANGED <<mode, lossy, ctxDone, attempt, answer, orders, result, afterDone>>

\* The select of the poll loop.
PollTick ==
    /\ at = "poll"
    /\ Call("status")
    /\ UNCHANGED <<answer, otherVars>>

\* GetOrder failed or the order is not matched yet.
PollAgain ==
    /\ at = "status"
    /\ http = "failed" \/ (http = "ok" /\ answer # "MATCHED")
    /\ at' = "poll"
    /\ http' = "idle"
    /\ UNCHANGED <<attempt, answer, otherVars>>

DeadlineIgnored == FALSE /\ UNCHANGED vars   \* mutant: a default case starves it

DeadlineCase ==
    /\ at = "poll"
    /\ deadline = "fired"
    /\ Call("cancelLate")
    /\ UNCHANGED <<answer, otherVars>>

DoneCase ==
    /\ at = "poll"
    /\ ctxDone
    /\ Call("cancelDone")
    /\ UNCHANGED <<answer, otherVars>>

\* The result of CancelOrder is not looked at.
FallBack ==
    /\ at = "cancelLate"
    /\ http \in {"ok", "failed"}
    /\ Call("fok")
    /\ UNCHANGED <<answer, otherVars>>

ReturnCancelled ==
    /\ at = "cancelDone"
    /\ http \in {"ok", "failed"}
    /\ Return("cancelled", TRUE)

-----------------------------------------------------------------------------
Cancel ==
    /\ ~ctxDone
    /\ ctxDone' = TRUE
    /\ UNCHANGED <<callVars, mode, lossy, deadline, orders, limit, result, afterDone>>

DeadlineFires ==
    /\ deadline = "set"
    /\ deadline' = "fired"
    /\ UNCHANGED <<callVars, mode, lossy, ctxDone, orders, limit, result, afterDone>>

Client ==
    \/ Send \/ WaitFails \/ Served \/ ReplyLost \/ Retry \/ GiveUp
    \/ \E kind \in {"permanent", "other"} : NotServed(kind)

Executor ==
    \/ PlaceFails \/ PlaceReturns \/ LimitFilled \/ LimitRests
    \/ PollTick \/ PollAgain \/ FallBack \/ ReturnCancelled

Next ==
    \/ Client
    \/ Executor
    \/ DeadlineCase
    \/ DoneCase
    \/ Cancel
    \/ DeadlineFires
    \/ CancelAll
    \/ \E k \in 1..Len(orders) : Match(k)
    \/ at = "done" /\ UNCHANGED vars

Spec == Init /\ [][Next]_vars

\* The goroutine runs, HTTP calls end (the client's timeout is 15 s), the
\* timer fires, and the select of the poll loop, which chooses at random among
\* ready cases, does not pass a ready case over for ever.
FairSpec ==
    /\ Spec
    /\ WF_vars(Client) /\ WF_vars(Executor) /\ WF_vars(DeadlineFires)
    /\ SF_vars(DeadlineCase) /\ SF_vars(DoneCase)

-----------------------------------------------------------------------------
OrderType == {o \in [filled : 0..Lots, open : BOOLEAN] : o.open => o.filled < Lots}

TypeOK ==
    /\ mode \in Modes
    /\ lossy \in BOOLEAN
    /\ ctxDone \in BOOLEAN
    /\ deadline \in {"off", "set", "fired"}
    /\ at \in {"limit", "gtc", "fok", "poll", "status", "cancelLate", "cancelDone", "done"}
    /\ http \in {"idle", "try", "wire", "sleep", "ok", "failed"}
    /\ attempt \in 0..MaxRetries
    /\ answer \in {"none", "LIVE", "MATCHED", "UNMATCHED", "CANCELED"}
    /\ orders \in Seq(OrderType)
    /\ limit \in 0..Len(orders)
    /\ result \in [status : {"none", "failed", "filled", "cancelled", "LIVE", "MATCHED",
                             "UNMATCHED"}, err : BOOLEAN]
    /\ afterDone \in Nat
    /\ at \in {"poll", "status", "cancelLate", "cancelDone"} => limit > 0

-----------------------------------------------------------------------------
(* Properties.                                                             *)

Filled == FoldSeq(LAMBDA o, n : o.filled + n, 0, orders)

\* However replies are lost and repeated, one call puts at most MaxRetries + 1
\* orders on the market, and the limit with fall back twice as many.
RetryBound ==
    Len(orders) <= (MaxRetries + 1) * (IF mode = "LIMIT_FALLBACK" THEN 2 ELSE 1)

\* After the context is cancelled at most the request already on the wire can
\* become an order: retries and the fall back send nothing more.
NoOrderAfterCancel == afterDone <= 1

\* A result that says the order is filled is never returned unless one order
\* of this call is filled completely.
HonestFill ==
    result.status \in {"filled", "MATCHED"} =>
        \E k \in 1..Len(orders) : orders[k].filled = Lots

\* Execute returns, whatever the exchange answers and whether the order fills.
Returns == <>(at = "done")

\* When no reply is lost a fill-or-kill or good-till-cancel call makes one
\* order, even if it is cancelled in the middle of a retry.
SingleOrder == ~lossy /\ mode # "LIMIT_FALLBACK" => Len(orders) <= 1

\* ... and if it was not cancelled, an error from it means there is no order:
\* what the pipeline relies on when it gives the position guard back.
ErrorMeansNoOrder ==
    ~lossy /\ mode # "LIMIT_FALLBACK" /\ ~ctxDone /\ result.err => orders = <<>>

\* order/executor.go:15: Request.Size is the "position size in base currency";
\* one call never buys more than it.
NoOverfill == Filled <= Lots

\* order/executor.go:22: a result "cancelled" is for an order that is gone.
CancelledMeansGone ==
    result.status = "cancelled" => ~orders[limit].open

\* order/executor.go:22: the four words a result's status may have.
StatusVocabulary ==
    at = "done" => result.status \in {"filled", "open", "failed", "cancelled"}
=============================================================================
