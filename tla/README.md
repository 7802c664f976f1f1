# Formal models of botagent

botagent is a Go framework for trading bots: a lifecycle (`bot/`), a pipeline
that turns signals into orders (`pipeline/`, `risk/`, `order/`, `trade/`,
`strategy/`, `signal/`, `sizing/`) and a provider for the Polymarket exchange
(`provider/polymarket/`). This directory holds TLA+ models of its concurrent
and fault-prone parts, TLC configurations that check them on small instances,
and TLAPS proofs for all instances. `PROJECT.json` lists the runs, the source
lines of every definition, the hazards, the findings and the theorems.

    tlc -workers 2 -config MCPipeline.cfg MCPipeline
    tlapm PipelineProofs.tla

## 1. The system

| Component | State | Operations | Meets others by | What makes it correct |
|---|---|---|---|---|
| Pipeline `pipeline/pipeline.go` | the options; per goroutine the batch and signal in hand | `Run`, `RunEvery`, `RunOnce`, `processBatch`, `processSignal` | shares guard and kill switch with other goroutines; calls evaluator, executor, recorder, alerter | one order per claimed instrument; every early return gives the claim back; orders reach the recorder; loops stop on cancellation, and nothing is sent after it |
| Kill switch `risk/killswitch.go` | start-of-day and current value, the latch | `UpdatePortfolioValue`, `TriggerSilently`, `ResetDaily`, `RiskMultiplier` | read by the pipeline, driven by the bot's monitor | latches until reset, reports once, sizing agrees with the gate |
| Position guard `risk/guard.go` | set of active instruments | `Acquire`, `Release`, `IsActive` | shared by all goroutines and the bot | mutual exclusion per instrument, no lock-out |
| Dry-run gate `risk/dryrun.go` | a constant flag | `ShouldSkip` | read by the pipeline | nothing is sent when set |
| Lifecycle `bot/bot.go` | its own step, the bot's goroutine, `errCh`, the contexts | `RunLifecycle`, `Run`, `BuildDeps` | calls the bot; receives signals | one Shutdown, after Run; errors reported; always exits |
| Polymarket executor `provider/polymarket/executor.go` | one call's step; the resting order | `Execute` (FOK, GTC, LIMIT_FALLBACK), `CancelAll` | calls the client; the pipeline trusts its result | buys at most once; the result tells the truth |
| HTTP client `provider/polymarket/client.go` | limiter, retry count | `PlaceOrder`, `GetOrder`, `CancelOrder`, ..., `withRetry` | the exchange over a network that loses replies | retries bounded, nothing after cancellation |
| Order book feed `provider/polymarket/wsfeed.go` | connection, tracked tokens, cached books, listeners | `Start`, `Stop`, `Subscribe`, `Unsubscribe`, `UpdateSubscriptions`, `readLoop`, `reconnect` | the exchange; subscribing goroutines; listeners | no subscription lost, no mixed book, Stop stops |
| Contract cache `provider/polymarket/contractcache.go` | contracts, timer, pending callbacks | `Start`, `worker`, `refresh`, `OnRefresh`, `Stop` | discovery; its callback drives the feed | holds the last refresh; keeps polling; callbacks serial |
| Contract discovery `discovery.go` | none | `DiscoverActive` | the gamma API | every open contract is found |
| Sport discovery `sport_discovery.go` | known markets and tokens | `poll`, `worker` | gamma API, `onNew` | each market announced once |
| Sizing `sizing/kelly.go` | none | `Size` | evaluators | never above the cap, never without an edge |
| Recorder `trade/recorder.go` | trade rows | `Insert`, `UpdateStatus` | pipeline | one row per order |
| Signing, auth, REST reads, alerts, config, logging, example | none that later steps depend on | | | |

The behaviours that are hard to test: signals of several goroutines on one
instrument; the kill switch tripping between its test and the order; an order
whose reply is lost; a deadline racing a fill; cancellation in the middle of a
retry; a stop signal together with an error; subscriptions changing during a
reconnect; messages of an old subscription arriving late; callbacks overtaking
each other; a refresh that half fails.

## 2. Modules

| Module | Models | State and actions |
|---|---|---|
| `KillSwitch` | `risk/killswitch.go` | three variables for the three fields; one action per method, since each holds the mutex for its whole body; `RiskMultiplier` as an integer fraction |
| `KillSwitchDay` | the switch under any sequence of calls | adds what was reported and returned since the last reset |
| `Sizing` | `sizing/kelly.go`, the weather bot's evaluator, the amounts of `signing.go` | pure operators, from a signal to the amounts of an order |
| `TradingDay` | sizing at every value of a day | `KillSwitchDay` with the portfolio value as the bankroll |
| `PositionGuard` | `risk/guard.go` | `positions`; `Acquire`, `Release`, `IsActive` |
| `Pipeline` | `pipeline/pipeline.go` over switch and guard, by any number of goroutines | `pc` per goroutine; one action per branch of the loops and of `processSignal`; the market as live orders per instrument, and the requests of calls that cancellation cut off |
| `PositionBook` | abstract: what an instrument goes through | `free`, `claimed`, `open`, `held` |
| `PipelineBook` | the refinement of `PositionBook` by `Pipeline` | `Entry` maps guard, exposure and claims to the book |
| `Lifecycle` | `RunLifecycle` and the bot's goroutine | `main` and `bot` are the two goroutines, `errCh` the channel between them |
| `TradingBot` | a bot that runs its pipelines under `RunLifecycle`, as `example/weatherbot` does | the steps of both; the context ties them together |
| `PolymarketExecutor` | one `Execute` call, `withRetry` and the exchange | `at` is the executor's step, `http` the retry loop's, `orders` the exchange's |
| `PolymarketFeed` | connection and subscriptions of `wsfeed.go`, its callers, the exchange | `reader` and `caller` are goroutines, a step is a critical section or a network call; a book is its version |
| `OrderBook` | the content of the books in `wsfeed.go`: the message handlers, the best prices, `fanOut`, the listeners | a connection is its sequence of messages; a listener is the updates in its channel, the one in its hands, and what it has missed |
| `ContractCache` | the cache, `DiscoverActive`, the callbacks | `worker`, and the callbacks that wait for the lock and that run, each a read of the subscriptions and an update of them |
| `BurstPolling` | the cache's timer in seconds, and the windows `generateTimestamps` asks for | the position in the cycle of the longest contract |
| `SportDiscovery` | `sport_discovery.go` | `pc` of its goroutine, the tags still to ask, the known and the announced markets |
| `PipelineProofs`, `ExecutorProofs`, `TradingDayProofs`, `FeedProofs`, `OrderBookProofs`, `CacheProofs`, `BurstPollingProofs`, `SportDiscoveryProofs` | | theorems |
| `MC...` | | constants for TLC |

Composition:

* `Pipeline` EXTENDS `KillSwitch` and `PositionGuard` and calls their actions.
* `PipelineBook` INSTANCEs `PositionBook` with a refinement mapping.
* `TradingBot` EXTENDS `Pipeline` and INSTANCEs `Lifecycle`; both write `ctxDone`,
  the context `RunLifecycle` cancels and the goroutines look at. Its steps are
  steps of `Pipeline` (theorem `BotRunsPipeline`), so what is proved of the
  pipeline holds of the bot.
* `TradingDay` EXTENDS `KillSwitchDay` and `Sizing`.
* `PolymarketExecutor` states what `Pipeline` assumes of an executor.
  `~LostReplies` says that an error of a call that was not cut off means that no
  order exists: `ErrorMeansNoOrder` shows it for FOK and GTC calls that were not
  cancelled, on a network that loses no reply; a lost reply or the fall back
  breaks it. Of a call that is cancelled nothing of the kind is assumed:
  `CutOff` leaves its request adrift, to be taken at any later time or never.
  That there is one such request at most is `SingleOrder`, for FOK and GTC; that
  nothing is sent afterwards (`Send` needs the context) is the limiter's and the
  request's context, and `NoOrderAfterCancel`. An executor that does not give its
  context to its requests, as the mock exchange, is `aborts = FALSE`.
* `ContractCache` states what `PolymarketFeed` assumes: a callback that manages
  the subscriptions is not disturbed by another (`SubscriptionsOfLastCallback`),
  so one goroutine at a time does (`Callers`). No code in the repository connects
  the two, so they are not composed further; what the callback does is taken from
  the comment of `OnRefresh` and from `UpdateSubscriptions`.
* `PolymarketFeed` and `OrderBook` share a file and split it: the first has the
  connections and treats a book as a version, the second has one connection's
  messages and what they do to the levels.

Definitions marked `mutant` are plausible wrong versions of the definition after
them; `PROJECT.json` says which property each one breaks. Nothing else uses them.

### How the steps are chosen

A step ends where another goroutine or the outside can come in between: after a
critical section, before and after a call out of the package, at a channel
operation. `processSignal` reads the kill switch, acquires the guard, evaluates,
executes, records and releases in separate steps, because in the code nothing
holds a lock across them. An alert is part of the step before it, since its
error is only logged. In the executor the moments that matter are a request put
on the wire, its effect at the exchange, and the retry loop's look at the
outcome. In the feed every use of `mu` and of `subMu` is a step, and
`sendSubscription` is two: it takes the connection under the lock and writes
without it. A message handler of `OrderBook` is two, its critical section and
its call of `fanOut`. A listener takes an update in one step and reads the book
it names in another. `Execute` is three steps in `Pipeline`: the call, the request
on its way, the reply. `SportDiscovery` is one goroutine, so a page is one step.

### Abstractions

* Money of the kill switch is an integer and its quotient is compared by
  cross-multiplication; float rounding at the exact threshold is left out.
* In `Sizing` probabilities and prices are in half percents, since what lies
  between 99% and certainty is sized in another way than certainty; fractions and
  confidences are in percents, money is in cents and an order's amounts in
  millionths. The code truncates a float64
  product such as 2.01 * 1e6, which may lie just below the whole number: an
  amount that should be whole is it or one less, and `Orders` is the set of both.
* Instruments, tokens, contracts and markets are model values or numbers.
* `filled` and `open` are one reply in `Pipeline`, which does not distinguish them.
* An order in `PolymarketExecutor` has two lots, so that it can be filled in
  part; its price and id are left out. `GetOrder`'s `FILLED` is `MATCHED`: the
  code treats both alike.
* A WebSocket frame reaches the exchange at once or not at all, messages come
  back in order.
* A side of a book gives a size to each price. Prices and sizes are numbers,
  where the code has strings that it compares as strings: a size is zero to
  `applyPriceChanges` if it reads `0`, `0.0` or nothing (`wsfeed.go:653`), and one
  price may not be written in two ways. The range over a map in
  `applyPriceChanges` is any order of the levels.
* An update to a listener names its token and whether the market is resolved. The
  three other event types ask the listener for the same, to read the token's book,
  and are one.
* An event of `SportDiscovery` has one market, whose number is its place in the
  order of start dates.

## 3. Runs

| Run | Question | Bounds |
|---|---|---|
| `trading_day` | Does the switch latch and report once, is its ramp free of cliffs, is a size the Kelly part of the value at hand, does an order stay within it? | 13 values around a 20% threshold: at, above and below half of it and all of it, zero, negative, recovered, and 1005, whose tenth is not whole; about 105 signals from no edge to a certain bet, with 99%, 99.5% and 100% at a price of 99 cents; 1,638 states |
| `pipeline_safety` | Do guard, gates and recorder hold under interleaving, and is `PositionBook` implemented? | two goroutines (one `Run`, one `RunEvery`), two instruments, batches of 0 to 2; all gates and calls that cancellation cuts off, no gate, all gates in paper trading; every refusal, room for two live orders per instrument, so that a double entry can be seen; 919,000 states, two and a half minutes |
| `trading_bot` | Does a stop end the program, what can it leave behind, are errors reported, does every claim end? | two `Run` goroutines on one instrument, batches with the instrument once and twice, channels that may close, so that Run may end before any stop request; every refusal, paper trading or not, calls that cancellation cuts off or not; 115,000 states |
| `executor` | Are orders bounded, are results honest, does the call return? On a network that loses no reply, is the pipeline's assumption met? | one retry, every order type, both kinds of network; 11,000 states |
| `feed` | Is no subscription lost, no book stale, no old connection open; does the loop end? | two tokens, two connections, one market move, two calls of any kind; 1,350,000 states, two minutes |
| `book` | Does the cache have the market's levels, does the best price name one, what can a listener miss? | two tokens, two prices, two sizes, two market moves, one listener with room for one update, which another token's fills; tokens are symmetric; 1,930,000 states |
| `cache` | Do callbacks leave each other's subscriptions alone, is the cache that of the last refresh, does it go on and end? | two contracts, three refreshes; 314,000 states |
| `burst` | When does the burst hold and end, is the open contract always asked for, is an ended one dropped? | none on time: the real cycle of 900 s, windows of 5 and 15 minutes, window 15 s, burst 1 s, interval 30 s, from every second; a refresh up to 2 s; 81,000 states |
| `sport` | Is a tracked market announced once, is an open one found? | two tags with a market in common and one each, a page of one, two changes of status, a tag that may fail for ever; 20,000 states |
| `executor_fallback` | counterexample, see below | no retry, no lost reply |
| `book_best` | counterexample | one token, two prices |
| `cache_failure` | counterexample | one contract, two refreshes |

Why the bounds are enough: the pipeline's goroutines meet only in the guard, the
kill switch and the market, so two goroutines on one instrument show every
conflict and the second instrument shows that claims are kept apart; the proofs
lift the bound. One retry makes every kind of duplicate, and the proofs lift
that bound too. A reconnect needs a connection before and one after; a stale
book needs one missed version. A wrong level needs a level that stays and one
that changes; a lost update needs a channel full of another token's. Two callbacks
are enough to overtake and to disturb each other. A page of one is full as soon as
a second market opens. That the cache's timer fires three times only is a bound
on `StopEndsWorker` too: the worker passes over its end that often at most.

Deadlock is checked in every run.

### Fairness

`TradingBot!BotSpec`: `RunLifecycle` keeps running, that is, Init, Shutdown and
the alerts return and the timeout of the drain passes; the sender of Run's
result goes on when it can; a goroutine in the middle of a signal keeps running,
since every call it makes returns (the executor's calls do, see `Returns`). The
`Done` branch has strong fairness: Go's select chooses at random among ready
cases, so a case that is ready each time is taken in the end. Nothing makes a
batch arrive, and nothing is assumed of Run's return, of positions, which may never
end, and of the bot, which may never release one: no code here does. So
`ClaimsEnd` is about the pipeline alone: a claim is given back by `processSignal`,
or kept by it for an order that `Execute` answered for.

`PolymarketExecutor!FairSpec`: requests end (the client has a timeout), the timer
fires, and the select of the poll loop is fair in the same sense.
`PolymarketFeed!FairSpec`: the read loop runs, a read of a broken connection fails
(by the deadline at the latest) and Stop gets its lock; dialling may fail for
ever. `ContractCache!FairSpec`: requests end, the timer fires, the select is
fair; nothing is assumed of callbacks. `SportDiscovery!FairSpec`: requests end,
the callback returns (it runs in the polling goroutine), the timer fires, and a
tag in `Healthy` that is asked again and again answers at some time; of other
tags nothing is assumed. `Lifecycle!FairSpec` is the lifecycle's part of `BotSpec`.

### What the counterexamples show

Runs that end in a violation, each a finding of `PROJECT.json`:

* `executor_fallback` (`NoOverfill`): the fall back buys the full size although
  the limit order filled, wholly or in part, before its cancellation.
* `book_best` (`BestIsBest`): after a price change the best price is that of an
  arbitrary level, until the next snapshot or best-price message.
  `QuietBestIsALevel` shows what is left: it is at least a price of the book.
* `cache_failure` (`FailureKeepsCache`): discovery drops every error, so an outage
  empties the cache that was to be kept.

Properties stated in the modules that the code does not have either, and how to
see it (take the configuration named and check that property alone):

* `Pipeline!NoDoubleEntry` (`MCPipeline.cfg` with `LostReplies = TRUE`): any error
  of `Execute` releases the guard, though the order may exist.
* `TradingBot!EveryOrderHasRow` (`MCTradingBot.cfg`): a call that cancellation cuts
  off returns an error, so the order the exchange may make of its request has no
  row at a clean exit; it may be made after Shutdown's CancelAll. `CleanExit`
  bounds such orders to one per instrument, if there is a guard.
* `Pipeline!NoOrderAfterTrip` (`MCPipeline.cfg`): the switch is read once per
  signal, so a signal past the gate still trades after the trip; `OneLateOrder`
  bounds this to one per goroutine.
* `Pipeline!RefusedMeansPosition` (`MCPipeline.cfg`): only status `failed` gives the
  guard back; a `cancelled` order locks the instrument. It holds when
  `"cancelled"` is taken out of `Refusals`.
* `TradingBot!NoOrderAfterShutdown` without its `timedOut`: once the wait for Run
  is given up, orders may follow Shutdown's CancelAll.
* `PolymarketExecutor!NoOverfill` (`MCExecutor.cfg` with `Modes = {"FOK"}` and
  `Networks = {TRUE}`): `withRetry` repeats an order whose reply was lost.
* `PolymarketExecutor!CancelledMeansGone` (`MCExecutor.cfg`): the limit order is
  cancelled with a context that has ended, so no request is sent and the order
  stays in the book, reported `cancelled`.
* `PolymarketExecutor!StatusVocabulary` (`MCExecutor.cfg`): FOK and GTC return the
  exchange's words; the pipeline, which tests for `failed`, keeps the guard for a
  FOK order that was killed.
* `PolymarketFeed!UnsubscribedHasNoBook` and `UnsubscribedIsGone` (`MCFeed.cfg`): a
  late message recreates the cached book of an unsubscribed token; a renewal that
  copied the tokens before an Unsubscribe subscribes it again.
* `PolymarketFeed!StopClosesConnection` (`MCFeed.cfg`): Stop during a reconnect
  leaves the connection dialled afterwards open; `OldConnsClosed` bounds this to one.
* `OrderBook!NothingMissed` (`MCOrderBook.cfg`): an update that meets a channel full
  of others is dropped. A book stays unread until the next update of its token; a
  `market_resolved` never comes again.
* `ContractCache!SubscriptionsFollowCache` (`MCCache.cfg`): callbacks are serialized
  but may overtake each other, and the subscriptions stay those of the older set.
* `BurstPolling!WindowIsPolled` (`MCBurst.cfg`): a timer set just before the window
  sleeps through part of it.
* `TradingDay!LikelierNeverSmaller` (`MCTradingDay.cfg`): `kelly.go:59-61` takes a
  probability of 1 for 0.99 and leaves 0.995 as it is, so at a price of 0.99 the
  likelier signal is sized zero and the other is not.
* `TradingDay!BuySpendsSize` (`MCTradingDay.cfg`): a size is dollars in
  `sizing/kelly.go` and "base currency" in `order/executor.go:19`, while
  `signing.go:226` takes it for a number of shares: a BUY pays size times price.

Seen while translating, and left as the code has it: a SELL is sized only when
the true probability is above the market's (`kelly.go:48`); a signal without a
confidence (0) gets the full one; a side that is neither BUY nor SELL gets a
SELL's amounts and is signed as a BUY (`signing.go:107`, `:225`);
`WithSpreadTolerance` is stored and never read; an order's expiration is not
signed; a reconnect clears the books without waking the listeners; a second Stop
of the feed, the cache or the discovery closes a closed channel; a market that
is never among the newest 100 of a tag is not found, an `onNew` that hangs stops
the polls, and the known set never shrinks.

## 4. Proofs

Each theorem is for every value of the constants: any sets of goroutines,
instruments, tokens or tags, any number of retries, any threshold. A safety
property is seldom inductive; the invariant that is, and why it is needed:

* `PipelineProofs`: `TypeCorrect` (`TypeOK`). `GuardExcludes` (`ClaimsExclusive` and
  `NoDoubleEntry`) under two assumptions stated in the theorem: evaluators keep the
  signal's instrument (`KeepsInstrument`) and an error of a call that was not cut
  off means no order (`~LostReplies`); without the second the claim is false (see
  above). The claim counts the requests of calls that were cut off: `AdriftInv`
  says that they are made only when the context has ended, that nobody sends after
  that, and that each was the one order of its claim. That the
  market holds nothing for a claimed instrument depends on every live or
  unreleased order being in the guard. `GuardInv` adds `PositionsGuarded` (an
  instrument with an order, or with an ended position not yet released, is
  active, and its exposure is at most one), `OrderIsSignal` (the request names the
  signal's instrument) and `ClaimsDisjoint`. `LateOrderBound` (`OneLateOrder`) from
  `LateInv`: while the switch is off nobody has a late order, and a goroutine that
  has one is past its gate for the last time.
  `PipelineImplementsBook` is the refinement of `PositionBook`: from a state of
  `GuardInv` each action is the book's step of one instrument or a stutter of
  all; one lemma per kind of action. `EveryOrderBooked` (`OrdersBooked`) is for a
  finite set of goroutines: `BookedInv` says that the orders Execute answered for
  that have no row are as many as the goroutines about to insert one.
  Of the bot (`TradingBot`): `BotRunsPipeline`, every step is one of `Pipeline`.
  `ShutdownIsFinal` (`NoOrderAfterShutdown`) assumes nothing of evaluators and
  executors: it needs `RunInv` (Run's result follows the end of its goroutines)
  and `MainInv` (RunLifecycle goes past the drain only when Run is over or the
  timeout has passed). `ExitIsClean` (`CleanExit`) is under the assumptions of
  `EveryOrderBooked`, from `StopInv`, which adds `BookedInv`, `AdriftInv` and
  `AbortInv` (an executor that does not look at the context leaves nothing adrift).
  `ErrorIsReported` (`RunErrorReported`) from `ErrorInv`: without a stop
  request the only way to Shutdown is Run's result, which no later step changes.
* `ExecutorProofs`: `RetriesBounded`, `CancelStopsOrders`, `FillsAreReal`,
  `OneOrderPerCall` (`SingleOrder`) and `ErrorsAreFinal` (`ErrorMeansNoOrder`) from
  one invariant, `ExecInv`: `CountInv` ties the number of orders to the retry
  loop's counter, `LateInv` says that nothing is put on the wire after
  cancellation, `FillInv` that whoever believes in a fill has seen one (and fills
  are final), `SingleInv` that on a network without loss an order ends the
  attempts.
* `TradingDayProofs`: `BreachStaysLatched`, `TripReportedOnce`; `RampNeverJumps`
  (`GradualRamp`), which needs the latch and `LowestIsLow`, that the day's lowest
  value is not above the current one. Of the sizing, for all integers:
  `SizeIsAlwaysKelly` (the size is the Kelly part of the value, up to the rounding,
  and 0 without an edge: `KellyEdge` shows the quotient to be exact),
  `StrongerSignalsPayOff` (a signal believed at least as likely never gets less;
  a certain one is believed at 99%) and
  `OrdersStayWithinSize`, from what a rounded quotient is and that it is monotone
  (`RoundDiv`).
* `FeedProofs`: `OneConnection` (`OldConnsClosed`) from `ConnInv`: only the
  connection the feed holds is open, it is the last one dialled, and while the
  reader redials it holds none. `NoSubscriptionLost` (`TrackedIsSubscribed`) needs
  `ManagerInv`, that what is about to be unsubscribed nobody tracks any more. It
  assumes one manager at a time (`OneManager`), because with two the frames may be
  written in another order than the set was changed; the cache that calls it is
  serialized (`CallbacksSerialized`). `QuietBookFollowsMarket`
  (`QuietBookIsCurrent`) from `BookInv`: every change in flight continues the message
  before it, the first one continues the cached book, if there is one, and the
  last message has the market's version; with nothing in flight that is the book
  itself. While the reader redials no book is cached.
* `OrderBookProofs`: `QuietBookFollowsLevels` (`QuietBookIsMarket`) and
  `QuietBestHasLevel` (`QuietBestIsALevel`) from `CacheInv`: at each price the last
  message that gives a size gives the market's, and if none is left the cached
  book has it; a token without a book gets one before its next change
  (`MissingBookComes`), so no change is applied to nothing; books are listings of
  a side, each price once. One lemma, `CacheHandled`, takes the head of the
  messages for any handler that `Caches` it, and there is one lemma per handler
  that it does. `SizeAtConcat` is the lemma about `applyPriceChanges`, that writing
  changes over levels gives the last size written; `Sorting`, that a finite set
  with a total order has a listing in that order, stands in for an induction.
  `OnlyFullChannelsMiss` (`MissedOnlyWhenFull`) from `WakeInv`: what a send leaves
  in a channel (`SendKeeps`), and that a listener that takes an update has what it
  names in hand until it has acted on it. `BookTypeCorrect` (`TypeOK`).
* `CacheProofs`: `CallbacksSerialized` (`SubscriptionsOfLastCallback`) from `LockInv`,
  one callback at most runs and the subscriptions are what it found, and `JobInv`,
  that a callback of the latest refresh has what it cached; `CacheFollowsRefresh`
  (`CacheIsOfLastRefresh`) from `FetchInv`: what was found was open at some time of
  the refresh, and what was open throughout was found, or its request failed or
  is still out.
* `BurstPollingProofs`, for any window, intervals and length of a refresh:
  `BurstHoldsToTheEnd` (`BurstHolds`) and `BurstEndsWithWindow` (`BurstEnds`) from
  `TimerInv`: what the timer has left and what has passed since the last refresh
  are the interval chosen at its end, and the short one if the window has been
  open since. `OpenContractWasAsked` (`OpenContractAsked`) assumes `EnoughWindows`,
  that the longest gap between refreshes is shorter than the windows asked for
  ahead: 300 seconds of five-minute contracts, so a refresh interval of 30 leaves
  a refresh more than two minutes. `EndedContractIsDropped` (`EndedSoonDropped`)
  assumes `ShortRefreshes`, that a refresh is no longer than the half window before
  a boundary and the refresh interval longer than the burst after one; without
  either TLC finds a counterexample (`MaxFetch` 20, or `RefreshInterval` 16). Both
  assumptions hold of the run's constants; `refreshInterval` is the caller's
  choice. Base lemmas: what a remainder is, and that a time
  of the cycle advances as the time of day does (`ModOfMod`, `AgoAdvances`).
* `SportDiscoveryProofs`: `TrackedOnce` (`TrackedIsAnnounced`); what a page adds was
  not known, and the known set is never ahead of the callback's list.

Assumptions: the named ASSUME of each module (`MaxRetries \in Nat`, a positive
channel capacity, finite sets of tokens and prices and the like), and those the
theorems above state. `OrderBook`'s market begins with one size at every price;
`MaxMoves` is any number, so every other market is reached from it.

Only model-checked:

* Liveness (`Returns`, `StopExits`, `NoLeakedSender`, `ClaimsEnd`,
  `StopEndsReadLoop`, `RefreshesGoOn`, `StopEndsWorker`, `OpenMarketFound`): fairness
  and ENABLED are beyond the prover.
* The properties the counterexamples are about.

## 5. Not modelled

Hashing, signatures and authentication headers (cryptography: only the amounts
of an order are modelled), the REST reads and the decoding of their replies
(stateless), alerts (their errors are only logged), configuration and logging
(no state that a later step depends on), the mock exchange (its executor fills
at once or fails, a subset of the market in `Pipeline`), `InMemoryRecorder` (an
append and an update under one mutex, for tests), and the feed's heartbeat, its
counters and the callbacks that change nothing in it. Crashes: nothing is
persisted, so a restarted process begins at `Init`.

## 6. Plan

Done: all modules of section 2, and a theorem for every safety property that a
passing run checks. Left:

1. `Pipeline` over an abstract executor contract that `PolymarketExecutor` is shown
   to implement, in place of the assumption `~LostReplies`.
