------------------------------ MODULE Pipeline ------------------------------
(***************************************************************************)
(* The trading pipeline, pipeline/pipeline.go, run by several goroutines   *)
(* that share the kill switch and the position guard of bot.Deps.  A       *)
(* worker is one goroutine in Pipeline.Run (signals from a channel) or in  *)
(* Pipeline.RunEvery (a ticker and the Generator).  A step ends where the  *)
(* code reads or writes shared state or calls out of the package: each     *)
(* gate, the evaluator, the executor's call and its return, the recorder,  *)
(* the release of the guard.                                               *)
(*                                                                         *)
(* The market behind order.Executor is modelled by how many live orders or *)
(* positions an instrument has.  The statuses "filled" and "open" are one  *)
(* reply, "live"; the pipeline does not distinguish them.  An executor     *)
(* that passes its context to its requests, as Polymarket's does, returns  *)
(* an error when the context ends while a request is on its way; the       *)
(* request stays adrift, and the market may take it then or later.         *)
(***************************************************************************)
EXTENDS KillSwitch, PositionGuard, Sequences, FiniteSets

CONSTANTS
    Workers,          \* goroutines that process signals
    Runners,          \* those in Pipeline.Run; the others are in RunEvery
    Instruments,
    Batches,          \* the signal batches, each a sequence of instruments
    Configs,          \* which gates the pipeline has: see ConfigType
    PortfolioValues,  \* values a portfolio monitor reports
    EvaluatedAs,      \* instruments decision.Signal may name, per instrument
    Refusals,         \* replies for an order the market did not take
    LostReplies,      \* may a call that is not cut off return an error for an
                      \* order that was taken?
    MaxExposure       \* bound: live orders per instrument the market takes

\* The gates, and whether the executor gives its context to its requests.
ConfigType == [killSwitch : BOOLEAN, guard : BOOLEAN, dryRun : BOOLEAN, aborts : BOOLEAN]

None == "none"
Live == "live"
Refusal == {"failed", "cancelled", "error"}

ASSUME PipelineAssumption ==
    /\ Runners \subseteq Workers
    /\ None \notin Instruments
    /\ Batches \subseteq Seq(Instruments)
    /\ Configs \subseteq ConfigType
    /\ PortfolioValues \subseteq Int
    /\ EvaluatedAs \in [Instruments -> SUBSET Instruments]
    /\ Refusals \subseteq Refusal
    /\ LostReplies \in BOOLEAN
    /\ MaxExposure \in Nat

VARIABLES
    cfg,         \* the options given to pipeline.New
    ctxDone,     \* the context of Run is cancelled
    pc,          \* what each worker does next
    batch,       \* signals of the current batch not yet finished
    order,       \* instrument of order.Request of the current signal
    reply,       \* what Execute returned for it
    exposure,    \* live orders or positions per instrument at the market
    unbooked,    \* those of them not yet handed to the recorder
    adrift,      \* requests whose call was cut off, not yet handled
    strays,      \* history: requests adrift that the market took
    settled,     \* instruments whose position ended, not yet Released
    late         \* history: orders a worker sent since the switch tripped

workerVars == <<pc, batch, order, reply, late>>
marketVars == <<exposure, unbooked, adrift, strays, settled>>
vars == <<ksVars, positions, cfg, ctxDone, workerVars, marketVars>>

Labels == {"select", "generate", "next", "gate", "acquire", "dryrun",
           "evaluate", "execute", "sent", "returned", "settle", "release", "stopped"}

Sig(w) == Head(batch[w])
Jump(w, from, to) == pc[w] = from /\ pc' = [pc EXCEPT ![w] = to]

\* A step that only moves the worker on.
Proceed(w, from, to) ==
    /\ Jump(w, from, to)
    /\ UNCHANGED <<ksVars, positions, cfg, ctxDone, batch, order, reply, late, marketVars>>

Init ==
    /\ cfg \in Configs
    /\ \E v \in PortfolioValues : NewKillSwitch(v)
    /\ NewPositionGuard
    /\ ctxDone = FALSE
    /\ pc = [w \in Workers |-> "select"]
    /\ batch = [w \in Workers |-> <<>>]
    /\ order = [w \in Workers |-> None]
    /\ reply = [w \in Workers |-> None]
    /\ late = [w \in Workers |-> 0]
    /\ exposure = [i \in Instruments |-> 0]
    /\ unbooked = [i \in Instruments |-> 0]
    /\ adrift = [i \in Instruments |-> 0]
    /\ strays = [i \in Instruments |-> 0]
    /\ settled = {}

-----------------------------------------------------------------------------
(* The loops: Run, RunEvery, RunOnce and processBatch.                     *)

\* Run's select takes a batch; it may, even when the context is done.
Receive(w, b) ==
    /\ w \in Runners
    /\ Jump(w, "select", "next")
    /\ batch' = [batch EXCEPT ![w] = b]
    /\ UNCHANGED <<ksVars, positions, cfg, ctxDone, order, reply, late, marketVars>>

\* Run's select finds the channel closed and returns nil.
ChannelClosed(w) ==
    /\ w \in Runners
    /\ Proceed(w, "select", "stopped")

\* RunEvery's select takes a tick and RunOnce calls the Generator.
Tick(w) ==
    /\ w \notin Runners
    /\ Proceed(w, "select", "generate")

\* Generate returns a batch, or an error that RunEvery only logs.
Generated(w, b) ==
    /\ Jump(w, "generate", "next")
    /\ batch' = [batch EXCEPT ![w] = b]
    /\ UNCHANGED <<ksVars, positions, cfg, ctxDone, order, reply, late, marketVars>>

GenerateFails(w) == Proceed(w, "generate", "select")

\* Either select finds ctx.Done.
Done(w) ==
    /\ ctxDone
    /\ Proceed(w, "select", "stopped")

NextUnchecked(w) == Proceed(w, "next", "gate")   \* mutant: the range over the batch never ends

\* processBatch takes the next signal; it does not look at ctx.
NextSignal(w) ==
    /\ batch[w] # <<>>
    /\ Proceed(w, "next", "gate")

BatchEnd(w) ==
    /\ batch[w] = <<>>
    /\ Proceed(w, "next", "select")

\* processSignal returns; the caller says what becomes of the guard.
Finish(w, from) ==
    /\ Jump(w, from, "next")
    /\ batch' = [batch EXCEPT ![w] = Tail(@)]
    /\ order' = [order EXCEPT ![w] = None]
    /\ reply' = [reply EXCEPT ![w] = None]
    /\ UNCHANGED <<ksVars, cfg, ctxDone, late, marketVars>>

-----------------------------------------------------------------------------
(* processSignal.                                                          *)

KillSwitchSkips(w) ==
    /\ cfg.killSwitch
    /\ triggered
    /\ Finish(w, "gate")
    /\ UNCHANGED positions

KillSwitchIgnored(w) == Proceed(w, "gate", "acquire")   \* mutant: gate 1 is not consulted

KillSwitchPasses(w) ==
    /\ ~(cfg.killSwitch /\ triggered)
    /\ Proceed(w, "gate", "acquire")

GuardRefuses(w) ==
    /\ cfg.guard
    /\ Finish(w, "acquire")
    /\ IsActive(Sig(w))
    /\ UNCHANGED positions

\* The guard grants the instrument, or there is no guard; then the dry-run
\* test, which reads a field that never changes.
GuardGrants(w) ==
    /\ Jump(w, "acquire", IF cfg.dryRun THEN "dryrun" ELSE "evaluate")
    /\ IF cfg.guard THEN Acquire(Sig(w)) ELSE UNCHANGED positions
    /\ UNCHANGED <<ksVars, cfg, ctxDone, batch, order, reply, late, marketVars>>

\* Insert of a row with status "dry_run"; its error is only logged.
RecordDryRun(w) == Proceed(w, "dryrun", "release")

RejectedKeepsGuard(w) ==          \* mutant: the early return skips the Release
    /\ Finish(w, "evaluate")
    /\ UNCHANGED positions

\* Evaluate returns an error or a decision that is not Approved.
Rejected(w) == Proceed(w, "evaluate", "release")

\* Evaluate approves with a decision.Signal on instrument i, and the request
\* built from it is passed to Execute.
Approved(w, i) ==
    /\ Jump(w, "evaluate", "execute")
    /\ i \in EvaluatedAs[Sig(w)]
    /\ order' = [order EXCEPT ![w] = i]
    /\ late' = IF cfg.killSwitch /\ triggered THEN [late EXCEPT ![w] = @ + 1] ELSE late
    /\ UNCHANGED <<ksVars, positions, cfg, ctxDone, batch, reply, marketVars>>

\* The call fails before anything is sent: the request cannot be built, or the
\* wait for the rate limit finds the context done.
NotSent(w) ==
    /\ "error" \in Refusals
    /\ Jump(w, "execute", "returned")
    /\ reply' = [reply EXCEPT ![w] = "error"]
    /\ UNCHANGED <<ksVars, positions, cfg, ctxDone, batch, order, late, marketVars>>

SentAfterDone(w) == Proceed(w, "execute", "sent")   \* mutant: the wait does not take ctx

Send(w) ==
    /\ cfg.aborts => ~ctxDone
    /\ Proceed(w, "execute", "sent")

\* The market takes the order.  Execute returns a live status or, when
\* replies can be lost, an error.
OrderTaken(w) ==
    LET i == order[w] IN
    /\ Jump(w, "sent", "returned")
    /\ exposure[i] < MaxExposure
    /\ exposure' = [exposure EXCEPT ![i] = @ + 1]
    /\ unbooked' = [unbooked EXCEPT ![i] = @ + 1]
    /\ \E r \in {Live} \union (IF LostReplies THEN {"error"} ELSE {}) :
          reply' = [reply EXCEPT ![w] = r]
    /\ UNCHANGED <<ksVars, positions, cfg, ctxDone, batch, order, late, adrift, strays, settled>>

\* The market does not take it; Execute returns an error or another status.
OrderRefused(w, r) ==
    /\ Jump(w, "sent", "returned")
    /\ reply' = [reply EXCEPT ![w] = r]
    /\ UNCHANGED <<ksVars, positions, cfg, ctxDone, batch, order, late, marketVars>>

\* The end of the context cuts the call off: Execute returns its error, and
\* what the market does with the request nobody waits for.
CutOff(w) ==
    /\ cfg.aborts /\ ctxDone
    /\ Jump(w, "sent", "returned")
    /\ reply' = [reply EXCEPT ![w] = "error"]
    /\ adrift' = [adrift EXCEPT ![order[w]] = @ + 1]
    /\ UNCHANGED <<ksVars, positions, cfg, ctxDone, batch, order, late, exposure, unbooked,
                   strays, settled>>

\* err # nil: nothing is recorded and the guard will be released.
ExecuteFailed(w) ==
    /\ reply[w] = "error"
    /\ Proceed(w, "returned", "release")

TradeNotRecorded(w) ==            \* mutant: the Insert is skipped
    /\ reply[w] # "error"
    /\ Proceed(w, "returned", "settle")

\* Insert of the trade's row, under the signal's instrument; its error is
\* only logged, so either way the order has been handed to the recorder.
RecordTrade(w) ==
    /\ reply[w] # "error"
    /\ Jump(w, "returned", "settle")
    /\ unbooked' = IF reply[w] = Live THEN [unbooked EXCEPT ![Sig(w)] = @ - 1] ELSE unbooked
    /\ UNCHANGED <<ksVars, positions, cfg, ctxDone, batch, order, reply, late, exposure, adrift,
                   strays, settled>>

ReleaseOnAnyStatus(w) == Proceed(w, "settle", "release")   \* mutant: not only "failed" frees the guard

\* The trade alert is sent (its error is only logged); status "failed" goes
\* on to release the guard.
FailedStatus(w) ==
    /\ reply[w] = "failed"
    /\ Proceed(w, "settle", "release")

KeepPosition(w) ==
    /\ reply[w] # "failed"
    /\ Finish(w, "settle")
    /\ UNCHANGED positions

ReleaseGuard(w) ==
    /\ Finish(w, "release")
    /\ IF cfg.guard THEN Release(Sig(w)) ELSE UNCHANGED positions

-----------------------------------------------------------------------------
(* What runs beside the pipeline: the bot's lifecycle cancels the context; *)
(* the bot's portfolio monitor drives the kill switch; positions end at    *)
(* the market and the bot then releases the guard; the market takes a      *)
(* request that is adrift, or never does.                                  *)

Cancel ==
    /\ ~ctxDone
    /\ ctxDone' = TRUE
    /\ UNCHANGED <<ksVars, positions, cfg, workerVars, marketVars>>

Monitor ==
    /\ cfg.killSwitch
    /\ \/ \E v \in PortfolioValues : UpdatePortfolioValue(v) /\ UNCHANGED late
       \/ TriggerSilently /\ UNCHANGED late
       \/ \E v \in PortfolioValues : ResetDaily(v) /\ late' = [w \in Workers |-> 0]
    /\ UNCHANGED <<positions, cfg, ctxDone, pc, batch, order, reply, marketVars>>

PositionEnds(i) ==
    /\ exposure[i] > 0
    /\ exposure' = [exposure EXCEPT ![i] = @ - 1]
    /\ settled' = settled \union {i}
    /\ UNCHANGED <<ksVars, positions, cfg, ctxDone, workerVars, unbooked, adrift, strays>>

BotReleases(i) ==
    /\ i \in settled
    /\ settled' = settled \ {i}
    /\ IF cfg.guard THEN Release(i) ELSE UNCHANGED positions
    /\ UNCHANGED <<ksVars, cfg, ctxDone, workerVars, exposure, unbooked, adrift, strays>>

StrayTaken(i) ==
    /\ adrift[i] > 0
    /\ adrift' = [adrift EXCEPT ![i] = @ - 1]
    /\ strays' = [strays EXCEPT ![i] = @ + 1]
    /\ UNCHANGED <<ksVars, positions, cfg, ctxDone, workerVars, exposure, unbooked, settled>>

-----------------------------------------------------------------------------
Progress(w) ==
    \/ GenerateFails(w) \/ NextSignal(w) \/ BatchEnd(w)
    \/ \E b \in Batches : Generated(w, b)
    \/ KillSwitchSkips(w) \/ KillSwitchPasses(w)
    \/ GuardRefuses(w) \/ GuardGrants(w)
    \/ RecordDryRun(w) \/ Rejected(w)
    \/ \E i \in Instruments : Approved(w, i)
    \/ NotSent(w) \/ Send(w) \/ OrderTaken(w) \/ CutOff(w)
    \/ \E r \in Refusals : OrderRefused(w, r)
    \/ ExecuteFailed(w) \/ RecordTrade(w)
    \/ FailedStatus(w) \/ KeepPosition(w) \/ ReleaseGuard(w)

Worker(w) ==
    \/ \E b \in Batches : Receive(w, b)
    \/ ChannelClosed(w) \/ Tick(w) \/ Done(w)
    \/ Progress(w)

\* Every worker has returned.
Terminated == (\A w \in Workers : pc[w] = "stopped") /\ UNCHANGED vars

Next ==
    \/ \E w \in Workers : Worker(w)
    \/ Cancel
    \/ Monitor
    \/ \E i \in Instruments : PositionEnds(i) \/ BotReleases(i) \/ StrayTaken(i)
    \/ Terminated

Spec == Init /\ [][Next]_vars

-----------------------------------------------------------------------------
\* The evaluator trades the instrument of the signal it was given.
KeepsInstrument == \A i \in Instruments : EvaluatedAs[i] \subseteq {i}

InSignal == Labels \ {"select", "generate", "next", "stopped"}

TypeOK ==
    /\ cfg \in ConfigType
    /\ startOfDayValue \in Int
    /\ currentValue \in Int
    /\ triggered \in BOOLEAN
    /\ positions \subseteq Instruments
    /\ ctxDone \in BOOLEAN
    /\ pc \in [Workers -> Labels]
    /\ batch \in [Workers -> Seq(Instruments)]
    /\ order \in [Workers -> Instruments \union {None}]
    /\ reply \in [Workers -> Refusal \union {Live, None}]
    /\ late \in [Workers -> Nat]
    /\ exposure \in [Instruments -> Nat]
    /\ unbooked \in [Instruments -> Int]
    /\ adrift \in [Instruments -> Nat]
    /\ strays \in [Instruments -> Nat]
    /\ settled \subseteq Instruments
    /\ \A w \in Workers :
          /\ pc[w] \in InSignal => batch[w] # <<>>
          /\ pc[w] \in {"execute", "sent", "returned", "settle"} => order[w] \in Instruments

\* The worker has acquired the guard for its signal and must still give it
\* back or turn it into a position.
HoldsClaim(w) ==
    \/ pc[w] \in {"dryrun", "evaluate", "execute", "sent", "release"}
    \/ pc[w] = "returned" /\ reply[w] \in {"failed", "error"}
    \/ pc[w] = "settle" /\ reply[w] = "failed"

\* Acquire gives an instrument to one signal at a time, across all workers:
\* a claim is in the guard, nobody else has it, and nothing is at the market.
ClaimsExclusive ==
    cfg.guard =>
        \A w \in Workers : HoldsClaim(w) =>
            /\ IsActive(Sig(w))
            /\ exposure[Sig(w)] = 0
            /\ Sig(w) \notin settled
            /\ \A v \in Workers \ {w} : HoldsClaim(v) => Sig(v) # Sig(w)

\* guard.go: "PositionGuard prevents double-entry on the same instrument":
\* never two live orders on one, the orders and requests of calls that were
\* cut off included, although the guard has been given back for those.
NoDoubleEntry ==
    cfg.guard => \A i \in Instruments : exposure[i] + strays[i] + adrift[i] <= 1

\* After the kill switch trips, each worker sends at most the one order whose
\* signal had already passed the gate.
OneLateOrder == \A w \in Workers : late[w] <= 1

\* killswitch.go: "KillSwitch monitors drawdown and halts trading if thresholds
\* are breached": no order is sent while the switch is triggered.
NoOrderAfterTrip == \A w \in Workers : late[w] = 0

\* guard.go, Acquire: "Returns true if acquired (no existing position), false if
\* already active": an instrument that is refused has a position, or a signal
\* that may still become one, or an order whose end the bot has yet to see.
RefusedMeansPosition ==
    \A i \in Instruments : IsActive(i) =>
        \/ exposure[i] > 0
        \/ i \in settled
        \/ \E w \in Workers : pc[w] \in InSignal /\ Sig(w) = i

\* Every order Execute answered for is handed to the recorder once: what has
\* no row yet is exactly what some worker is about to insert.  An order of a
\* call that was cut off never has a row: see TradingBot's CleanExit.
OrdersBooked ==
    \A i \in Instruments :
        LET pending == {w \in Workers : pc[w] = "returned" /\ reply[w] = Live /\ order[w] = i}
        IN  unbooked[i] = Cardinality(pending)
=============================================================================
