----------------------------- MODULE TradingBot -----------------------------
(***************************************************************************)
(* A bot under RunLifecycle: Run is the goroutines of Pipeline and returns *)
(* when they have stopped, as example/weatherbot and any bot that waits    *)
(* for its pipelines do.  RunLifecycle cancels the context the pipelines   *)
(* look at, waits for Run no longer than the timeout, calls the bot's      *)
(* Shutdown (which cancels what is open at the market) and ends the        *)
(* process, whatever its goroutines were doing.                            *)
(***************************************************************************)
EXTENDS Pipeline

CONSTANT ErrChanCap

ASSUME BotAssumption == ErrChanCap \in Nat

VARIABLES main, stopCh, parentDone, bot, botErr, errCh, asked, timedOut, runErr, shutdowns

L == INSTANCE Lifecycle

lifecycleVars == <<main, stopCh, parentDone, bot, botErr, errCh, asked, timedOut, runErr,
                   shutdowns>>
pipelineVars == <<ksVars, positions, cfg, workerVars, marketVars>>
allVars == <<pipelineVars, ctxDone, lifecycleVars>>

AllStopped == \A w \in Workers : pc[w] = "stopped"

BotInit == Init /\ L!Init

-----------------------------------------------------------------------------
\* RunLifecycle's own steps, the sender of Run's result and the stop requests.
LifecycleStep(A) == A /\ UNCHANGED pipelineVars

RunNeverWaits ==                       \* mutant: Run leaves its goroutines behind
    /\ L!RunReturns
    /\ UNCHANGED pipelineVars

\* Run returns: with the context's error, with nil for a closed channel, or
\* with an error of the bot's own.
RunReturns ==
    /\ AllStopped
    /\ L!RunReturns
    /\ UNCHANGED pipelineVars

\* The goroutines run from StartRun on, and no longer than the process.
Alive == bot # "none" /\ main # "exit"

WorkerStep(A) == Alive /\ A /\ UNCHANGED lifecycleVars

\* Positions end at the market and requests adrift reach it whether the bot
\* runs or not.
PositionEnded(i) == PositionEnds(i) /\ UNCHANGED lifecycleVars
LateTaken(i) == StrayTaken(i) /\ UNCHANGED lifecycleVars
BotReleased(i) == WorkerStep(BotReleases(i))

BotNext ==
    \/ LifecycleStep(L!Main) \/ LifecycleStep(L!SendResult)
    \/ LifecycleStep(L!Signal) \/ LifecycleStep(L!ParentCancels)
    \/ RunReturns
    \/ \E w \in Workers : WorkerStep(Worker(w))
    \/ \E i \in Instruments : PositionEnded(i) \/ BotReleased(i) \/ LateTaken(i)
    \/ main = "exit" /\ UNCHANGED allVars

\* RunLifecycle as in Lifecycle.  A goroutine keeps running, and the calls it
\* makes return.  Go's select picks among ready cases at random, so a Done
\* branch that stays ready each time the loop comes round is taken in the end.
\* Nothing is assumed of RunReturns, since a bot may have more to wait for than
\* its pipelines, nor that a position ever ends or that the bot releases it.
BotSpec ==
    /\ BotInit /\ [][BotNext]_allVars
    /\ WF_allVars(LifecycleStep(L!Main))
    /\ WF_allVars(LifecycleStep(L!SendResult))
    /\ \A w \in Workers :
          /\ WF_allVars(WorkerStep(Progress(w)))
          /\ SF_allVars(WorkerStep(Done(w)))

-----------------------------------------------------------------------------
BotTypeOK == TypeOK /\ L!TypeOK

\* An error of Run is reported and a cancellation is not: see Lifecycle.
RunErrorReported == L!RunErrorReported

\* bot.go:143: a request to stop ends the program, even if Run does not return.
StopExits == L!StopExits

\* bot.go:113: Run's goroutine is never left waiting to send its result.
NoLeakedSender == L!NoLeakedSender

\* Once Shutdown has been called no call of Execute makes an order or leaves a
\* request adrift, unless the wait for Run timed out.  Shutdown's CancelAll
\* can then miss only a request that was adrift before.
NoOrderAfterShutdown ==
    [][(\E i \in Instruments : exposure'[i] + adrift'[i] + strays'[i]
                                > exposure[i] + adrift[i] + strays[i])
           => shutdowns = 0 \/ timedOut]_allVars

\* A process that ends without the timeout leaves no goroutine between its
\* claim and what becomes of it, was shut down once if it was initialised, and
\* has a row for each order but those of calls that the end of the context cut
\* off.  Only an executor that gives its context to its requests can leave
\* such an order, with the guard one on each instrument.
CleanExit ==
    main = "exit" /\ ~timedOut =>
        /\ \A w \in Workers : ~HoldsClaim(w)
        /\ shutdowns = (IF runErr = "init" THEN 0 ELSE 1)
        /\ \A i \in Instruments :
              /\ unbooked[i] = 0
              /\ ~cfg.aborts => adrift[i] + strays[i] = 0
              /\ cfg.guard => adrift[i] + strays[i] <= 1

\* What an exit without the timeout does not give: a row for every order.
EveryOrderHasRow ==
    main = "exit" /\ ~timedOut =>
        \A i \in Instruments : unbooked[i] = 0 /\ strays[i] = 0

\* The claim of w on i was turned into something the pipeline keeps the guard
\* for: Execute answered with a status other than "failed", and a row was made.
Kept(w, i) == pc[w] = "settle" /\ reply[w] # "failed" /\ Sig(w) = i

\* A signal that acquired an instrument gives it back or keeps it for an order
\* that Execute answered for, as long as the process lives: no way through
\* processSignal leaves a claim behind.
ClaimsEnd ==
    \A w \in Workers, i \in Instruments :
        (HoldsClaim(w) /\ Sig(w) = i) ~> (~IsActive(i) \/ Kept(w, i) \/ main = "exit")
=============================================================================
