----------------------------- MODULE Lifecycle -----------------------------
(***************************************************************************)
(* RunLifecycle, bot/bot.go: the goroutine that drives a bot from Init to  *)
(* the shutdown alert, the goroutine in which the bot runs, the channel    *)
(* between them, and the stop requests that may come at any time.  The     *)
(* bot's own methods are external: Init, Run and Shutdown end with any     *)
(* error, Run may ignore its context (a bug the shutdown timeout is for).  *)
(***************************************************************************)
EXTENDS Naturals

CONSTANT ErrChanCap       \* capacity of errCh

VARIABLES
    main,        \* the next step of RunLifecycle
    stopCh,      \* a signal waits in the channel
    parentDone,  \* the parent context is cancelled
    ctxDone,     \* the bot's context is cancelled
    bot,         \* the bot's goroutine: "none", "running", "sending", "ended"
    botErr,      \* what Run returned
    errCh,       \* values in errCh
    asked,       \* history: a stop was requested before main left its select
    timedOut,    \* the wait for Run ended by the timeout
    runErr,      \* RunLifecycle's result so far
    shutdowns    \* history: calls of Shutdown

vars == <<main, stopCh, parentDone, ctxDone, bot, botErr, errCh, asked, timedOut, runErr,
          shutdowns>>
requests == <<stopCh, parentDone>>
botVars == <<bot, botErr>>

Errors == {"nil", "canceled", "failed"}

Init ==
    /\ main = "init"
    /\ stopCh = FALSE
    /\ parentDone = FALSE
    /\ ctxDone = FALSE
    /\ bot = "none"
    /\ botErr = "nil"
    /\ errCh = 0
    /\ asked = FALSE
    /\ timedOut = FALSE
    /\ runErr = "nil"
    /\ shutdowns = 0

-----------------------------------------------------------------------------
(* RunLifecycle.                                                           *)

InitFails ==
    /\ main = "init"
    /\ main' = "exit"
    /\ ctxDone' = TRUE                                 \* defer cancel()
    /\ runErr' = "init"
    /\ UNCHANGED <<requests, botVars, errCh, asked, timedOut, shutdowns>>

\* The startup alert is sent; its error is only logged.
InitDone ==
    /\ main = "init"
    /\ main' = "start"
    /\ UNCHANGED <<requests, ctxDone, botVars, errCh, asked, timedOut, runErr, shutdowns>>

StartRun ==
    /\ main = "start"
    /\ main' = "wait"
    /\ bot' = "running"
    /\ UNCHANGED <<requests, ctxDone, botErr, errCh, asked, timedOut, runErr, shutdowns>>

\* A select that waits for a stop request takes any case that is ready.
TakeSignal ==
    /\ main = "wait"
    /\ stopCh
    /\ stopCh' = FALSE
    /\ main' = "cancel"
    /\ UNCHANGED <<parentDone, ctxDone, botVars, errCh, asked, timedOut, runErr, shutdowns>>

TakeParentDone ==
    /\ main = "wait"
    /\ parentDone
    /\ main' = "cancel"
    /\ UNCHANGED <<requests, ctxDone, botVars, errCh, asked, timedOut, runErr, shutdowns>>

\* main receives from errCh: from the buffer, or from a sender that waits.
Receive ==
    \/ errCh > 0 /\ errCh' = errCh - 1 /\ UNCHANGED bot
    \/ errCh = 0 /\ bot = "sending" /\ bot' = "ended" /\ UNCHANGED errCh

ResultTakenRaw ==                  \* mutant: context.Canceled is not filtered
    /\ main = "wait"
    /\ Receive
    /\ main' = "stop"
    /\ runErr' = botErr
    /\ UNCHANGED <<requests, ctxDone, botErr, asked, timedOut, shutdowns>>

TakeRunResult ==
    /\ main = "wait"
    /\ Receive
    /\ main' = "stop"
    /\ runErr' = IF botErr = "failed" THEN "run" ELSE "nil"
    /\ UNCHANGED <<requests, ctxDone, botErr, asked, timedOut, shutdowns>>

\* cancel(); Run has returned already if its result was taken ("stop").
CancelBot ==
    /\ main \in {"cancel", "stop"}
    /\ ctxDone' = TRUE
    /\ main' = IF main = "cancel" THEN "drain" ELSE "shutdown"
    /\ UNCHANGED <<requests, botVars, errCh, asked, timedOut, runErr, shutdowns>>

\* Run's late result is dropped.
Drained ==
    /\ main = "drain"
    /\ Receive
    /\ main' = "shutdown"
    /\ UNCHANGED <<requests, ctxDone, botErr, asked, timedOut, runErr, shutdowns>>

NoDrainTimeout == FALSE /\ UNCHANGED vars   \* mutant: waits for Run without a timeout

DrainTimesOut ==
    /\ main = "drain"
    /\ timedOut' = TRUE
    /\ main' = "shutdown"
    /\ UNCHANGED <<requests, ctxDone, botVars, errCh, asked, runErr, shutdowns>>

ShutdownErrorWins(failed) ==       \* mutant: the later error replaces the earlier
    runErr' = IF failed THEN "shutdown" ELSE runErr

ShutdownError(failed) ==
    runErr' = IF failed /\ runErr = "nil" THEN "shutdown" ELSE runErr

\* Shutdown returns, with an error or without.
CallShutdown ==
    /\ main = "shutdown"
    /\ \E failed \in BOOLEAN : ShutdownError(failed)
    /\ shutdowns' = shutdowns + 1
    /\ main' = "alert"
    /\ UNCHANGED <<requests, ctxDone, botVars, errCh, asked, timedOut>>

\* The shutdown alert is sent and RunLifecycle returns runErr.
Exit ==
    /\ main = "alert"
    /\ main' = "exit"
    /\ UNCHANGED <<requests, ctxDone, botVars, errCh, asked, timedOut, runErr, shutdowns>>

-----------------------------------------------------------------------------
(* The bot's goroutine and the requests to stop.                           *)

RunReturns ==
    /\ bot = "running"
    /\ \E e \in Errors :
          /\ e = "canceled" => ctxDone
          /\ botErr' = e
    /\ bot' = "sending"
    /\ UNCHANGED <<main, requests, ctxDone, errCh, asked, timedOut, runErr, shutdowns>>

SendIfReceiver == FALSE /\ UNCHANGED vars   \* mutant: errCh has no buffer

\* errCh <- err does not wait while the buffer has room.
SendResult ==
    /\ bot = "sending"
    /\ errCh < ErrChanCap
    /\ errCh' = errCh + 1
    /\ bot' = "ended"
    /\ UNCHANGED <<main, requests, ctxDone, botErr, asked, timedOut, runErr, shutdowns>>

Waiting == main \in {"init", "start", "wait"}

Signal ==
    /\ ~stopCh
    /\ stopCh' = TRUE
    /\ asked' = (asked \/ Waiting)
    /\ UNCHANGED <<main, parentDone, ctxDone, botVars, errCh, timedOut, runErr, shutdowns>>

\* The bot's context is derived from the parent's.
ParentCancels ==
    /\ ~parentDone
    /\ parentDone' = TRUE
    /\ ctxDone' = TRUE
    /\ asked' = (asked \/ Waiting)
    /\ UNCHANGED <<main, stopCh, botVars, errCh, timedOut, runErr, shutdowns>>

Main ==
    \/ InitFails \/ InitDone \/ StartRun
    \/ TakeSignal \/ TakeParentDone \/ TakeRunResult
    \/ CancelBot \/ Drained \/ DrainTimesOut \/ CallShutdown \/ Exit

Next ==
    \/ Main
    \/ RunReturns \/ SendResult
    \/ Signal \/ ParentCancels
    \/ main = "exit" /\ UNCHANGED vars

Spec == Init /\ [][Next]_vars

\* Init, Shutdown and the alerts return, and the timeout of the drain passes.
\* Nothing is assumed of Run, which may ignore its context.
FairSpec ==
    /\ Spec
    /\ WF_vars(Main)
    /\ WF_vars(SendResult)

-----------------------------------------------------------------------------
TypeOK ==
    /\ main \in {"init", "start", "wait", "cancel", "stop", "drain", "shutdown", "alert", "exit"}
    /\ stopCh \in BOOLEAN
    /\ parentDone \in BOOLEAN
    /\ ctxDone \in BOOLEAN
    /\ bot \in {"none", "running", "sending", "ended"}
    /\ botErr \in Errors
    /\ errCh \in 0..ErrChanCap
    /\ asked \in BOOLEAN
    /\ timedOut \in BOOLEAN
    /\ runErr \in {"nil", "init", "run", "shutdown"}
    /\ shutdowns \in Nat

\* An error that stopped the bot is what RunLifecycle returns, whatever Shutdown
\* returns; only a stop request may come first and hide it.  A Run that ended
\* because its context did is not an error.
RunErrorReported ==
    main = "exit" /\ runErr # "init" =>
        /\ ~asked => (runErr = "run" <=> botErr = "failed")
        /\ runErr # "canceled"

\* A request to stop ends the program, even if Run ignores its context.
StopExits == (stopCh \/ parentDone) ~> (main = "exit")

\* The bot's goroutine is never left waiting to send a result nobody reads.
NoLeakedSender == (bot = "sending") ~> (bot = "ended")
=============================================================================
