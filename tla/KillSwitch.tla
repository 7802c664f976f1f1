----------------------------- MODULE KillSwitch -----------------------------
(***************************************************************************)
(* The drawdown kill switch, risk/killswitch.go.  Every method takes the   *)
(* switch's mutex for its whole body, so each one is a single action.      *)
(* Money is an integer number of units and the threshold an integer        *)
(* percentage; the code's float64 quotient is compared by cross            *)
(* multiplication, so rounding at the exact threshold is abstracted.       *)
(***************************************************************************)
EXTENDS Integers

CONSTANT MaxDrawdownPct    \* threshold, in percent of the start-of-day value

\* bot.BuildDeps creates a kill switch only for a positive threshold.
ASSUME MaxDrawdownAssumption == MaxDrawdownPct \in Nat \ {0}

VARIABLES startOfDayValue, currentValue, triggered

ksVars == <<startOfDayValue, currentValue, triggered>>

\* The guard of UpdatePortfolioValue: no verdict without a positive start
\* value, otherwise drawdown >= maxDrawdownPct.
Breached(start, v) ==
    /\ start > 0
    /\ 100 * (start - v) >= MaxDrawdownPct * start

NewKillSwitch(v) ==
    /\ startOfDayValue = v
    /\ currentValue = v
    /\ triggered = FALSE

LatchUntilRecovery(v) ==          \* mutant: the latch follows the drawdown
    /\ currentValue' = v
    /\ triggered' = Breached(startOfDayValue, v)
    /\ UNCHANGED startOfDayValue

UpdatePortfolioValue(v) ==
    /\ currentValue' = v
    /\ triggered' = (triggered \/ Breached(startOfDayValue, v))
    /\ UNCHANGED startOfDayValue

NoticeEveryBreach(v) == Breached(startOfDayValue, v)   \* mutant

\* The value UpdatePortfolioValue returns: TRUE for the update that trips.
JustTriggered(v) == Breached(startOfDayValue, v) /\ ~triggered

TriggerSilently ==
    /\ triggered' = TRUE
    /\ UNCHANGED <<startOfDayValue, currentValue>>

ResetDaily(v) ==
    /\ startOfDayValue' = v
    /\ currentValue' = v
    /\ triggered' = FALSE

-----------------------------------------------------------------------------
\* RiskMultiplier is a fraction with denominator RampUnit(start).
RampUnit(start) == IF start > 0 THEN MaxDrawdownPct * start ELSE 1

RampFromFullSize(start, v) ==     \* mutant: the ramp does not start at 50%
    IF \/ start <= 0
       \/ v >= start
       \/ 200 * (start - v) <= MaxDrawdownPct * start
    THEN RampUnit(start)
    ELSE MaxDrawdownPct * start - 100 * (start - v)

\* Full size up to half of the threshold, then a linear ramp that reaches 0
\* at the threshold.
RiskMultiplier(start, v) ==
    CASE \/ start <= 0
         \/ v >= start
         \/ 200 * (start - v) <= MaxDrawdownPct * start -> RampUnit(start)
      [] Breached(start, v)                             -> 0
      [] OTHER -> 2 * (MaxDrawdownPct * start - 100 * (start - v))
=============================================================================
