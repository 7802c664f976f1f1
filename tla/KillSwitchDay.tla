---------------------------- MODULE KillSwitchDay ----------------------------
(***************************************************************************)
(* The kill switch driven by a portfolio monitor over trading days.  Two   *)
(* history variables, reset with the day, say what the methods returned.   *)
(***************************************************************************)
EXTENDS KillSwitch

CONSTANT PortfolioValues     \* the values the monitor may report

ASSUME PortfolioAssumption == PortfolioValues \subseteq Int

VARIABLES lowest,    \* lowest value reported since the day began
          notices    \* calls of UpdatePortfolioValue that returned true

dayVars == <<startOfDayValue, currentValue, triggered, lowest, notices>>

DayInit == \E v \in PortfolioValues :
    /\ v > 0                         \* bot.BuildDeps: PortfolioValue > 0
    /\ NewKillSwitch(v)
    /\ lowest = v
    /\ notices = 0

Report(v) ==
    /\ UpdatePortfolioValue(v)
    /\ lowest' = IF v < lowest THEN v ELSE lowest
    /\ notices' = IF JustTriggered(v) THEN notices + 1 ELSE notices

Halt == TriggerSilently /\ UNCHANGED <<lowest, notices>>

NewDay(v) ==
    /\ ResetDaily(v)
    /\ lowest' = v
    /\ notices' = 0

DayNext == \/ \E v \in PortfolioValues : Report(v)
           \/ Halt
           \/ \E v \in PortfolioValues : NewDay(v)

DaySpec == DayInit /\ [][DayNext]_dayVars

-----------------------------------------------------------------------------
\* Type invariant of the switch and its history.
DayTypeOK ==
    /\ startOfDayValue \in PortfolioValues
    /\ currentValue \in PortfolioValues
    /\ triggered \in BOOLEAN
    /\ lowest \in PortfolioValues
    /\ notices \in Nat

\* If any value reported today was a breach, trading is halted now, however
\* far the portfolio has recovered since (UpdatePortfolioValue never clears).
BreachLatched == Breached(startOfDayValue, lowest) => triggered

\* UpdatePortfolioValue returns true ("just triggered") at most once between
\* two resets, and never while the switch stays off.
OneNotice == notices <= 1 /\ (notices = 1 => triggered)

\* RiskMultiplier falls gradually: a lower value never gets a larger
\* multiplier, and no loss of one unit costs more than the ramp's slope.  When
\* it sizes every trade to zero the switch has tripped: sizing and gating agree.
GradualRamp ==
    /\ \A v \in PortfolioValues :
          v <= currentValue =>
              LET drop == RiskMultiplier(startOfDayValue, currentValue)
                            - RiskMultiplier(startOfDayValue, v)
              IN  0 <= drop /\ drop <= 200 * (currentValue - v)
    /\ RiskMultiplier(startOfDayValue, currentValue) = 0 => triggered
=============================================================================
