----------------------------- MODULE MCPipeline -----------------------------
EXTENDS PipelineBook

CONSTANTS a, b

\* The start of the day is 100 and the threshold 40%: 60 trips the switch.
MCPortfolioValues == {60, 100}

\* A batch may be empty or cover both instruments; two workers that get the
\* same instrument, or start from different ones, compete for the guard.
MCBatches == {<<>>, <<a>>, <<a, b>>}

Config(ks, g, dry, ab) == [killSwitch |-> ks, guard |-> g, dryRun |-> dry, aborts |-> ab]

\* Every gate and an executor whose calls the context cuts off; no gate at all;
\* every gate and paper trading.  MCTradingBot has the guard with the other
\* kind of executor.
MCConfigs == {Config(TRUE, TRUE, FALSE, TRUE), Config(FALSE, FALSE, FALSE, FALSE),
              Config(TRUE, TRUE, TRUE, FALSE)}

\* Every evaluator in the repository decides on the signal it was given.
SameInstrument == [i \in Instruments |-> {i}]
=============================================================================
