---------------------------- MODULE MCTradingBot ----------------------------
EXTENDS TradingBot

CONSTANT a

MCPortfolioValues == {100}
MCBatches == {<<a>>, <<a, a>>}

\* The guard, paper trading or not, and an executor that gives its context to its
\* requests or does not.
GuardOnly == [killSwitch : {FALSE}, guard : {TRUE}, dryRun : BOOLEAN, aborts : BOOLEAN]
SameInstrument == [i \in Instruments |-> {i}]
=============================================================================
