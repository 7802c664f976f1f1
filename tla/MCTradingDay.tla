---------------------------- MODULE MCTradingDay ----------------------------
EXTENDS TradingDay

\* With a 20% threshold and a start of 1000: full size down to 900, ramp to
\* 800.  A tenth of 1005 is not a whole number of cents.
MCPortfolioValues == {-100, 0, 600, 790, 800, 810, 850, 890, 900, 910, 1005, 1000, 1200}

MCSignals ==
    {[trueProb |-> p, marketProb |-> m, edge |-> p - m, confidence |-> c, side |-> s] :
        p \in {2, 60, 103, 120, 198, 199, 200}, m \in {0, 2, 60, 118, 198}, c \in {0, 50, 100},
        s \in {"BUY"}}
    \cup {[trueProb |-> 120, marketProb |-> 60, edge |-> 60, confidence |-> 100, side |-> "SELL"]}
=============================================================================
