---------------------------- MODULE MCOrderBook ----------------------------
EXTENDS OrderBook

\* Every definition treats the tokens alike and there is no liveness property.
Symmetry == Permutations(Tokens)
=============================================================================
