------------------------ MODULE MCPolymarketExecutor ------------------------
EXTENDS PolymarketExecutor
\* One retry makes every kind of duplicate; a second one adds only more of them.
=============================================================================
