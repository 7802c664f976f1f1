-------------------------- MODULE MCPolymarketFeed --------------------------
EXTENDS PolymarketFeed
=============================================================================
