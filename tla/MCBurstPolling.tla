--------------------------- MODULE MCBurstPolling ---------------------------
EXTENDS BurstPolling

\* DiscoverActive: 5-minute and 15-minute contracts.
MCTimeframes == {[length |-> 300, count |-> 3], [length |-> 900, count |-> 2]}
=============================================================================
