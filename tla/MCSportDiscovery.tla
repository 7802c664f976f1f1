-------------------------- MODULE MCSportDiscovery --------------------------
EXTENDS SportDiscovery

CONSTANTS soccer, league

\* A market in both tags, and a newer one in each: the first tag may be down
\* for ever, and a page has room for one market.
MCTagIDs == <<soccer, league>>
MCTagsOf == <<{soccer, league}, {soccer}, {league}>>
=============================================================================
