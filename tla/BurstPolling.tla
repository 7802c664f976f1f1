---------------------------- MODULE BurstPolling ----------------------------
(***************************************************************************)
(* The timer of the contract cache's worker, contractcache.go, in seconds, *)
(* and the contracts its refreshes ask for, discovery.go.  Time is the     *)
(* position in the cycle of the longest contract; a refresh may take up to *)
(* MaxFetch seconds, and the next interval is chosen when it has ended.    *)
(***************************************************************************)
EXTENDS Integers

CONSTANTS
    Cycle,            \* length of the cycle
    Timeframes,       \* the contracts' lengths and how many windows are asked for
    Boundary,         \* 5 minutes
    BurstWindow,      \* burstWindow
    BurstInterval,    \* burstInterval
    RefreshInterval,  \* refreshInterval
    MaxFetch          \* bound: the longest refresh

ASSUME PollingAssumption ==
    /\ {Cycle, Boundary, BurstInterval, RefreshInterval} \subseteq Nat \ {0}
    /\ BurstWindow \in Nat /\ MaxFetch \in Nat
    /\ 2 * BurstWindow <= Boundary
    /\ BurstInterval <= RefreshInterval
    /\ Cycle % Boundary = 0
    /\ \A tf \in Timeframes :
          /\ tf.length \in Nat \ {0} /\ Cycle % tf.length = 0
          /\ tf.count \in Nat

VARIABLES
    now,     \* seconds since the cycle began
    timer,   \* seconds until the timer fires; 0 while a refresh runs
    busy,    \* seconds the refresh in progress has taken
    since,   \* history: seconds since the last refresh ended
    asked,   \* history: seconds since the last refresh that has ended began
    first    \* history: since that end, now has been in the window all the time

vars == <<now, timer, busy, since, asked, first>>

AfterBoundaryOnly(t) ==            \* mutant: only the half window after the boundary
    t % Boundary < BurstWindow

nearBoundary(t) ==
    LET sec == t % Boundary
    IN  sec < BurstWindow \/ sec >= Boundary - BurstWindow

currentInterval(t) ==
    IF nearBoundary(t) THEN BurstInterval ELSE RefreshInterval

\* "Within burstWindow of a 5-minute boundary", either side of it.
InWindow(t) ==
    LET sec == t % Boundary
    IN  \E b \in {0, Boundary} : b - BurstWindow <= sec /\ sec < b + BurstWindow

\* The time d seconds ago, within the cycle.
Ago(d) == (now + Cycle - d) % Cycle

\* The start of the window that t falls in.
Base(t, length) == t - (t % length)

OneTooFew(t, length, count) ==     \* mutant: the loop ends a window early
    {Base(t, length) + i * length : i \in -1..(count - 2)}

generateTimestamps(t, length, count) ==
    {Base(t, length) + i * length : i \in -1..(count - 1)}

Init ==
    /\ now \in 0..(Cycle - 1)
    /\ timer = currentInterval(now)
    /\ busy = 0
    /\ since = 0
    /\ asked \in 0..MaxFetch
    /\ first = InWindow(now)

Advance ==
    /\ now' = (now + 1) % Cycle
    /\ since' = since + 1
    /\ asked' = asked + 1
    /\ first' = (first /\ InWindow(now'))

Wait ==
    /\ timer > 0
    /\ timer' = timer - 1
    /\ Advance
    /\ UNCHANGED busy

\* The refresh takes another second.
Fetch ==
    /\ timer = 0
    /\ busy < MaxFetch
    /\ busy' = busy + 1
    /\ Advance
    /\ UNCHANGED timer

ResetAsBefore ==                   \* mutant: the interval is chosen before the refresh
    /\ timer = 0
    /\ timer' = currentInterval(Ago(busy))
    /\ busy' = 0
    /\ since' = 0
    /\ asked' = busy
    /\ first' = InWindow(now)
    /\ UNCHANGED now

Reset ==
    /\ timer = 0
    /\ timer' = currentInterval(now)
    /\ busy' = 0
    /\ since' = 0
    /\ asked' = busy
    /\ first' = InWindow(now)
    /\ UNCHANGED now

Next == Wait \/ Fetch \/ Reset

Spec == Init /\ [][Next]_vars

-----------------------------------------------------------------------------
TypeOK ==
    /\ now \in 0..(Cycle - 1)
    /\ timer \in 0..RefreshInterval
    /\ busy \in 0..MaxFetch
    /\ since \in 0..(RefreshInterval + MaxFetch)
    /\ asked \in since..(since + MaxFetch)
    /\ first \in BOOLEAN

\* The first refresh that ends inside the window is followed by one every
\* BurstInterval, and the time a refresh takes, until the window closes.
BurstHolds == first => since <= BurstInterval + MaxFetch

\* Outside of it refreshes are RefreshInterval apart: the burst ends with the
\* window, and does not go on at the exchange's expense.
BurstEnds ==
    timer > 0 /\ ~InWindow(Ago(since)) =>
        timer + since = RefreshInterval

\* The contract that is open now was asked for by the last refresh that ended,
\* however long ago, and so was the next five-minute one: no window begins
\* before its contract could be in the cache.
OpenContractAsked ==
    \A tf \in Timeframes :
        LET then == Ago(asked)
            open == Base(then + asked, tf.length)
            known == generateTimestamps(then, tf.length, tf.count)
        IN  /\ open \in known
            /\ tf.length = Boundary => open + tf.length \in known

\* A contract that ended at a boundary leaves the cache soon: a refresh that
\* was asked before the boundary is not the last one for longer than the part
\* of RefreshInterval that the burst does not cut off, and a refresh.
EndedSoonDropped ==
    LET sec == now % Boundary
    IN  sec >= RefreshInterval - BurstWindow + MaxFetch => asked <= sec

\* contractcache.go:14: "within a configurable window around each 5-minute
\* boundary ... the cache polls at BurstInterval (default 1s)": a second inside
\* the window is at most BurstInterval and a refresh away from the last poll.
WindowIsPolled ==
    (\A d \in 0..(BurstInterval + MaxFetch) : InWindow(Ago(d))) =>
        since <= BurstInterval + MaxFetch
=============================================================================
