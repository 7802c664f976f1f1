---------------------------- MODULE PositionGuard ----------------------------
(***************************************************************************)
(* The position guard, risk/guard.go: the set of instruments on which a    *)
(* position is active.  Every method holds the guard's mutex throughout.   *)
(***************************************************************************)
VARIABLE positions

NewPositionGuard == positions = {}

IsActive(i) == i \in positions

AcquireUnchecked(i) ==            \* mutant: the test is not under the lock
    positions' = positions \union {i}

\* Acquire returning true; it returns false, changing nothing, when IsActive.
Acquire(i) ==
    /\ ~IsActive(i)
    /\ positions' = positions \union {i}

Release(i) == positions' = positions \ {i}
=============================================================================
