---------------------------- MODULE PipelineBook ----------------------------
(***************************************************************************)
(* The pipeline with a position guard implements PositionBook.             *)
(***************************************************************************)
EXTENDS Pipeline

\* Without a guard the pipeline promises nothing and its book stays empty.
Entry(i) ==
    IF ~cfg.guard \/ ~IsActive(i) THEN "free"
    ELSE IF exposure[i] > 0 THEN "open"
    ELSE IF \E w \in Workers : HoldsClaim(w) /\ Sig(w) = i THEN "claimed"
    ELSE "held"

Book == INSTANCE PositionBook WITH book <- [i \in Instruments |-> Entry(i)]

\* Each instrument goes through claim, entry, close and release in that
\* order, one signal at a time, under every interleaving of the workers.
ImplementsBook == Book!BookSpec
=============================================================================
