---------------------------- MODULE PositionBook ----------------------------
(***************************************************************************)
(* What the pipeline promises about each instrument, whatever the number   *)
(* of goroutines: a signal claims a free instrument; the claim becomes one *)
(* order at the market or is dropped; and the instrument can be claimed    *)
(* again only after that order's position ended and the bot released it.   *)
(***************************************************************************)
CONSTANT Instruments

VARIABLE book     \* instrument -> "free", "claimed", "open" or "held"

BookInit == book = [i \in Instruments |-> "free"]

Move(i, from, to) == book[i] = from /\ book' = [book EXCEPT ![i] = to]

Claim(i) == Move(i, "free", "claimed")
Drop(i)  == Move(i, "claimed", "free")
Enter(i) == Move(i, "claimed", "open")
\* The order is over before it was live, but the claim is not given back.
Keep(i)  == Move(i, "claimed", "held")
Close(i) == Move(i, "open", "held")
Free(i)  == Move(i, "held", "free")

BookNext == \E i \in Instruments :
    Claim(i) \/ Drop(i) \/ Enter(i) \/ Keep(i) \/ Close(i) \/ Free(i)

BookSpec == BookInit /\ [][BookNext]_book
=============================================================================
