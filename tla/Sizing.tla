------------------------------- MODULE Sizing -------------------------------
(***************************************************************************)
(* From a signal to the amounts of a signed order: the Kelly sizer         *)
(* (sizing/kelly.go), the example bot's evaluator, the request the         *)
(* pipeline builds from its decision, and BuildSimpleOrderV2.  All of it   *)
(* is pure.  Probabilities and prices are in half percents, fractions and  *)
(* confidences in percents, money is in cents, and an order's amounts are  *)
(* in the millionths of a dollar or of a share that the exchange counts.   *)
(***************************************************************************)
EXTENDS Integers

CONSTANTS
    Fraction,         \* Kelly fraction
    MaxPositionPct,   \* largest position, of the bankroll; 0 for no cap
    MinBetSize,
    MinEdge,          \* thresholds of the evaluator
    MinConfidence

One == 100
Prob == 200      \* a probability of 1, or a price of a dollar

ASSUME SizingAssumption ==
    /\ {Fraction, MaxPositionPct} \subseteq 0..One
    /\ {MinBetSize, MinConfidence} \subseteq Nat
    /\ MinEdge \in Int

-----------------------------------------------------------------------------
(* KellySizer.Size.                                                        *)

RefusesCertainty(s, bankroll) ==       \* mutant: a probability of 1 is an error
    /\ 0 < s.marketProb /\ s.marketProb < s.trueProb /\ s.trueProb < Prob
    /\ bankroll > 0

\* The early returns for parameters without an edge or out of range.
HasEdge(s, bankroll) ==
    /\ 0 < s.marketProb /\ s.marketProb < Prob
    /\ s.marketProb < s.trueProb
    /\ bankroll > 0

\* A certain bet is treated as one of 99%, to keep q > 0; one between 99% and
\* certainty is taken as it is.
Believed(trueProb) == IF trueProb >= Prob THEN 99 * (Prob \div 100) ELSE trueProb

\* b*p - q, for b = (Prob - m) / m, as a fraction of Prob / m.
KellyEdge(p, m) == ((Prob - m) * p - m * (Prob - p)) \div Prob

Scaled(confidence) == IF confidence <= 0 THEN One ELSE confidence

RoundDiv(n, d) == (2 * n + d) \div (2 * d)

UncappedSize(s, bankroll) ==           \* mutant: the cap is forgotten
    LET n == KellyEdge(Believed(s.trueProb), s.marketProb) * Fraction * Scaled(s.confidence)
    IN  IF n <= 0 THEN 0 ELSE RoundDiv(n * bankroll, (Prob - s.marketProb) * One * One)

\* The share (b*p - q) / b, scaled, of the bankroll or its cap, rounded to cents.
RoundedSize(s, bankroll) ==
    LET n == KellyEdge(Believed(s.trueProb), s.marketProb) * Fraction * Scaled(s.confidence)
        d == (Prob - s.marketProb) * One * One
        capped == MaxPositionPct > 0 /\ n * One > MaxPositionPct * d
    IN  IF n <= 0 THEN 0
        ELSE IF capped THEN RoundDiv(MaxPositionPct * bankroll, One)
        ELSE RoundDiv(n * bankroll, d)

Size(s, bankroll) ==
    LET size == RoundedSize(s, bankroll)
    IN  IF ~HasEdge(s, bankroll) \/ size < MinBetSize THEN 0 ELSE size

-----------------------------------------------------------------------------
(* From the decision to the order.                                         *)

\* WeatherEvaluator.Evaluate: the signal's Edge and Confidence are fields of
\* their own, which nothing ties to the probabilities.
Approves(s, bankroll) ==
    /\ s.edge >= MinEdge
    /\ s.confidence >= MinConfidence
    /\ Size(s, bankroll) > 0

\* processSignal: Price is the signal's MarketProb, Size the decision's.
Request(s, bankroll) ==
    [side |-> s.side, price |-> s.marketProb, size |-> Size(s, bankroll)]

Micro == 10000     \* millionths in a cent or in a hundredth of a share

RoundedUp(n) == {n, n + 1}             \* mutant: math.Ceil

\* int64 of a float64 product: the product of two decimals may come out just
\* below an integer (2.01 * 1e6 is 2009999.9999999998) and lose a unit.
Truncated(n) == {n, n - 1} \cap Nat

\* BuildSimpleOrderV2: a BUY pays size * price dollars for size shares; every
\* other side gives size shares for size * price dollars.
Orders(r) ==
    LET dollars == Truncated(r.size * r.price * (Micro \div Prob))
        shares  == Truncated(r.size * Micro)
    IN  IF r.side = "BUY"
        THEN {[makerAmount |-> d, takerAmount |-> n] : d \in dollars, n \in shares}
        ELSE {[makerAmount |-> n, takerAmount |-> d] : d \in dollars, n \in shares}
=============================================================================
