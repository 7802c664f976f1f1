----------------------------- MODULE TradingDay -----------------------------
(***************************************************************************)
(* What a signal may cost on a trading day: the sizer gets the value the   *)
(* kill switch was last told as its bankroll ("current bankroll in base    *)
(* currency", sizing/kelly.go:14), whatever the day has brought.           *)
(***************************************************************************)
EXTENDS KillSwitchDay, Sizing

CONSTANT Signals

SignalType == [trueProb : Nat, marketProb : Nat, edge : Int, confidence : Nat,
               side : {"BUY", "SELL"}]

ASSUME SignalsAssumption == Signals \subseteq SignalType

OrdersOf(s) == Orders(Request(s, currentValue))

\* What an order pays or gets in dollars, and its shares.
Dollars(s, o) == IF s.side = "BUY" THEN o.makerAmount ELSE o.takerAmount
Shares(s, o) == IF s.side = "BUY" THEN o.takerAmount ELSE o.makerAmount

Abs(n) == IF n < 0 THEN -n ELSE n

\* The definition the sizer must meet, kelly.go:40: "f* = (p*odds - 1) /
\* (odds - 1)", which is (p - m) / (1 - m), scaled and capped.  A size is
\* that part of the bankroll to half a cent: the rounding, which comes after
\* the cap, never costs more.
SizeIsKelly ==
    \A s \in Signals :
        LET size == Size(s, currentValue)
            n == (Believed(s.trueProb) - s.marketProb) * Fraction * Scaled(s.confidence)
            d == (Prob - s.marketProb) * One * One
            capped == MaxPositionPct > 0 /\ n * One > MaxPositionPct * d
        IN  size > 0 =>
                IF capped
                THEN 2 * Abs(size * One - MaxPositionPct * currentValue) <= One
                ELSE 2 * Abs(size * d - n * currentValue) <= d

\* At one price a signal whose believed probability and confidence are no
\* lower is never sized smaller, through the defaults, the cap, the rounding
\* and the minimum bet.  A certain signal is believed at 99%, confidence 0
\* stands for full confidence.
StrongerNeverSmaller ==
    \A s, t \in Signals :
        /\ s.marketProb = t.marketProb
        /\ Believed(s.trueProb) <= Believed(t.trueProb)
        /\ Scaled(s.confidence) <= Scaled(t.confidence)
        => Size(s, currentValue) <= Size(t, currentValue)

\* The same of the probabilities themselves.  The code does not have it: of two
\* signals at a price of 99 cents one of 99.5% is sized, a certain one is not.
LikelierNeverSmaller ==
    \A s, t \in Signals :
        /\ s.marketProb = t.marketProb
        /\ s.trueProb <= t.trueProb
        /\ Scaled(s.confidence) <= Scaled(t.confidence)
        => Size(s, currentValue) <= Size(t, currentValue)

\* Truncation in BuildSimpleOrderV2 never makes an order give more than the
\* decision's size, and moves its price from the limit by less than one unit.
OrderWithinRequest ==
    \A s \in Signals : Approves(s, currentValue) =>
        \A o \in OrdersOf(s) :
            /\ o.makerAmount <= Size(s, currentValue) * Micro
            /\ Abs(Dollars(s, o) * Prob - Shares(s, o) * s.marketProb) <= Prob

\* order/executor.go:19: "Size float64 // position size in base currency": a
\* BUY pays the position's size, to the cent.
BuySpendsSize ==
    \A s \in Signals : s.side = "BUY" /\ Approves(s, currentValue) =>
        \A o \in OrdersOf(s) : Abs(o.makerAmount - Size(s, currentValue) * Micro) <= Micro
=============================================================================
