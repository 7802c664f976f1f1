-------------------------- MODULE TradingDayProofs --------------------------
(***************************************************************************)
(* Proofs about the kill switch and the sizing, for every threshold, every *)
(* set of portfolio values, every sizer and evaluator and any signals.     *)
(***************************************************************************)
EXTENDS TradingDay, TLAPS

LEMMA DayInitType == DayInit => DayTypeOK
  <1> SUFFICES ASSUME DayInit PROVE DayTypeOK
    OBVIOUS
  <1>1. triggered \in BOOLEAN
    BY DEF DayInit, NewKillSwitch
  <1>2. QED
    BY <1>1 DEF DayInit, NewKillSwitch, DayTypeOK

LEMMA ReportType == ASSUME DayTypeOK, NEW v \in PortfolioValues, Report(v) PROVE DayTypeOK'
  <1>1. triggered' \in BOOLEAN
    BY DEF Report, UpdatePortfolioValue, DayTypeOK, Breached
  <1>2. notices' \in Nat
    <2>1. CASE JustTriggered(v)
      BY <2>1 DEF Report, DayTypeOK
    <2>2. CASE ~JustTriggered(v)
      BY <2>2 DEF Report, DayTypeOK
    <2>3. QED
      BY <2>1, <2>2
  <1>3. QED
    BY <1>1, <1>2 DEF Report, UpdatePortfolioValue, DayTypeOK

LEMMA DayNextType == DayTypeOK /\ [DayNext]_dayVars => DayTypeOK'
  <1> SUFFICES ASSUME DayTypeOK, [DayNext]_dayVars PROVE DayTypeOK'
    OBVIOUS
  <1>1. ASSUME NEW v \in PortfolioValues, NewDay(v) PROVE DayTypeOK'
    <2>1. triggered' \in BOOLEAN
      BY <1>1 DEF NewDay, ResetDaily
    <2>2. QED
      BY <1>1, <2>1 DEF NewDay, ResetDaily, DayTypeOK
  <1>2. CASE Halt
    <2>1. triggered' \in BOOLEAN
      BY <1>2 DEF Halt, TriggerSilently
    <2>2. QED
      BY <1>2, <2>1 DEF Halt, TriggerSilently, DayTypeOK
  <1>3. CASE UNCHANGED dayVars
    BY <1>3 DEF dayVars, DayTypeOK
  <1>4. QED
    BY <1>1, <1>2, <1>3, ReportType DEF DayNext

\* The latch is a statement about the lowest value of the day; it is
\* inductive because a new lowest value is the one just tested.
LEMMA LatchStep == DayTypeOK /\ BreachLatched /\ [DayNext]_dayVars => BreachLatched'
  <1> SUFFICES ASSUME DayTypeOK, BreachLatched, [DayNext]_dayVars PROVE BreachLatched'
    OBVIOUS
  <1>1. ASSUME NEW v \in PortfolioValues, Report(v) PROVE BreachLatched'
    <2>1. triggered' <=> (triggered \/ Breached(startOfDayValue, v))
      BY <1>1 DEF Report, UpdatePortfolioValue
    <2>2. startOfDayValue' = startOfDayValue /\ lowest' \in {lowest, v}
      BY <1>1 DEF Report, UpdatePortfolioValue
    <2>3. Breached(startOfDayValue, lowest)' <=> Breached(startOfDayValue, lowest')
      BY <2>2 DEF Breached
    <2>4. QED
      BY <2>1, <2>2, <2>3 DEF BreachLatched
  <1>2. ASSUME NEW v \in PortfolioValues, NewDay(v) PROVE BreachLatched'
    <2>1. v \in Int
      BY PortfolioAssumption
    <2>2. ~Breached(v, v)
      <3>1. SUFFICES ASSUME v > 0 PROVE ~(100 * (v - v) >= MaxDrawdownPct * v)
        BY DEF Breached
      <3>2. MaxDrawdownPct * v > 0
        BY <2>1, <3>1, MaxDrawdownAssumption
      <3>3. QED
        BY <2>1, <3>2, MaxDrawdownAssumption
    <2>3. QED
      BY <1>2, <2>2 DEF NewDay, ResetDaily, BreachLatched, Breached
  <1>3. CASE Halt
    BY <1>3 DEF Halt, TriggerSilently, BreachLatched
  <1>4. CASE UNCHANGED dayVars
    BY <1>4 DEF dayVars, BreachLatched, Breached
  <1>5. QED
    BY <1>1, <1>2, <1>3, <1>4 DEF DayNext

LEMMA LatchInit == DayInit => BreachLatched
  <1> SUFFICES ASSUME DayInit PROVE BreachLatched
    OBVIOUS
  <1>1. PICK v \in PortfolioValues : v > 0 /\ startOfDayValue = v /\ lowest = v
    BY DEF DayInit, NewKillSwitch
  <1>2. v \in Int
    BY PortfolioAssumption
  <1>3. MaxDrawdownPct * v > 0 /\ 100 * (v - v) = 0
    BY <1>1, <1>2, MaxDrawdownAssumption
  <1>4. ~(100 * (v - v) >= MaxDrawdownPct * v)
    BY <1>2, <1>3, MaxDrawdownAssumption
  <1>5. QED
    BY <1>1, <1>4 DEF BreachLatched, Breached

\* A breach seen at any time of the day keeps trading halted until ResetDaily.
THEOREM BreachStaysLatched == DaySpec => []BreachLatched
  BY DayInitType, DayNextType, LatchInit, LatchStep, PTL DEF DaySpec

LEMMA NoticeStep == DayTypeOK /\ OneNotice /\ [DayNext]_dayVars => OneNotice'
  <1> SUFFICES ASSUME DayTypeOK, OneNotice, [DayNext]_dayVars PROVE OneNotice'
    OBVIOUS
  <1>1. ASSUME NEW v \in PortfolioValues, Report(v) PROVE OneNotice'
    <2>1. triggered' <=> (triggered \/ Breached(startOfDayValue, v))
      BY <1>1 DEF Report, UpdatePortfolioValue
    <2>2. CASE JustTriggered(v)
      <3>1. ~triggered /\ triggered'
        BY <2>1, <2>2 DEF JustTriggered
      <3>2. notices = 0
        BY <3>1 DEF OneNotice, DayTypeOK
      <3>3. notices' = 1
        BY <1>1, <2>2, <3>2 DEF Report
      <3>4. QED
        BY <3>1, <3>3 DEF OneNotice
    <2>3. CASE ~JustTriggered(v)
      BY <1>1, <2>1, <2>3 DEF Report, OneNotice
    <2>4. QED
      BY <2>2, <2>3
  <1>2. ASSUME NEW v \in PortfolioValues, NewDay(v) PROVE OneNotice'
    BY <1>2 DEF NewDay, OneNotice
  <1>3. CASE Halt
    BY <1>3 DEF Halt, TriggerSilently, OneNotice
  <1>4. CASE UNCHANGED dayVars
    BY <1>4 DEF dayVars, OneNotice
  <1>5. QED
    BY <1>1, <1>2, <1>3, <1>4 DEF DayNext

\* UpdatePortfolioValue reports a trip at most once per day.
THEOREM TripReportedOnce == DaySpec => []OneNotice
  <1>1. DayInit => OneNotice
    BY DEF DayInit, OneNotice
  <1>2. QED
    BY <1>1, DayInitType, DayNextType, NoticeStep, PTL DEF DaySpec

-----------------------------------------------------------------------------
(* The ramp of RiskMultiplier.                                             *)

LowestIsLow == lowest <= currentValue

LEMMA LowestStep == DayTypeOK /\ LowestIsLow /\ [DayNext]_dayVars => LowestIsLow'
  <1> SUFFICES ASSUME DayTypeOK, LowestIsLow, [DayNext]_dayVars PROVE LowestIsLow'
    OBVIOUS
  <1>1. {lowest, currentValue} \subseteq Int /\ PortfolioValues \subseteq Int
    BY PortfolioAssumption DEF DayTypeOK
  <1>2. ASSUME NEW v \in PortfolioValues, Report(v) PROVE LowestIsLow'
    BY <1>1, <1>2 DEF Report, UpdatePortfolioValue, LowestIsLow
  <1>3. ASSUME NEW v \in PortfolioValues, NewDay(v) PROVE LowestIsLow'
    BY <1>1, <1>3 DEF NewDay, ResetDaily, LowestIsLow
  <1>4. CASE Halt \/ UNCHANGED dayVars
    BY <1>4 DEF Halt, TriggerSilently, dayVars, LowestIsLow
  <1>5. QED
    BY <1>2, <1>3, <1>4 DEF DayNext

\* RiskMultiplier with its cases in order, for a ramp of the given width.
Ramp(full, start, v) ==
    IF start <= 0 THEN 1
    ELSE IF v >= start \/ 200 * (start - v) <= full THEN full
    ELSE IF 100 * (start - v) >= full THEN 0
    ELSE 2 * (full - 100 * (start - v))

LEMMA RampCases ==
  ASSUME NEW start \in Int
  PROVE  \E full \in Int :
            /\ start > 0 => full > 0
            /\ \A v \in Int : /\ RiskMultiplier(start, v) = Ramp(full, start, v)
                              /\ Breached(start, v) <=> start > 0 /\ 100 * (start - v) >= full
  <1> DEFINE full == MaxDrawdownPct * start
  <1>1. full \in Int /\ (start > 0 => full > 0)
    BY MaxDrawdownAssumption
  <1>2. RampUnit(start) = IF start > 0 THEN full ELSE 1
    BY DEF RampUnit
  <1>3. ASSUME NEW v \in Int
        PROVE  /\ RiskMultiplier(start, v) = Ramp(full, start, v)
               /\ Breached(start, v) <=> start > 0 /\ 100 * (start - v) >= full
    <2>1. Breached(start, v) <=> start > 0 /\ 100 * (start - v) >= full
      BY DEF Breached
    <2>2. CASE start <= 0
      BY <1>1, <1>2, <2>1, <2>2 DEF RiskMultiplier, Ramp
    <2>3. CASE start > 0 /\ (v >= start \/ 200 * (start - v) <= full)
      BY <1>1, <1>2, <2>1, <2>3 DEF RiskMultiplier, Ramp
    <2>4. CASE start > 0 /\ v < start /\ 200 * (start - v) > full /\ 100 * (start - v) >= full
      BY <1>1, <1>2, <2>1, <2>4 DEF RiskMultiplier, Ramp
    <2>5. CASE start > 0 /\ v < start /\ 200 * (start - v) > full /\ 100 * (start - v) < full
      BY <1>1, <1>2, <2>1, <2>5 DEF RiskMultiplier, Ramp
    <2>6. QED
      BY <1>1, <2>2, <2>3, <2>4, <2>5
  <1> HIDE DEF full
  <1>4. QED
    BY <1>1, <1>3

LEMMA RampIsGradual ==
  ASSUME NEW start \in Int, NEW v \in Int, NEW w \in Int, v <= w
  PROVE  LET drop == RiskMultiplier(start, w) - RiskMultiplier(start, v)
         IN  0 <= drop /\ drop <= 200 * (w - v)
  BY RampCases DEF Ramp

\* A zero multiplier means a breach.
LEMMA ZeroIsBreach ==
  ASSUME NEW start \in Int, NEW v \in Int, RiskMultiplier(start, v) = 0
  PROVE  Breached(start, v)
  BY RampCases DEF Ramp

LEMMA BreachGoesDown ==
  ASSUME NEW start \in Int, NEW v \in Int, NEW w \in Int, v <= w, Breached(start, w)
  PROVE  Breached(start, v)
  BY RampCases

\* A signal's multiplier falls by at most the ramp's slope with each unit the
\* portfolio loses, and reaches zero only where UpdatePortfolioValue has
\* tripped the switch: sizing never stops trading on its own.
THEOREM RampNeverJumps == DaySpec => []GradualRamp
  <1>1. DayInit => LowestIsLow
    BY PortfolioAssumption DEF DayInit, NewKillSwitch, LowestIsLow
  <1>2. ASSUME DayTypeOK, BreachLatched, LowestIsLow PROVE GradualRamp
    <2>1. /\ {lowest, currentValue, startOfDayValue} \subseteq Int
          /\ PortfolioValues \subseteq Int
      BY <1>2, PortfolioAssumption DEF DayTypeOK
    <2>2. ASSUME NEW v \in PortfolioValues, v <= currentValue
          PROVE  LET drop == RiskMultiplier(startOfDayValue, currentValue)
                               - RiskMultiplier(startOfDayValue, v)
                 IN  0 <= drop /\ drop <= 200 * (currentValue - v)
      BY <2>1, <2>2, RampIsGradual
    <2>3. ASSUME RiskMultiplier(startOfDayValue, currentValue) = 0 PROVE triggered
      <3>1. Breached(startOfDayValue, currentValue)
        BY <2>1, <2>3, ZeroIsBreach
      <3>2. Breached(startOfDayValue, lowest)
        BY <1>2, <2>1, <3>1, BreachGoesDown DEF LowestIsLow
      <3>3. QED
        BY <1>2, <3>2 DEF BreachLatched
    <2>4. QED
      BY <2>2, <2>3 DEF GradualRamp
  <1>3. DayTypeOK /\ BreachLatched /\ LowestIsLow => GradualRamp
    BY <1>2
  <1>4. QED
    BY <1>1, <1>3, DayInitType, DayNextType, LatchInit, LatchStep, LowestStep, PTL DEF DaySpec

-----------------------------------------------------------------------------
(* Rounding, and the size of a signal.                                     *)

LEMMA RoundDivBounds ==
  ASSUME NEW n \in Int, NEW d \in Nat \ {0}
  PROVE  /\ RoundDiv(n, d) \in Int
         /\ 2 * (d * RoundDiv(n, d)) <= 2 * n + d
         /\ 2 * n + d < 2 * (d * RoundDiv(n, d)) + 2 * d
  BY Z3 DEF RoundDiv

\* A larger quotient is rounded to a larger number.
LEMMA RoundDivMonotone ==
  ASSUME NEW m \in Int, NEW c \in Nat \ {0}, NEW n \in Int, NEW d \in Nat \ {0},
         m * d <= n * c
  PROVE  RoundDiv(m, c) <= RoundDiv(n, d)
  <1> DEFINE p == RoundDiv(m, c)
             q == RoundDiv(n, d)
  <1>1. p \in Int /\ 2 * (c * p) <= 2 * m + c
    BY RoundDivBounds
  <1>2. q \in Int /\ 2 * n + d < 2 * (d * q) + 2 * d
    BY RoundDivBounds
  <1> HIDE DEF p, q
  <1>3. d * (2 * (c * p)) <= d * (2 * m + c)
    BY <1>1
  <1>4. c * (2 * n + d) < c * (2 * (d * q) + 2 * d)
    BY <1>2
  <1>5. (2 * c * d) * p < (2 * c * d) * (q + 1)
    BY <1>1, <1>2, <1>3, <1>4
  <1>6. p < q + 1
    <2>1. 2 * c * d \in Nat \ {0}
      OBVIOUS
    <2>2. SUFFICES ASSUME q + 1 <= p PROVE FALSE
      BY <1>1, <1>2
    <2>3. (2 * c * d) * (q + 1) <= (2 * c * d) * p
      BY <1>1, <1>2, <2>1, <2>2
    <2>4. QED
      BY <1>1, <1>2, <1>5, <2>1, <2>3
  <1>7. QED
    BY <1>1, <1>2, <1>6 DEF p, q

\* b*p - q is p - m, in half percents: the division by Prob leaves no remainder.
LEMMA KellyEdgeIs ==
  ASSUME NEW p \in Int, NEW m \in Int
  PROVE  KellyEdge(p, m) = p - m
  <1>1. (Prob - m) * p - m * (Prob - p) = 200 * (p - m)
    BY DEF Prob
  <1>2. (200 * (p - m)) \div 200 = p - m
    OBVIOUS
  <1>3. QED
    BY <1>1, <1>2 DEF KellyEdge, Prob

\* The scaled edge of a signal, the unit it is counted in, and the size before
\* the minimum bet.
Stake(s) == (Believed(s.trueProb) - s.marketProb) * Fraction * Scaled(s.confidence)
StakeUnit(s) == (Prob - s.marketProb) * One * One
Capped(s) == MaxPositionPct > 0 /\ Stake(s) * One > MaxPositionPct * StakeUnit(s)

LEMMA SizeOfStake ==
  ASSUME NEW s \in SignalType, NEW bankroll \in Int
  PROVE  /\ Stake(s) \in Int /\ StakeUnit(s) \in Int
         /\ RoundedSize(s, bankroll) =
                IF Stake(s) <= 0 THEN 0
                ELSE IF Capped(s) THEN RoundDiv(MaxPositionPct * bankroll, One)
                ELSE RoundDiv(Stake(s) * bankroll, StakeUnit(s))
  <1>1. s.trueProb \in Nat /\ s.marketProb \in Nat /\ s.confidence \in Nat
    BY DEF SignalType
  <1>2. Believed(s.trueProb) \in Int /\ Scaled(s.confidence) \in Int
    BY <1>1 DEF Believed, Scaled, One, Prob
  <1>3. KellyEdge(Believed(s.trueProb), s.marketProb) = Believed(s.trueProb) - s.marketProb
    <2>1. PICK p \in Int, m \in Int : p = Believed(s.trueProb) /\ m = s.marketProb
      BY <1>1, <1>2
    <2>2. KellyEdge(p, m) = p - m
      BY KellyEdgeIs
    <2>3. QED
      BY <2>1, <2>2
  <1>4. Fraction \in Int
    BY SizingAssumption DEF SizingAssumption, One
  <1>5. Stake(s) \in Int /\ StakeUnit(s) \in Int
    BY <1>1, <1>2, <1>4 DEF Stake, StakeUnit, One, Prob
  <1>6. KellyEdge(Believed(s.trueProb), s.marketProb) * Fraction * Scaled(s.confidence) = Stake(s)
    BY <1>3 DEF Stake
  <1>7. QED
    BY <1>5, <1>6 DEF RoundedSize, Capped, StakeUnit

\* A signal that is sized has an edge at a price between 0 and 1.
LEMMA SizedHasEdge ==
  ASSUME NEW s, NEW bankroll, Size(s, bankroll) # 0
  PROVE  HasEdge(s, bankroll) /\ Size(s, bankroll) = RoundedSize(s, bankroll)
  BY DEF Size

LEMMA UnitIsPositive ==
  ASSUME NEW s \in SignalType, NEW bankroll \in Int, HasEdge(s, bankroll)
  PROVE  StakeUnit(s) \in Nat \ {0} /\ bankroll > 0 /\ s.marketProb \in 1..199
  BY DEF SignalType, HasEdge, StakeUnit, One, Prob

LEMMA RoundedSizeIsInt ==
  ASSUME NEW s \in SignalType, NEW bankroll \in Int, HasEdge(s, bankroll)
  PROVE  RoundedSize(s, bankroll) \in Int
  <1>1. /\ StakeUnit(s) \in Nat \ {0} /\ Stake(s) \in Int
        /\ MaxPositionPct \in Int /\ One \in Nat \ {0}
    BY UnitIsPositive, SizeOfStake, SizingAssumption DEF SizingAssumption, One
  <1>2. MaxPositionPct * bankroll \in Int /\ Stake(s) * bankroll \in Int
    BY <1>1
  <1>3. /\ RoundDiv(MaxPositionPct * bankroll, One) \in Int
        /\ RoundDiv(Stake(s) * bankroll, StakeUnit(s)) \in Int
    BY <1>1, <1>2, RoundDivBounds
  <1>4. QED
    BY <1>3, SizeOfStake

\* kelly.go:40: whatever the parameters, a size is the Kelly share of the
\* bankroll, scaled by fraction and confidence, or the cap, to half a cent.
THEOREM SizeIsAlwaysKelly == DaySpec => []SizeIsKelly
  <1>1. ASSUME DayTypeOK PROVE SizeIsKelly
    <2>1. SUFFICES ASSUME NEW s \in Signals, Size(s, currentValue) > 0
                   PROVE  LET size == Size(s, currentValue)
                          IN  IF Capped(s)
                              THEN 2 * Abs(size * One - MaxPositionPct * currentValue) <= One
                              ELSE 2 * Abs(size * StakeUnit(s) - Stake(s) * currentValue) <= StakeUnit(s)
      BY DEF SizeIsKelly, Capped, Stake, StakeUnit
    <2>2. s \in SignalType /\ currentValue \in Int /\ MaxPositionPct \in Int
      BY <1>1, <2>1, SignalsAssumption, PortfolioAssumption, SizingAssumption
         DEF DayTypeOK, SizingAssumption, One
    <2> DEFINE size == Size(s, currentValue)
    <2>3. HasEdge(s, currentValue) /\ size = RoundedSize(s, currentValue)
      BY <2>1, SizedHasEdge
    <2>4. StakeUnit(s) \in Nat \ {0} /\ Stake(s) \in Int
      BY <2>2, <2>3, UnitIsPositive, SizeOfStake
    <2>5. size = IF Capped(s) THEN RoundDiv(MaxPositionPct * currentValue, One)
                 ELSE RoundDiv(Stake(s) * currentValue, StakeUnit(s))
      BY <2>1, <2>2, <2>3, SizeOfStake
    <2> HIDE DEF size
    <2>6. CASE Capped(s)
      <3>1. MaxPositionPct * currentValue \in Int /\ One \in Nat \ {0}
        BY <2>2 DEF One
      <3>2. /\ size \in Int
            /\ 2 * (One * size) <= 2 * (MaxPositionPct * currentValue) + One
            /\ 2 * (MaxPositionPct * currentValue) + One < 2 * (One * size) + 2 * One
        BY <2>5, <2>6, <3>1, RoundDivBounds
      <3> DEFINE capital == MaxPositionPct * currentValue
      <3>3. capital \in Int
        BY <3>1
      <3> HIDE DEF capital
      <3>4. 2 * Abs(size * One - capital) <= One
        BY <3>2, <3>3 DEF Abs, One, capital
      <3>5. QED
        BY <2>6, <3>4 DEF size, capital
    <2>7. CASE ~Capped(s)
      <3> DEFINE share == Stake(s) * currentValue
                 unit == StakeUnit(s)
                 product == unit * size
      <3>1. share \in Int /\ unit \in Nat \ {0}
        BY <2>2, <2>4
      <3>2. /\ size \in Int
            /\ 2 * (unit * size) <= 2 * share + unit
            /\ 2 * share + unit < 2 * (unit * size) + 2 * unit
        BY <2>5, <2>7, <3>1, RoundDivBounds
      <3>3. product \in Int /\ size * unit = product
        BY <3>1, <3>2
      <3> HIDE DEF share, unit, product
      <3>4. 2 * product <= 2 * share + unit /\ 2 * share + unit < 2 * product + 2 * unit
        BY <3>2 DEF product
      <3>5. 2 * Abs(product - share) <= unit
        BY <3>1, <3>3, <3>4 DEF Abs
      <3>6. QED
        BY <2>7, <3>3, <3>5 DEF size, share, unit
    <2>8. QED
      BY <2>6, <2>7
  <1>2. DayTypeOK => SizeIsKelly
    BY <1>1
  <1>3. QED
    BY <1>2, DayInitType, DayNextType, PTL DEF DaySpec

\* A stake takes a believed edge, and a believed edge is one.
LEMMA StakeIsEdge ==
  ASSUME NEW s \in SignalType, Stake(s) > 0
  PROVE  Believed(s.trueProb) - s.marketProb > 0 /\ s.trueProb > s.marketProb
  <1> DEFINE a == Believed(s.trueProb) - s.marketProb
             c == Scaled(s.confidence)
  <1>1. a \in Int /\ a <= s.trueProb - s.marketProb
    BY DEF SignalType, Believed, Prob
  <1>2. c \in Nat /\ Fraction \in Nat
    BY SizingAssumption DEF SignalType, Scaled, One, SizingAssumption
  <1> HIDE DEF a, c
  <1>3. a * Fraction * c > 0
    BY DEF Stake, a, c
  <1>4. a > 0
    <2>1. SUFFICES ASSUME a <= 0 PROVE FALSE
      BY <1>1
    <2>2. a * Fraction <= 0 /\ a * Fraction \in Int
      BY <1>1, <1>2, <2>1
    <2>3. (a * Fraction) * c <= 0
      BY <1>2, <2>2
    <2>4. QED
      BY <1>1, <1>2, <1>3, <2>3
  <1>5. QED
    BY <1>1, <1>4 DEF a, SignalType

\* At one price more believed edge and more confidence make a larger stake.
LEMMA StakeGrows ==
  ASSUME NEW s \in SignalType, NEW t \in SignalType, NEW bankroll \in Int, Stake(s) > 0,
         s.marketProb = t.marketProb, Believed(s.trueProb) <= Believed(t.trueProb),
         Scaled(s.confidence) <= Scaled(t.confidence)
  PROVE  0 <= Stake(s) /\ Stake(s) <= Stake(t)
  <1> DEFINE a == Believed(s.trueProb) - s.marketProb
             b == Believed(t.trueProb) - t.marketProb
             c == Scaled(s.confidence)
             d == Scaled(t.confidence)
  <1>1. a \in Nat /\ b \in Nat /\ a <= b
    <2>1. a \in Int /\ b \in Int /\ a <= b
      BY DEF SignalType, Believed, Prob
    <2>2. a > 0
      BY StakeIsEdge
    <2>3. QED
      BY <2>1, <2>2
  <1>2. c \in Nat /\ d \in Nat /\ c <= d
    BY DEF SignalType, Scaled, One
  <1>3. Fraction \in Nat
    BY SizingAssumption DEF SizingAssumption, One
  <1> HIDE DEF a, b, c, d
  <1>4. a * Fraction \in Nat /\ b * Fraction \in Nat /\ a * Fraction <= b * Fraction
    BY <1>1, <1>3
  <1>5. \A x, y \in Nat : x <= y => 0 <= x * c /\ x * c <= y * c /\ y * c <= y * d
    BY <1>2
  <1>6. 0 <= a * Fraction * c /\ a * Fraction * c <= b * Fraction * d
    <2>1. 0 <= (a * Fraction) * c /\ (a * Fraction) * c <= (b * Fraction) * c
                                  /\ (b * Fraction) * c <= (b * Fraction) * d
      BY <1>4, <1>5
    <2>2. (a * Fraction) * c \in Int /\ (b * Fraction) * c \in Int /\ (b * Fraction) * d \in Int
      BY <1>2, <1>4
    <2>3. QED
      BY <2>1, <2>2
  <1>7. QED
    BY <1>6 DEF Stake, a, b, c, d

\* The size before the minimum bet grows with the stake, through the cap.
LEMMA RoundedSizeGrows ==
  ASSUME NEW s \in SignalType, NEW t \in SignalType, NEW bankroll \in Int,
         HasEdge(s, bankroll), HasEdge(t, bankroll),
         s.marketProb = t.marketProb, Believed(s.trueProb) <= Believed(t.trueProb),
         Scaled(s.confidence) <= Scaled(t.confidence), Stake(s) > 0
  PROVE  RoundedSize(s, bankroll) <= RoundedSize(t, bankroll)
  <1> DEFINE m == Stake(s)
             n == Stake(t)
             unit == StakeUnit(s)
             cap == MaxPositionPct
  <1>1. m <= n /\ m \in Int /\ n \in Int /\ 0 < m /\ 0 < n
    BY StakeGrows, SizeOfStake
  <1>2. StakeUnit(t) = unit /\ unit \in Nat \ {0} /\ bankroll > 0
    BY UnitIsPositive DEF StakeUnit
  <1>3. cap \in Nat /\ One = 100
    BY SizingAssumption DEF SizingAssumption, One
  <1>4. /\ Capped(s) <=> cap > 0 /\ m * 100 > cap * unit
        /\ Capped(t) <=> cap > 0 /\ n * 100 > cap * unit
    BY <1>2, <1>3 DEF Capped
  <1>5. /\ RoundedSize(s, bankroll) = IF Capped(s) THEN RoundDiv(cap * bankroll, One)
                                      ELSE RoundDiv(m * bankroll, unit)
        /\ RoundedSize(t, bankroll) = IF Capped(t) THEN RoundDiv(cap * bankroll, One)
                                      ELSE RoundDiv(n * bankroll, unit)
    BY <1>1, <1>2, SizeOfStake
  <1> HIDE DEF m, n, unit, cap
  <1>6. m * bankroll \in Int /\ n * bankroll \in Int /\ cap * bankroll \in Int /\ cap * unit \in Int
    BY <1>1, <1>2, <1>3
  <1>7. CASE Capped(s)
    <2>1. RoundedSize(t, bankroll) = RoundDiv(cap * bankroll, One)
      BY <1>1, <1>4, <1>5, <1>6, <1>7
    <2>2. RoundDiv(cap * bankroll, One) \in Int
      BY <1>3, <1>6, RoundDivBounds
    <2>3. QED
      BY <1>5, <1>7, <2>1, <2>2
  <1>8. CASE ~Capped(s) /\ ~Capped(t)
    <2>1. (m * bankroll) * unit <= (n * bankroll) * unit
      <3>1. m * bankroll <= n * bankroll
        BY <1>1, <1>2
      <3>2. QED
        BY <1>2, <1>6, <3>1
    <2>2. QED
      BY <1>2, <1>5, <1>6, <1>8, <2>1, RoundDivMonotone
  <1>9. CASE ~Capped(s) /\ Capped(t)
    <2>1. m * 100 <= cap * unit
      BY <1>1, <1>4, <1>6, <1>9
    <2>2. (m * bankroll) * 100 <= (cap * bankroll) * unit
      <3>1. bankroll * (m * 100) <= bankroll * (cap * unit)
        BY <1>1, <1>2, <1>6, <2>1
      <3>2. bankroll * (m * 100) = (m * bankroll) * 100
        BY <1>1
      <3>3. bankroll * (cap * unit) = (cap * bankroll) * unit
        BY <1>2, <1>3
      <3>4. QED
        BY <3>1, <3>2, <3>3
    <2>3. QED
      BY <1>2, <1>3, <1>5, <1>6, <1>9, <2>2, RoundDivMonotone
  <1>10. QED
    BY <1>7, <1>8, <1>9

\* kelly.go:42-88: through the default confidence, the cap, the rounding and the
\* minimum bet, a signal at the same price that is believed at least as likely,
\* with at least the confidence, is never sized smaller.  A certain signal is
\* believed at 99%; without that proviso the sizes of signals above 99% are out
\* of order.
THEOREM StrongerSignalsPayOff == DaySpec => []StrongerNeverSmaller
  <1>1. ASSUME DayTypeOK PROVE StrongerNeverSmaller
    <2>1. SUFFICES ASSUME NEW s \in Signals, NEW t \in Signals,
                          s.marketProb = t.marketProb, Believed(s.trueProb) <= Believed(t.trueProb),
                          Scaled(s.confidence) <= Scaled(t.confidence)
                   PROVE  Size(s, currentValue) <= Size(t, currentValue)
      BY DEF StrongerNeverSmaller
    <2>2. s \in SignalType /\ t \in SignalType /\ currentValue \in Int /\ MinBetSize \in Nat
      BY <1>1, <2>1, SignalsAssumption, PortfolioAssumption, SizingAssumption
         DEF DayTypeOK, SizingAssumption
    <2>3. \A x \in SignalType : HasEdge(x, currentValue) => RoundedSize(x, currentValue) \in Int
      BY <2>2, RoundedSizeIsInt
    <2>4. Size(t, currentValue) \in Int /\ Size(t, currentValue) >= 0
      BY <2>2, <2>3 DEF Size
    <2>5. CASE Size(s, currentValue) = 0
      BY <2>4, <2>5
    <2>6. CASE Size(s, currentValue) # 0
      <3>1. HasEdge(s, currentValue) /\ Size(s, currentValue) = RoundedSize(s, currentValue)
            /\ ~(RoundedSize(s, currentValue) < MinBetSize)
        BY <2>6 DEF Size
      <3>2. Stake(s) > 0
        <4>1. Stake(s) \in Int /\ (Stake(s) <= 0 => RoundedSize(s, currentValue) = 0)
          BY <2>2, SizeOfStake
        <4>2. QED
          BY <2>6, <3>1, <4>1
      <3>3. HasEdge(t, currentValue)
        <4>1. Stake(t) \in Int /\ Stake(t) > 0
          BY <2>1, <2>2, <3>2, StakeGrows, SizeOfStake
        <4>2. t.trueProb > t.marketProb
          BY <2>2, <4>1, StakeIsEdge
        <4>3. QED
          BY <2>1, <2>2, <3>1, <4>2 DEF HasEdge, SignalType
      <3>4. RoundedSize(s, currentValue) <= RoundedSize(t, currentValue)
        BY <2>1, <2>2, <3>1, <3>2, <3>3, RoundedSizeGrows
      <3>5. Size(t, currentValue) = RoundedSize(t, currentValue)
        BY <2>2, <2>3, <3>1, <3>3, <3>4 DEF Size
      <3>6. QED
        BY <3>1, <3>4, <3>5
    <2>7. QED
      BY <2>5, <2>6
  <1>2. DayTypeOK => StrongerNeverSmaller
    BY <1>1
  <1>3. QED
    BY <1>2, DayInitType, DayNextType, PTL DEF DaySpec

-----------------------------------------------------------------------------
(* From the decision to the amounts of the order.                          *)

\* BuildSimpleOrderV2 truncates products that may have lost a unit: an order of
\* an approved signal still never gives more than the decision's size, and its
\* price is within a unit of the signal's.
THEOREM OrdersStayWithinSize == DaySpec => []OrderWithinRequest
  <1>1. ASSUME DayTypeOK PROVE OrderWithinRequest
    <2>1. SUFFICES ASSUME NEW s \in Signals, Approves(s, currentValue), NEW o \in OrdersOf(s)
                   PROVE  /\ o.makerAmount <= Size(s, currentValue) * Micro
                          /\ Abs(Dollars(s, o) * Prob - Shares(s, o) * s.marketProb) <= Prob
      BY DEF OrderWithinRequest
    <2>2. s \in SignalType /\ currentValue \in Int
      BY <1>1, <2>1, SignalsAssumption, PortfolioAssumption DEF DayTypeOK
    <2> DEFINE size == Size(s, currentValue)
               price == s.marketProb
    <2>3. size > 0 /\ HasEdge(s, currentValue) /\ size = RoundedSize(s, currentValue)
      BY <2>1, SizedHasEdge DEF Approves
    <2>4. price \in 1..199
      BY <2>2, <2>3, UnitIsPositive
    <2>5. size \in Int
      BY <2>2, <2>3, RoundedSizeIsInt
    <2>6. PICK d \in Truncated(size * price * 50), n \in Truncated(size * 10000) :
             o = IF s.side = "BUY" THEN [makerAmount |-> d, takerAmount |-> n]
                 ELSE [makerAmount |-> n, takerAmount |-> d]
      <3>1. 10000 \div 200 = 50
        OBVIOUS
      <3>2. OrdersOf(s) = IF s.side = "BUY"
                          THEN {[makerAmount |-> d, takerAmount |-> n] :
                                   d \in Truncated(size * price * 50), n \in Truncated(size * 10000)}
                          ELSE {[makerAmount |-> n, takerAmount |-> d] :
                                   d \in Truncated(size * price * 50), n \in Truncated(size * 10000)}
        BY <3>1 DEF OrdersOf, Orders, Request, Micro, Prob
      <3>3. QED
        BY <2>1, <3>2
    <2>7. Dollars(s, o) = d /\ Shares(s, o) = n /\ o.makerAmount \in {d, n}
      BY <2>6 DEF Dollars, Shares
    <2>8. o.makerAmount = n \/ o.makerAmount = d
      BY <2>7
    <2> HIDE DEF size, price
    <2> DEFINE cost == size * price
    <2>9. cost \in Int /\ 0 <= cost /\ cost <= size * 199
      BY <2>3, <2>4, <2>5
    <2>10. size * price * 50 = cost * 50
      OBVIOUS
    <2>11. d \in {cost * 50, cost * 50 - 1} /\ n \in {size * 10000, size * 10000 - 1}
      BY <2>6, <2>10 DEF Truncated
    <2>12. n * price \in {cost * 10000, cost * 10000 - price}
      BY <2>4, <2>5, <2>11
    <2> HIDE DEF cost
    <2>13. d <= size * 10000 /\ n <= size * 10000
      BY <2>3, <2>5, <2>9, <2>11
    <2>14. Abs(d * 200 - n * price) <= 200
      BY <2>4, <2>9, <2>11, <2>12 DEF Abs
    <2>15. QED
      BY <2>7, <2>8, <2>13, <2>14 DEF Micro, Prob, size, price
  <1>2. DayTypeOK => OrderWithinRequest
    BY <1>1
  <1>3. QED
    BY <1>2, DayInitType, DayNextType, PTL DEF DaySpec
=============================================================================
