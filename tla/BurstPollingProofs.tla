------------------------- MODULE BurstPollingProofs -------------------------
(***************************************************************************)
(* Proofs about the cache's timer, for any refresh interval, window and    *)
(* length of a refresh.                                                    *)
(*                                                                         *)
(* TimerInv ties the timer to the time of the last refresh: what has       *)
(* passed since its end and what the timer has left are the interval       *)
(* chosen then.                                                            *)
(***************************************************************************)
EXTENDS BurstPolling, TLAPS

-----------------------------------------------------------------------------
(* Remainders.                                                             *)

LEMMA DivMod ==
    ASSUME NEW a \in Int, NEW b \in Nat \ {0}
    PROVE  /\ a % b \in 0..(b - 1) /\ a \div b \in Int
           /\ a = b * (a \div b) + (a % b)
OBVIOUS

LEMMA ModUnique ==
    ASSUME NEW b \in Nat \ {0}, NEW k \in Int, NEW r \in 0..(b - 1)
    PROVE  (b * k + r) % b = r
<1> DEFINE a == b * k + r
           d == a \div b
           m == a % b
<1>1. a \in Int /\ m \in 0..(b - 1) /\ d \in Int /\ a = b * d + m
  <2>1. a \in Int
      OBVIOUS
  <2> QED
      BY <2>1, DivMod
<1>2. b * k + r = b * d + m
    BY <1>1
<1> HIDE DEF a, d, m
<1>3. CASE k >= d + 1
  <2>1. b * k >= b * (d + 1) /\ b * (d + 1) = b * d + b
      BY <1>1, <1>3
  <2> QED
      BY <1>1, <1>2, <2>1
<1>4. CASE k + 1 <= d
  <2>1. b * d >= b * (k + 1) /\ b * (k + 1) = b * k + b
      BY <1>1, <1>4
  <2> QED
      BY <1>1, <1>2, <2>1
<1>5. CASE k = d
    BY <1>1, <1>2, <1>5 DEF a, m
<1> QED
    BY <1>1, <1>3, <1>4, <1>5

LEMMA ModShift ==
    ASSUME NEW a \in Int, NEW b \in Nat \ {0}, NEW k \in Int
    PROVE  (a + b * k) % b = a % b
<1> DEFINE d == a \div b
           m == a % b
<1>1. m \in 0..(b - 1) /\ d \in Int /\ a = b * d + m
    BY DivMod
<1> HIDE DEF d, m
<1>2. a + b * k = b * (d + k) + m /\ d + k \in Int
    BY <1>1
<1>3. (b * (d + k) + m) % b = m
    BY <1>1, <1>2, ModUnique
<1> QED
    BY <1>2, <1>3 DEF m

LEMMA ModSmall ==
    ASSUME NEW b \in Nat \ {0}, NEW r \in 0..(b - 1)
    PROVE  r % b = r
<1>1. b * 0 + r = r
    OBVIOUS
<1> QED
    BY <1>1, ModUnique

\* A boundary of the cycle is one of the five minutes.
LEMMA ModOfMod ==
    ASSUME NEW a \in Int, NEW b \in Nat \ {0}, NEW c \in Nat \ {0}, c % b = 0
    PROVE  (a % c) % b = a % b
<1> DEFINE d == a \div c
           m == a % c
           e == c \div b
<1>1. m \in Int /\ d \in Int /\ a = c * d + m
    BY DivMod
<1>2. e \in Int /\ c = b * e
    BY DivMod
<1> HIDE DEF d, m, e
<1>3. a = m + b * (e * d) /\ e * d \in Int
    BY <1>1, <1>2
<1>4. (m + b * (e * d)) % b = m % b
    BY <1>1, <1>3, ModShift
<1> QED
    BY <1>3, <1>4 DEF m

-----------------------------------------------------------------------------
(* Time.                                                                   *)

LEMMA Numbers ==
    /\ Boundary \in Nat \ {0} /\ BurstInterval \in Nat \ {0} /\ RefreshInterval \in Nat \ {0}
    /\ BurstWindow \in Nat /\ MaxFetch \in Nat
    /\ 2 * BurstWindow <= Boundary /\ BurstInterval <= RefreshInterval
    /\ Cycle \in Nat \ {0} /\ Cycle % Boundary = 0
    /\ \A tf \in Timeframes : tf.length \in Nat \ {0} /\ tf.count \in Nat
BY PollingAssumption DEF PollingAssumption

\* nearBoundary is the window of the comment.
LEMMA NearIsInWindow ==
    ASSUME NEW t \in Int
    PROVE  nearBoundary(t) <=> InWindow(t)
<1>1. t % Boundary \in 0..(Boundary - 1)
    BY Numbers, DivMod
<1> QED
    BY <1>1, Numbers DEF nearBoundary, InWindow

LEMMA AgoType ==
    ASSUME NEW d \in Int, now \in Int
    PROVE  Ago(d) \in 0..(Cycle - 1)
BY Numbers, DivMod DEF Ago

LEMMA AgoNow ==
    ASSUME now \in 0..(Cycle - 1)
    PROVE  Ago(0) = now
<1>1. now + Cycle - 0 = Cycle * 1 + now
    BY Numbers
<1> QED
    BY <1>1, Numbers, ModUnique DEF Ago

\* A time is a second longer ago a second later.
LEMMA AgoAdvances ==
    ASSUME NEW t \in 0..(Cycle - 1), NEW d \in Int
    PROVE  /\ (t + 1) % Cycle \in 0..(Cycle - 1)
           /\ (((t + 1) % Cycle) + Cycle - (d + 1)) % Cycle = (t + Cycle - d) % Cycle
<1> DEFINE k == (t + 1) \div Cycle
           u == (t + 1) % Cycle
<1>1. u \in 0..(Cycle - 1) /\ k \in Int /\ t + 1 = Cycle * k + u
    BY Numbers, DivMod
<1> HIDE DEF k, u
<1>2. t + Cycle - d = (u + Cycle - (d + 1)) + Cycle * k
    BY <1>1, Numbers
<1>3. u + Cycle - (d + 1) \in Int
    BY <1>1, Numbers
<1>4. ((u + Cycle - (d + 1)) + Cycle * k) % Cycle = (u + Cycle - (d + 1)) % Cycle
    BY <1>1, <1>3, Numbers, ModShift
<1> QED
    BY <1>1, <1>2, <1>4 DEF u

\* Where in the five minutes d seconds ago was.
LEMMA AgoInBoundary ==
    ASSUME now \in 0..(Cycle - 1), NEW d \in Int
    PROVE  Ago(d) % Boundary = ((now % Boundary) - d) % Boundary
<1> DEFINE sec == now % Boundary
           k == now \div Boundary
           e == Cycle \div Boundary
<1>1. sec \in Int /\ k \in Int /\ now = Boundary * k + sec
    BY Numbers, DivMod
<1>2. e \in Int /\ Cycle = Boundary * e
    BY Numbers, DivMod
<1> HIDE DEF sec, k, e
<1>3. now + Cycle - d = (sec - d) + Boundary * (k + e) /\ k + e \in Int /\ sec - d \in Int
    BY <1>1, <1>2, Numbers
<1>4. ((sec - d) + Boundary * (k + e)) % Boundary = (sec - d) % Boundary
    BY <1>3, Numbers, ModShift
<1>5. now + Cycle - d \in Int
    BY Numbers
<1>6. Ago(d) % Boundary = (now + Cycle - d) % Boundary
    BY <1>5, Numbers, ModOfMod DEF Ago
<1> QED
    BY <1>3, <1>4, <1>6 DEF sec

-----------------------------------------------------------------------------
(* The timer.                                                              *)

TimerInv ==
    /\ now \in 0..(Cycle - 1)
    /\ timer \in Nat /\ busy \in 0..MaxFetch /\ since \in Nat /\ first \in BOOLEAN
    /\ timer > 0 => busy = 0
    /\ timer + since = currentInterval(Ago(since)) + busy
    /\ asked \in since..(since + MaxFetch)
    /\ first => timer + since <= BurstInterval + busy

LEMMA IntervalType ==
    ASSUME NEW t
    PROVE  currentInterval(t) \in 1..RefreshInterval
BY Numbers DEF currentInterval

LEMMA TimerStarts ==
    ASSUME now \in 0..(Cycle - 1), since = 0, busy = 0, timer = currentInterval(now),
           asked \in 0..MaxFetch, first = InWindow(now)
    PROVE  TimerInv
<1>1. Ago(0) = now
    BY AgoNow
<1>2. timer \in 1..RefreshInterval
    BY IntervalType
<1>3. InWindow(now) => timer = BurstInterval
    BY NearIsInWindow, Numbers DEF currentInterval
<1>4. first \in BOOLEAN
    BY DEF InWindow
<1> QED
    BY <1>1, <1>2, <1>3, <1>4, Numbers DEF TimerInv

LEMMA TimerInit == Init => TimerInv
BY TimerStarts DEF Init

LEMMA TimerStep == TimerInv /\ [Next]_vars => TimerInv'
<1> SUFFICES ASSUME TimerInv, [Next]_vars PROVE TimerInv'
    OBVIOUS
<1>0. /\ now \in 0..(Cycle - 1)
      /\ timer \in Nat /\ busy \in 0..MaxFetch /\ since \in Nat /\ first \in BOOLEAN
      /\ timer > 0 => busy = 0
      /\ timer + since = currentInterval(Ago(since)) + busy
      /\ asked \in since..(since + MaxFetch)
      /\ first => timer + since <= BurstInterval + busy
      /\ currentInterval(Ago(since)) \in 1..RefreshInterval
    BY IntervalType DEF TimerInv
<1>1. ASSUME Advance
      PROVE  /\ now' \in 0..(Cycle - 1) /\ since' = since + 1 /\ asked' = asked + 1
             /\ first' \in BOOLEAN /\ (first' => first)
             /\ currentInterval(Ago(since))' = currentInterval(Ago(since))
  <2>1. now' \in 0..(Cycle - 1) /\ Ago(since)' = Ago(since)
    <3>1. since \in Int /\ now' = (now + 1) % Cycle /\ since' = since + 1
        BY <1>0, <1>1 DEF Advance
    <3> QED
        BY <1>0, <3>1, AgoAdvances DEF Ago
  <2>2. currentInterval(Ago(since))' = currentInterval(Ago(since))
      BY <2>1 DEF currentInterval, nearBoundary
  <2> QED
      BY <1>1, <2>1, <2>2 DEF Advance, InWindow
<1>2. CASE Wait
    BY <1>0, <1>1, <1>2, Numbers DEF Wait, TimerInv
<1>3. CASE Fetch
    BY <1>0, <1>1, <1>3, Numbers DEF Fetch, TimerInv
<1>4. CASE Reset
  <2>1. Ago(0)' = now'
      BY <1>0, <1>4, AgoNow DEF Reset, Ago
  <2>2. timer' \in 1..RefreshInterval
      BY <1>4, IntervalType DEF Reset
  <2>3. first' => timer' = BurstInterval
    <3>1. now \in Int /\ first' = InWindow(now) /\ timer' = currentInterval(now)
        BY <1>0, <1>4, Numbers DEF Reset
    <3>2. InWindow(now) => nearBoundary(now)
        BY <3>1, NearIsInWindow
    <3> QED
        BY <3>1, <3>2 DEF currentInterval
  <2>4. first' \in BOOLEAN
      BY <1>4 DEF Reset, InWindow
  <2>5. timer' = currentInterval(Ago(since))'
      BY <1>4, <2>1 DEF Reset, currentInterval, nearBoundary
  <2> QED
      BY <1>0, <1>4, <2>2, <2>3, <2>4, <2>5, Numbers DEF Reset, TimerInv
<1>5. CASE UNCHANGED vars
    BY <1>5 DEF vars, TimerInv, currentInterval, nearBoundary, Ago
<1> QED
    BY <1>2, <1>3, <1>4, <1>5 DEF Next

LEMMA TimerHolds == Spec => []TimerInv
BY TimerInit, TimerStep, PTL DEF Spec

\* No refresh was asked longer ago than the interval and two refreshes.
LEMMA LongestGap ==
    ASSUME TimerInv
    PROVE  /\ since <= RefreshInterval + MaxFetch
           /\ asked <= RefreshInterval + 2 * MaxFetch
<1>1. currentInterval(Ago(since)) \in 1..RefreshInterval
    BY IntervalType
<1> QED
    BY <1>1, Numbers DEF TimerInv

-----------------------------------------------------------------------------
(* The burst.                                                              *)

\* Once a refresh has ended inside the window, refreshes are a burst interval
\* and the time of one apart until it closes, contractcache.go:136.
THEOREM BurstHoldsToTheEnd == Spec => []BurstHolds
<1>1. TimerInv => BurstHolds
    BY Numbers DEF TimerInv, BurstHolds
<1> QED
    BY TimerHolds, <1>1, PTL

\* A refresh that ends outside the window sets the long interval: the burst does
\* not outlast the window.
THEOREM BurstEndsWithWindow == Spec => []BurstEnds
<1>1. TimerInv => BurstEnds
  <2>1. SUFFICES ASSUME TimerInv, timer > 0, ~InWindow(Ago(since))
                 PROVE  timer + since = RefreshInterval
      BY DEF BurstEnds
  <2>2. currentInterval(Ago(since)) = RefreshInterval
    <3>1. Ago(since) \in Int
        BY <2>1, Numbers, AgoType DEF TimerInv
    <3> QED
        BY <2>1, <3>1, NearIsInWindow DEF currentInterval
  <2> QED
      BY <2>1, <2>2, Numbers DEF TimerInv
<1> QED
    BY TimerHolds, <1>1, PTL

-----------------------------------------------------------------------------
(* The contracts asked for.                                                *)

\* As many windows are asked for as the longest gap may pass: 3 of 5 minutes
\* and 2 of 15, discovery.go, for a gap of little more than refreshInterval.
EnoughWindows ==
    \A tf \in Timeframes :
        /\ RefreshInterval + 2 * MaxFetch <= (tf.count - 1) * tf.length
        /\ tf.length = Boundary =>
              RefreshInterval + 2 * MaxFetch <= (tf.count - 2) * tf.length

\* The window that s falls in is one of the next ones of t.
LEMMA OpenWindow ==
    ASSUME NEW t \in Nat, NEW s \in Nat, NEW L \in Nat \ {0}, NEW n \in Int,
           t <= s, s - t <= n * L
    PROVE  \E i \in 0..n : Base(s, L) = Base(t, L) + i * L
<1> DEFINE a == s \div L
           b == t \div L
           u == s % L
           v == t % L
<1>1. /\ a \in Int /\ u \in 0..(L - 1) /\ s = L * a + u
      /\ b \in Int /\ v \in 0..(L - 1) /\ t = L * b + v
    BY DivMod
<1>2. Base(s, L) = s - u /\ Base(t, L) = t - v
    BY DEF Base
<1> HIDE DEF a, b, u, v
<1>3. Base(s, L) = L * a /\ Base(t, L) = L * b
    BY <1>1, <1>2
<1>4. L * a = L * b + (a - b) * L
    BY <1>1
<1>5. a - b >= 0
  <2>1. SUFFICES ASSUME a + 1 <= b PROVE FALSE
      BY <1>1
  <2>2. L * b >= L * (a + 1) /\ L * (a + 1) = L * a + L
      BY <1>1, <2>1
  <2> QED
      BY <1>1, <2>2
<1>6. a - b <= n
  <2>1. SUFFICES ASSUME a >= b + n + 1 PROVE FALSE
      BY <1>1
  <2>2. L * a >= L * (b + n + 1) /\ L * (b + n + 1) = L * b + n * L + L
      BY <1>1, <2>1
  <2>3. n * L \in Int /\ L * a \in Int /\ L * b \in Int
      BY <1>1
  <2> QED
      BY <1>1, <2>2, <2>3
<1>7. a - b \in 0..n
    BY <1>1, <1>5, <1>6
<1> QED
    BY <1>3, <1>4, <1>7

\* discovery.go:229: the open contract, and the next of five minutes, was among
\* those asked for, however long ago that was.
THEOREM OpenContractWasAsked ==
    ASSUME EnoughWindows
    PROVE  Spec => []OpenContractAsked
<1>1. TimerInv => OpenContractAsked
  <2>1. SUFFICES ASSUME TimerInv, NEW tf \in Timeframes
                 PROVE  LET then == Ago(asked)
                            open == Base(then + asked, tf.length)
                            known == generateTimestamps(then, tf.length, tf.count)
                        IN  /\ open \in known
                            /\ tf.length = Boundary => open + tf.length \in known
      BY DEF OpenContractAsked
  <2> DEFINE then == Ago(asked)
             L == tf.length
             n == tf.count
             gap == RefreshInterval + 2 * MaxFetch
  <2>2. asked \in Nat /\ asked <= gap /\ gap \in Nat
      BY <2>1, LongestGap, Numbers DEF TimerInv
  <2>3. then \in Nat
      BY <2>1, <2>2, Numbers, AgoType DEF TimerInv
  <2>4. L \in Nat \ {0} /\ n \in Nat
      BY Numbers
  <2>5. gap <= (n - 1) * L /\ (L = Boundary => gap <= (n - 2) * L)
      BY DEF EnoughWindows
  <2>6. Base(then, L) \in Int
      BY <2>3, <2>4, DivMod DEF Base
  <2> HIDE DEF then, L, n, gap
  <2> DEFINE today == then + asked
  <2>7. today \in Nat /\ then <= today /\ today - then = asked
      BY <2>2, <2>3
  <2> HIDE DEF today
  <2>8. Base(today, L) \in generateTimestamps(then, L, n)
    <3>1. n - 1 \in Int /\ asked <= (n - 1) * L
        BY <2>2, <2>4, <2>5
    <3> DEFINE last == n - 1
    <3> HIDE DEF last
    <3>2. PICK i \in 0..last : Base(today, L) = Base(then, L) + i * L
      <4>1. last \in Int /\ asked <= last * L
          BY <3>1 DEF last
      <4>2. today - then <= last * L
          BY <2>7, <4>1
      <4>3. /\ then \in Nat /\ today \in Nat /\ L \in Nat \ {0} /\ last \in Int
            /\ then <= today /\ today - then <= last * L
          BY <2>3, <2>4, <2>7, <4>1, <4>2
      <4> QED
          BY <4>3, OpenWindow, ZenonT(60)
    <3>3. i \in -1..(n - 1)
        BY <2>4 DEF last
    <3> QED
        BY <3>2, <3>3 DEF generateTimestamps
  <2>9. ASSUME L = Boundary
        PROVE  Base(today, L) + L \in generateTimestamps(then, L, n)
    <3>1. n - 2 \in Int /\ asked <= (n - 2) * L
        BY <2>2, <2>4, <2>5, <2>9
    <3> DEFINE last == n - 2
    <3> HIDE DEF last
    <3>2. PICK i \in 0..last : Base(today, L) = Base(then, L) + i * L
      <4>1. last \in Int /\ asked <= last * L
          BY <3>1 DEF last
      <4>2. today - then <= last * L
          BY <2>7, <4>1
      <4>3. /\ then \in Nat /\ today \in Nat /\ L \in Nat \ {0} /\ last \in Int
            /\ then <= today /\ today - then <= last * L
          BY <2>3, <2>4, <2>7, <4>1, <4>2
      <4> QED
          BY <4>3, OpenWindow, ZenonT(60)
    <3>3. i + 1 \in -1..(n - 1) /\ i * L + L = (i + 1) * L /\ i * L \in Int
        BY <2>4 DEF last
    <3>4. Base(today, L) + L = Base(then, L) + (i + 1) * L
        BY <2>4, <2>6, <3>2, <3>3
    <3> QED
        BY <3>3, <3>4 DEF generateTimestamps
  <2> QED
      BY <2>8, <2>9 DEF then, L, n, today
<1> QED
    BY TimerHolds, <1>1, PTL

-----------------------------------------------------------------------------
(* The contracts dropped.                                                  *)

\* A refresh is shorter than half of the window, and the long interval longer
\* than the burst after a boundary.
ShortRefreshes ==
    /\ MaxFetch <= BurstWindow
    /\ BurstWindow + BurstInterval + MaxFetch <= RefreshInterval

\* A contract that ended at a boundary is not in the cache for longer than the
\* part of refreshInterval outside the window, and a refresh.
THEOREM EndedContractIsDropped ==
    ASSUME ShortRefreshes
    PROVE  Spec => []EndedSoonDropped
<1>1. TimerInv => EndedSoonDropped
  <2> DEFINE sec == now % Boundary
             e == Ago(since) % Boundary
  <2>1. SUFFICES ASSUME TimerInv, sec >= RefreshInterval - BurstWindow + MaxFetch, asked > sec
                 PROVE  FALSE
    <3>1. TimerInv => asked \in Int /\ sec \in Int
        BY Numbers, DivMod DEF TimerInv
    <3> QED
        BY <3>1 DEF EndedSoonDropped
  <2>2. /\ sec \in 0..(Boundary - 1) /\ since \in Nat /\ asked \in Nat
        /\ busy \in 0..MaxFetch /\ timer \in Nat /\ asked <= since + MaxFetch
        /\ timer + since = currentInterval(Ago(since)) + busy
        /\ since <= RefreshInterval + MaxFetch
      BY <2>1, Numbers, DivMod, LongestGap DEF TimerInv
  <2>3. e = (sec - since) % Boundary
      BY <2>1, <2>2, AgoInBoundary DEF TimerInv
  \* In the burst the next refresh would have come long ago.
  <2>4. ASSUME nearBoundary(Ago(since))
        PROVE  since <= BurstInterval + MaxFetch
      BY <2>2, <2>4, Numbers DEF currentInterval
  <2> HIDE DEF sec, e
  <2>5. CASE since <= sec
    \* The refresh that ended last was running at the boundary.
    <3>1. sec - since \in 0..(Boundary - 1)
        BY <2>2, <2>5, Numbers
    <3>2. e = sec - since
        BY <2>3, <3>1, Numbers, ModSmall
    <3>3. e < BurstWindow
        BY <2>1, <2>2, <3>2, Numbers DEF ShortRefreshes
    <3>4. since <= BurstInterval + MaxFetch
        BY <2>4, <3>3 DEF nearBoundary, e
    <3> QED
        BY <2>1, <2>2, <3>2, <3>3, <3>4, Numbers DEF ShortRefreshes
  <2>6. CASE sec < since
    \* It ended before the boundary, and so inside the window.
    <3>1. since - sec \in 1..BurstWindow
        BY <2>1, <2>2, <2>6, Numbers
    <3>2. sec - since = Boundary * (0 - 1) + (Boundary + sec - since)
        BY <2>2, Numbers
    <3>3. Boundary + sec - since \in 0..(Boundary - 1)
        BY <2>2, <3>1, Numbers
    <3>4. e = Boundary + sec - since
        BY <2>3, <3>2, <3>3, Numbers, ModUnique
    <3>5. since <= BurstInterval + MaxFetch
        BY <2>2, <2>4, <3>1, <3>4, Numbers DEF nearBoundary, e
    <3> QED
        BY <2>1, <2>2, <2>6, <3>5, Numbers DEF ShortRefreshes
  <2> QED
      BY <2>2, <2>5, <2>6
<1> QED
    BY TimerHolds, <1>1, PTL
=============================================================================
