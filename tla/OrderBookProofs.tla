--------------------------- MODULE OrderBookProofs ---------------------------
(***************************************************************************)
(* The books of the cache follow the market, and no listener misses a      *)
(* change, for any tokens, prices, sizes, listeners and channel capacity.  *)
(*                                                                         *)
(* CacheInv: a book holds at each price what the last message not yet      *)
(* handled will overwrite, or the market's size if none will; the same for *)
(* the best prices, up to the order of the levels.  The handlers keep it   *)
(* by one lemma each, Caches; the messages are followed by what the head   *)
(* taken and the message appended do to "the last that says".              *)
(*                                                                         *)
(* What applyPriceChanges and a Go map written in order hold is a lemma    *)
(* about the last entry of a sequence (SizeAtConcat); the order of a map   *)
(* and of a sorted book rest on Sorting: a finite set with a total order   *)
(* has a listing in that order.                                            *)
(***************************************************************************)
EXTENDS OrderBook, SequenceTheorems, FiniteSetTheorems, TLAPS

-----------------------------------------------------------------------------
(* Finite sets, listed.                                                    *)

\* A finite set with a strict total order R, a set of pairs, can be listed in
\* that order: the place of an element is the number of elements up to it.
LEMMA Sorting ==
    ASSUME NEW S, IsFiniteSet(S), NEW R,
           \A x \in S : <<x, x>> \notin R,
           \A x, y \in S : x # y => <<x, y>> \in R \/ <<y, x>> \in R,
           \A x, y, z \in S : <<x, y>> \in R /\ <<y, z>> \in R => <<x, z>> \in R
    PROVE  \E f \in SetToSeqs(S) :
              \A i, j \in DOMAIN f : i < j => <<f[i], f[j]>> \in R
<1> DEFINE UpTo(x) == {y \in S : y = x \/ <<y, x>> \in R}
           n == Cardinality(S)
           rank == [x \in S |-> Cardinality(UpTo(x))]
<1>1. n \in Nat /\ Cardinality(S) = n /\ IsFiniteSet(1..n) /\ Cardinality(1..n) = n
    BY FS_CardinalityType, FS_Interval
<1>2. \A x \in S : /\ IsFiniteSet(UpTo(x))
                   /\ Cardinality(UpTo(x)) \in 1..n
  <2> SUFFICES ASSUME NEW x \in S
               PROVE  IsFiniteSet(UpTo(x)) /\ Cardinality(UpTo(x)) \in 1..n
      OBVIOUS
  <2>1. IsFiniteSet(UpTo(x)) /\ Cardinality(UpTo(x)) <= n
      BY FS_Subset
  <2>2. x \in UpTo(x)
      OBVIOUS
  <2>3. Cardinality(UpTo(x)) \in Nat /\ Cardinality(UpTo(x)) # 0
      BY <2>1, <2>2, FS_CardinalityType, FS_EmptySet
  <2> QED
      BY <1>1, <2>1, <2>3
<1>3. \A x, y \in S : <<x, y>> \in R => Cardinality(UpTo(x)) < Cardinality(UpTo(y))
  <2> SUFFICES ASSUME NEW x \in S, NEW y \in S, <<x, y>> \in R
               PROVE  Cardinality(UpTo(x)) < Cardinality(UpTo(y))
      OBVIOUS
  <2>1. UpTo(x) \subseteq UpTo(y)
      OBVIOUS
  <2>2. y \in UpTo(y)
      OBVIOUS
  <2>3. y \notin UpTo(x)
      OBVIOUS
  <2>4. Cardinality(UpTo(x)) <= Cardinality(UpTo(y))
      BY <1>2, <2>1, FS_Subset
  <2>5. Cardinality(UpTo(x)) # Cardinality(UpTo(y))
      BY <1>2, <2>1, <2>2, <2>3, FS_Subset
  <2> QED
      BY <1>1, <1>2, <2>4, <2>5
<1> HIDE DEF UpTo, n
<1>4. rank \in Injection(S, 1..n)
  <2>1. rank \in [S -> 1..n]
      BY <1>2
  <2>2. \A x, y \in S : rank[x] = rank[y] => x = y
    <3> SUFFICES ASSUME NEW x \in S, NEW y \in S, rank[x] = rank[y], x # y
                 PROVE  FALSE
        OBVIOUS
    <3>1. Cardinality(UpTo(x)) = Cardinality(UpTo(y)) /\ Cardinality(UpTo(x)) \in Int
        BY <1>1, <1>2
    <3>2. Cardinality(UpTo(x)) < Cardinality(UpTo(y)) \/ Cardinality(UpTo(y)) < Cardinality(UpTo(x))
        BY <1>3
    <3> QED
        BY <3>1, <3>2
  <2> QED
      BY <2>1, <2>2 DEF Injection, IsInjective
<1>5. rank \in Surjection(S, 1..n)
    BY <1>1, <1>4, FS_Injection
<1> DEFINE f == [i \in 1..n |-> CHOOSE x \in S : rank[x] = i]
<1>6. \A i \in 1..n : f[i] \in S /\ Cardinality(UpTo(f[i])) = i
    BY <1>5 DEF Surjection
<1> HIDE DEF f
<1>7. f \in SetToSeqs(S)
  <2>1. f \in [1..n -> S]
      BY <1>6 DEF f
  <2>2. \A i, j \in 1..n : f[i] = f[j] => i = j
      BY <1>6
  <2> QED
      BY <2>1, <2>2 DEF SetToSeqs, n
<1>8. ASSUME NEW i \in 1..n, NEW j \in 1..n, i < j
      PROVE  <<f[i], f[j]>> \in R
  <2>1. f[i] \in S /\ f[j] \in S /\ Cardinality(UpTo(f[i])) = i /\ Cardinality(UpTo(f[j])) = j
      BY <1>6
  <2>2. f[i] # f[j]
      BY <1>8, <2>1
  <2>3. ASSUME <<f[j], f[i]>> \in R PROVE FALSE
    <3>1. Cardinality(UpTo(f[j])) < Cardinality(UpTo(f[i]))
        BY <1>3, <2>1, <2>3
    <3> QED
        BY <1>8, <2>1, <3>1
  <2> QED
      BY <2>1, <2>2, <2>3
<1>9. DOMAIN f = 1..n
    BY DEF f
<1> QED
    BY <1>7, <1>8, <1>9
LEMMA Listing ==
    ASSUME NEW S, IsFiniteSet(S), NEW q \in SetToSeqs(S)
    PROVE  /\ q \in Seq(S)
           /\ Len(q) \in Nat /\ Len(q) = Cardinality(S) /\ DOMAIN q = 1..Len(q)
           /\ ToSet(q) = S
           /\ \A i, j \in DOMAIN q : q[i] = q[j] => i = j
<1> DEFINE n == Cardinality(S)
<1>1. n \in Nat /\ IsFiniteSet(1..n) /\ Cardinality(1..n) = n
    BY FS_CardinalityType, FS_Interval
<1>2. q \in [1..n -> S] /\ \A i, j \in 1..n : q[i] = q[j] => i = j
    BY DEF SetToSeqs
<1>3. q \in Injection(1..n, S)
    BY <1>2 DEF Injection, IsInjective
<1>4. q \in Surjection(1..n, S)
    BY <1>1, <1>3, FS_Injection
<1>5. q \in Seq(S) /\ Len(q) = n /\ DOMAIN q = 1..n
    BY <1>1, <1>2, SeqDef, LenProperties
<1>6. ToSet(q) = S
    BY <1>2, <1>4 DEF Surjection, ToSet
<1> QED
    BY <1>1, <1>2, <1>5, <1>6

LEMMA SetToSeqLists ==
    ASSUME NEW S, IsFiniteSet(S)
    PROVE  SetToSeq(S) \in SetToSeqs(S)
<1>1. PICK f \in [1..Cardinality(S) -> S] : IsInjective(f)
    BY FS_CardinalityType DEF ExistsBijection, Bijection, Injection
<1>2. SetToSeq(S) \in [1..Cardinality(S) -> S] /\ IsInjective(SetToSeq(S))
    BY <1>1 DEF SetToSeq
<1> QED
    BY <1>2 DEF SetToSeqs, IsInjective

LEMMA MaxOf ==
    ASSUME NEW S \in SUBSET Nat, IsFiniteSet(S), S # {}
    PROVE  Max(S) \in S /\ \A x \in S : x <= Max(S)
<1> DEFINE R == {e \in S \X S : e[1] < e[2]}
<1>a. \A x, y \in S : <<x, y>> \in R <=> x < y
    OBVIOUS
<1> HIDE DEF R
<1>1. PICK f \in SetToSeqs(S) : \A i, j \in DOMAIN f : i < j => <<f[i], f[j]>> \in R
  <2>2. /\ \A x \in S : <<x, x>> \notin R
        /\ \A x, y \in S : x # y => <<x, y>> \in R \/ <<y, x>> \in R
        /\ \A x, y, z \in S : <<x, y>> \in R /\ <<y, z>> \in R => <<x, z>> \in R
      BY <1>a
  <2> QED
      BY <2>2, Sorting
<1>2. /\ Len(f) \in Nat /\ DOMAIN f = 1..Len(f) /\ ToSet(f) = S
      /\ Len(f) = Cardinality(S) /\ f \in Seq(S)
    BY Listing
<1>3. Len(f) # 0
    BY <1>2, FS_EmptySet
<1>4. f[Len(f)] \in S
    BY <1>2, <1>3
<1>5. \A x \in S : x <= f[Len(f)]
  <2>1. TAKE x \in S
  <2>2. PICK i \in 1..Len(f) : x = f[i]
      BY <1>2 DEF ToSet
  <2>3. CASE i = Len(f)
      BY <2>2, <2>3
  <2>4. CASE i < Len(f)
    <3>1. <<f[i], f[Len(f)]>> \in R
        BY <1>1, <1>2, <1>3, <2>2, <2>4
    <3> QED
      <4>1. f[i] \in S /\ f[i] < f[Len(f)]
          BY <1>a, <1>4, <2>1, <2>2, <3>1
      <4>2. f[i] \in Nat /\ f[Len(f)] \in Nat
          BY <1>4, <4>1
      <4> QED
          BY <2>2, <4>1, <4>2
  <2> QED
      BY <1>2, <2>2, <2>3, <2>4
<1>6. \E x \in S : \A y \in S : x >= y
    BY <1>4, <1>5
<1> QED
    BY <1>6 DEF Max

-----------------------------------------------------------------------------
(* What a sequence of levels says about a price.                           *)

Mentions(q, p) == \E i \in DOMAIN q : q[i].price = p

LEMMA LastMention ==
    ASSUME NEW q \in Seq(Level), NEW p, Mentions(q, p)
    PROVE  \E i \in DOMAIN q : /\ q[i].price = p
                               /\ \A j \in DOMAIN q : j > i => q[j].price # p
                               /\ SizeAt(q, p) = q[i].size
<1> DEFINE W == {i \in DOMAIN q : q[i].price = p}
<1>1. W # {} /\ W \in SUBSET (1..Len(q)) /\ Len(q) \in Nat /\ DOMAIN q = 1..Len(q)
    BY LenProperties DEF Mentions
<1> HIDE DEF W
<1>2. IsFiniteSet(W) /\ W \in SUBSET Nat
  <2>1. IsFiniteSet(1..Len(q))
      BY <1>1, FS_Interval
  <2>2. IsFiniteSet(W)
      BY <1>1, <2>1, FS_Subset
  <2> QED
      BY <1>1, <2>2
<1>3. Max(W) \in W /\ \A x \in W : x <= Max(W)
    BY <1>1, <1>2, MaxOf
<1>4. SizeAt(q, p) = q[Max(W)].size
    BY <1>1 DEF SizeAt, W
<1>5. \A j \in DOMAIN q : j > Max(W) => j \notin W
  <2>1. \A j \in W : j \in Nat /\ Max(W) \in Nat /\ j <= Max(W)
      BY <1>2, <1>3
  <2> QED
      BY <2>1
<1> QED
    BY <1>3, <1>4, <1>5 DEF W

LEMMA NoMention ==
    ASSUME NEW q, NEW p, ~Mentions(q, p)
    PROVE  SizeAt(q, p) = 0
BY DEF SizeAt, Mentions

LEMMA SizeAtIs ==
    ASSUME NEW q \in Seq(Level), NEW p, NEW i \in DOMAIN q, q[i].price = p,
           \A j \in DOMAIN q : j > i => q[j].price # p
    PROVE  SizeAt(q, p) = q[i].size
<1>1. PICK k \in DOMAIN q : /\ q[k].price = p
                            /\ \A j \in DOMAIN q : j > k => q[j].price # p
                            /\ SizeAt(q, p) = q[k].size
    BY LastMention DEF Mentions
<1>2. i = k
    BY <1>1, LenProperties
<1> QED
    BY <1>1, <1>2

LEMMA SizeAtType ==
    ASSUME NEW q \in Seq(Level), NEW p
    PROVE  SizeAt(q, p) \in Sizes \cup {0}
<1>1. CASE Mentions(q, p)
  <2>1. PICK i \in DOMAIN q : SizeAt(q, p) = q[i].size
      BY <1>1, LastMention
  <2>2. q[i] \in Level
      BY <2>1, ElementOfSeq, LenProperties
  <2> QED
      BY <2>1, <2>2 DEF Level
<1>2. CASE ~Mentions(q, p)
    BY <1>2, NoMention
<1> QED
    BY <1>1, <1>2

\* A map written twice holds at a price what was written there last.
LEMMA SizeAtConcat ==
    ASSUME NEW a \in Seq(Level), NEW b \in Seq(Level), NEW p
    PROVE  SizeAt(a \o b, p) = IF Mentions(b, p) THEN SizeAt(b, p) ELSE SizeAt(a, p)
<1> DEFINE c == a \o b
<1>1. /\ c \in Seq(Level)
      /\ Len(a) \in Nat /\ Len(b) \in Nat
      /\ DOMAIN a = 1..Len(a) /\ DOMAIN b = 1..Len(b) /\ DOMAIN c = 1..(Len(a) + Len(b))
      /\ \A i \in 1..Len(a) : c[i] = a[i]
      /\ \A i \in 1..Len(b) : c[Len(a) + i] = b[i]
      /\ \A i \in DOMAIN c : i > Len(a) => i - Len(a) \in 1..Len(b) /\ c[i] = b[i - Len(a)]
    BY ConcatProperties, LenProperties
<1> HIDE DEF c
<1>2. CASE Mentions(b, p)
  <2>1. PICK i \in DOMAIN b : /\ b[i].price = p
                              /\ \A j \in DOMAIN b : j > i => b[j].price # p
                              /\ SizeAt(b, p) = b[i].size
      BY <1>2, LastMention
  <2>2. Len(a) + i \in DOMAIN c /\ c[Len(a) + i] = b[i]
      BY <1>1
  <2>3. \A j \in DOMAIN c : j > Len(a) + i => c[j].price # p
    <3>1. TAKE j \in DOMAIN c
    <3>2. HAVE j > Len(a) + i
    <3>3. j - Len(a) \in DOMAIN b /\ j - Len(a) > i /\ c[j] = b[j - Len(a)]
        BY <1>1, <3>2
    <3> QED
        BY <2>1, <3>3
  <2>4. SizeAt(c, p) = c[Len(a) + i].size
      BY <1>1, <2>1, <2>2, <2>3, SizeAtIs
  <2> QED
      BY <1>2, <2>1, <2>2, <2>4 DEF c
<1>3. CASE ~Mentions(b, p) /\ Mentions(a, p)
  <2>1. PICK i \in DOMAIN a : /\ a[i].price = p
                              /\ \A j \in DOMAIN a : j > i => a[j].price # p
                              /\ SizeAt(a, p) = a[i].size
      BY <1>3, LastMention
  <2>2. i \in DOMAIN c /\ c[i] = a[i]
      BY <1>1
  <2>3. \A j \in DOMAIN c : j > i => c[j].price # p
    <3>1. TAKE j \in DOMAIN c
    <3>2. HAVE j > i
    <3>3. CASE j > Len(a)
        BY <1>1, <1>3, <3>3 DEF Mentions
    <3>4. CASE j <= Len(a)
        BY <1>1, <2>1, <3>2, <3>4
    <3> QED
        BY <1>1, <3>3, <3>4
  <2>4. SizeAt(c, p) = c[i].size
      BY <1>1, <2>1, <2>2, <2>3, SizeAtIs
  <2> QED
      BY <1>3, <2>1, <2>2, <2>4 DEF c
<1>4. CASE ~Mentions(b, p) /\ ~Mentions(a, p)
  <2>1. ~Mentions(c, p)
    <3>1. SUFFICES ASSUME NEW j \in DOMAIN c, c[j].price = p PROVE FALSE
        BY DEF Mentions
    <3>2. CASE j > Len(a)
        BY <1>1, <1>4, <3>1, <3>2 DEF Mentions
    <3>3. CASE j <= Len(a)
        BY <1>1, <1>4, <3>1, <3>3 DEF Mentions
    <3> QED
        BY <1>1, <3>2, <3>3
  <2> QED
      BY <1>4, <2>1, NoMention DEF c
<1> QED
    BY <1>2, <1>3, <1>4

-----------------------------------------------------------------------------
(* Sides and their listings.                                               *)

\* Levels(side), and the changes of a message, are sets of entries.
Entries(side, P) == {[price |-> p, size |-> side[p]] : p \in P}

LEMMA LevelsAreEntries ==
    ASSUME NEW side
    PROVE  Levels(side) = Entries(side, Priced(side)) /\ Priced(side) \in SUBSET Prices
BY DEF Levels, Entries, Priced

LEMMA EntriesFinite ==
    ASSUME NEW side \in Side, NEW P \in SUBSET Prices
    PROVE  IsFiniteSet(Entries(side, P)) /\ Entries(side, P) \subseteq Level
<1> DEFINE f == [p \in P |-> [price |-> p, size |-> side[p]]]
<1>1. f \in Surjection(P, Entries(side, P))
    BY DEF Surjection, Entries
<1>2. IsFiniteSet(P)
    BY OrderBookAssumption, FS_Subset DEF OrderBookAssumption
<1>3. Entries(side, P) \subseteq Level
    BY DEF Entries, Level, Side
<1> QED
    BY <1>1, <1>2, <1>3, FS_Surjection

LEMMA EntriesListed ==
    ASSUME NEW side \in Side, NEW P \in SUBSET Prices, NEW q \in SetToSeqs(Entries(side, P))
    PROVE  /\ q \in Seq(Level)
           /\ \A p \in Prices : /\ Mentions(q, p) <=> p \in P
                                /\ SizeAt(q, p) = IF p \in P THEN side[p] ELSE 0
<1>1. /\ q \in Seq(Entries(side, P)) /\ DOMAIN q = 1..Len(q) /\ ToSet(q) = Entries(side, P)
    BY EntriesFinite, Listing
<1>2. q \in Seq(Level)
    BY <1>1, EntriesFinite, SeqMonotonic
<1>3. \A i \in DOMAIN q : q[i].price \in P /\ q[i].size = side[q[i].price]
  <2>1. TAKE i \in DOMAIN q
  <2>2. q[i] \in Entries(side, P)
      BY <1>1 DEF ToSet
  <2> QED
      BY <2>2 DEF Entries
<1>4. \A p \in P : Mentions(q, p)
  <2>1. TAKE p \in P
  <2>2. [price |-> p, size |-> side[p]] \in ToSet(q)
      BY <1>1 DEF Entries
  <2> QED
      BY <2>2 DEF ToSet, Mentions
<1>5. ASSUME NEW p \in Prices
      PROVE  /\ Mentions(q, p) <=> p \in P
             /\ SizeAt(q, p) = IF p \in P THEN side[p] ELSE 0
  <2>1. CASE p \in P
    <3>1. PICK i \in DOMAIN q : q[i].price = p /\ SizeAt(q, p) = q[i].size
        BY <1>2, <1>4, <2>1, LastMention
    <3> QED
        BY <1>3, <1>4, <2>1, <3>1
  <2>2. CASE p \notin P
    <3>1. ~Mentions(q, p)
        BY <1>3, <2>2 DEF Mentions
    <3> QED
        BY <2>2, <3>1, NoMention
  <2> QED
      BY <2>1, <2>2
<1> QED
    BY <1>2, <1>5

\* A side's levels in some order, as a book message and a cached book have them.
Lists(q, side) == side \in Side /\ q \in SetToSeqs(Levels(side))
IsListing(q) == \E side \in Side : Lists(q, side)

LEMMA ListsLevels ==
    ASSUME NEW q, NEW side, Lists(q, side)
    PROVE  /\ q \in Seq(Level)
           /\ Len(q) = Cardinality(Levels(side)) /\ ToSet(q) = Levels(side)
           /\ \A p \in Prices : SizeAt(q, p) = side[p]
<1>1. IsFiniteSet(Levels(side))
    BY LevelsAreEntries, EntriesFinite DEF Lists
<1>2. Len(q) = Cardinality(Levels(side)) /\ ToSet(q) = Levels(side)
    BY <1>1, Listing DEF Lists
<1>3. /\ q \in Seq(Level)
      /\ \A p \in Prices : SizeAt(q, p) = IF p \in Priced(side) THEN side[p] ELSE 0
    BY LevelsAreEntries, EntriesListed DEF Lists
<1>4. \A p \in Prices : p \notin Priced(side) => side[p] = 0
  <2>1. \A p \in Prices : side[p] \in Sizes \cup {0}
      BY DEF Lists, Side
  <2>2. \A z \in Sizes : z > 0
      BY OrderBookAssumption DEF OrderBookAssumption
  <2> QED
      BY <2>1, <2>2 DEF Priced
<1> QED
    BY <1>2, <1>3, <1>4

\* A listing is of the side whose sizes it has.
LEMMA ListsSide ==
    ASSUME NEW q, IsListing(q), NEW side \in Side, \A p \in Prices : SizeAt(q, p) = side[p]
    PROVE  Lists(q, side)
<1>1. PICK other \in Side : Lists(q, other)
    BY DEF IsListing
<1>2. \A p \in Prices : other[p] = side[p]
    BY <1>1, ListsLevels
<1>3. other = side
    BY <1>2 DEF Side
<1> QED
    BY <1>1, <1>3

LEMMA ListsLast ==
    ASSUME NEW q, NEW side, Lists(q, side), Priced(side) # {}, NEW old
    PROVE  LastPrice(q, old) \in Priced(side)
<1>1. q \in Seq(Level) /\ ToSet(q) = Levels(side)
    BY ListsLevels
<1>2. Levels(side) # {}
    BY DEF Levels
<1>3. Len(q) \in Nat /\ DOMAIN q = 1..Len(q)
    BY <1>1, LenProperties
<1>4. Len(q) # 0 /\ q # <<>>
    BY <1>1, <1>2, <1>3 DEF ToSet
<1>5. q[Len(q)] \in Levels(side)
    BY <1>1, <1>3, <1>4 DEF ToSet
<1> QED
    BY <1>4, <1>5 DEF LastPrice, Last, Levels

LEMMA LastPriceType ==
    ASSUME NEW q \in Seq(Level), NEW old \in Prices \cup {0}
    PROVE  LastPrice(q, old) \in Prices \cup {0}
<1>1. CASE q = <<>>
    BY <1>1 DEF LastPrice
<1>2. CASE q # <<>>
  <2>1. Len(q) \in 1..Len(q)
      BY <1>2, EmptySeq
  <2>2. q[Len(q)] \in Level
      BY <2>1, ElementOfSeq
  <2> QED
      BY <1>2, <2>2 DEF LastPrice, Last, Level
<1> QED
    BY <1>1, <1>2

\* applyPriceChanges writes the changes over the levels and drops size 0.
LEMMA Applied ==
    ASSUME NEW levels \in Seq(Level), NEW changes \in Seq(Level),
           NEW q \in ApplyPriceChanges(levels, changes)
    PROVE  /\ IsListing(q)
           /\ \A p \in Prices : SizeAt(q, p) = IF Mentions(changes, p) THEN SizeAt(changes, p)
                                               ELSE SizeAt(levels, p)
<1> DEFINE side == [p \in Prices |-> SizeAt(levels \o changes, p)]
<1>1. levels \o changes \in Seq(Level)
    BY ConcatProperties
<1>2. side \in Side
    BY <1>1, SizeAtType DEF Side
<1>3. Lists(q, side)
    BY <1>2 DEF ApplyPriceChanges, Lists
<1>4. \A p \in Prices : SizeAt(q, p) = SizeAt(levels \o changes, p)
    BY <1>3, ListsLevels
<1> HIDE DEF side
<1>5. IsListing(q)
    BY <1>2, <1>3 DEF IsListing
<1> QED
    BY <1>4, <1>5, SizeAtConcat

-----------------------------------------------------------------------------
(* What the exchange sends.                                                *)

LEMMA PriceOrder ==
    ASSUME NEW s \in Sides
    PROVE  /\ \A p \in Prices : ~Better(s, p, p)
           /\ \A p, r \in Prices : p # r => Better(s, p, r) \/ Better(s, r, p)
           /\ \A p, r, u \in Prices : Better(s, p, r) /\ Better(s, r, u) => Better(s, p, u)
<1>1. Prices \subseteq Int
    BY OrderBookAssumption DEF OrderBookAssumption
<1> QED
    BY <1>1 DEF Better

LEMMA WorstToBestLists ==
    ASSUME NEW s \in Sides, NEW side \in Side
    PROVE  /\ Lists(WorstToBest(s, side), side)
           /\ \A i, j \in DOMAIN WorstToBest(s, side) :
                 i < j => Better(s, WorstToBest(s, side)[j].price, WorstToBest(s, side)[i].price)
<1> DEFINE L == Levels(side)
           R == {e \in L \X L : Better(s, e[2].price, e[1].price)}
<1>1. IsFiniteSet(L)
    BY LevelsAreEntries, EntriesFinite
<1>2. \A k, l \in L : <<k, l>> \in R <=> Better(s, l.price, k.price)
    OBVIOUS
<1>3. \A k \in L : k.price \in Prices /\ k = [price |-> k.price, size |-> side[k.price]]
    BY DEF Levels, Priced
<1>4. \A k, l \in L : k # l => k.price # l.price
    BY <1>3
<1> HIDE DEF L, R
<1>5. /\ \A k \in L : <<k, k>> \notin R
      /\ \A k, l \in L : k # l => <<k, l>> \in R \/ <<l, k>> \in R
      /\ \A k, l, m \in L : <<k, l>> \in R /\ <<l, m>> \in R => <<k, m>> \in R
    BY <1>2, <1>3, <1>4, PriceOrder
<1>6. PICK f \in SetToSeqs(L) : \A i, j \in DOMAIN f : i < j => <<f[i], f[j]>> \in R
    BY <1>1, <1>5, Sorting
<1>7. \A i \in DOMAIN f : f[i] \in L
    BY <1>1, Listing DEF ToSet
<1>8. \A i, j \in DOMAIN f : i < j => Better(s, f[j].price, f[i].price)
    BY <1>2, <1>6, <1>7
<1> QED
    BY <1>8 DEF WorstToBest, Lists, L

LEMMA BestPriceIsPriced ==
    ASSUME NEW s \in Sides, NEW side \in Side
    PROVE  /\ BestPrice(s, side) \in Prices \cup {0}
           /\ BestPrice(s, side) # 0 => BestPrice(s, side) \in Priced(side)
<1>1. CASE Priced(side) = {}
    BY <1>1 DEF BestPrice
<1>2. CASE Priced(side) # {}
  <2> DEFINE q == WorstToBest(s, side)
             best_ == q[Len(q)].price
  <2>1. /\ Lists(q, side)
        /\ \A i, j \in DOMAIN q : i < j => Better(s, q[j].price, q[i].price)
      BY WorstToBestLists
  <2> HIDE DEF q
  <2>2. /\ ToSet(q) = Levels(side) /\ q \in Seq(Level)
        /\ DOMAIN q = 1..Len(q) /\ Len(q) \in Nat
      BY <2>1, ListsLevels, LenProperties
  <2>3. Levels(side) # {}
      BY <1>2 DEF Levels
  <2>4. Len(q) # 0 /\ Len(q) \in DOMAIN q
      BY <2>2, <2>3 DEF ToSet
  <2>5. \A i \in DOMAIN q : q[i].price \in Priced(side)
      BY <2>2 DEF ToSet, Levels
  <2>6. \A p \in Priced(side) : \E i \in DOMAIN q : q[i].price = p
    <3>1. TAKE p \in Priced(side)
    <3>2. [price |-> p, size |-> side[p]] \in ToSet(q)
        BY <2>2 DEF Levels
    <3> QED
        BY <3>2 DEF ToSet
  <2>7. \A p \in Priced(side) \ {best_} : Better(s, best_, p)
    <3>1. TAKE p \in Priced(side) \ {best_}
    <3>2. PICK i \in DOMAIN q : q[i].price = p
        BY <2>6
    <3>3. i < Len(q)
        BY <2>2, <3>2
    <3> QED
        BY <2>1, <2>4, <3>2, <3>3
  <2>8. \E p \in Priced(side) : \A r \in Priced(side) \ {p} : Better(s, p, r)
      BY <2>4, <2>5, <2>7
  <2> QED
      BY <1>2, <2>8 DEF BestPrice, Priced
<1> QED
    BY <1>1, <1>2

-----------------------------------------------------------------------------
(* What a sequence of messages still says, and how that changes when the   *)
(* first is taken and another is appended.                                 *)

\* m gives the size of the level of t at price p of side s, the size Told.
Tells(m, t, s, p) ==
    /\ m.token = t
    /\ \/ m.kind = "book"
       \/ m.kind = "price_change" /\ m.side = s /\ Mentions(m.changes, p)

Told(m, s, p) == SizeAt(IF m.kind = "book" THEN m.levels[s] ELSE m.changes, p)

\* Whoever reads q, holding the size held, ends up with size.
EndsWith(q, t, s, p, held, size) ==
    /\ \A i \in 1..Len(q) :
          Tells(q[i], t, s, p) /\ (\A j \in (i + 1)..Len(q) : ~Tells(q[j], t, s, p))
          => Told(q[i], s, p) = size
    /\ (\A i \in 1..Len(q) : ~Tells(q[i], t, s, p)) => held = size

\* The messages that move a side of t, and those that name its best price.
Moves(m, t, s) ==
    m.token = t /\ (m.kind = "book" \/ (m.kind = "price_change" /\ m.side = s))
Names(m, t, s) == m.token = t /\ m.kind = "best_bid_ask" /\ m.best[s] # 0

\* Whoever reads q, holding the best price held, ends up with one of the prices,
\* if there are any.
EndsAmong(q, t, s, held, prices) ==
    /\ \A i \in 1..Len(q) :
          Names(q[i], t, s) /\ (\A j \in (i + 1)..Len(q) : ~Moves(q[j], t, s))
          => q[i].best[s] \in prices
    /\ (\A i \in 1..Len(q) : ~Moves(q[i], t, s)) => prices = {} \/ held \in prices

\* A book of t comes before any change of it.
BookFirst(q, t) ==
    \E i \in 1..Len(q) :
        /\ q[i].token = t /\ q[i].kind = "book"
        /\ \A j \in 1..(i - 1) : ~(q[j].token = t /\ q[j].kind = "price_change")

LEMMA TailIndices ==
    ASSUME NEW q \in Seq(Message), q # <<>>
    PROVE  /\ Head(q) = q[1] /\ Head(q) \in Message /\ Tail(q) \in Seq(Message)
           /\ Len(q) \in Nat \ {0} /\ Len(Tail(q)) = Len(q) - 1
           /\ \A i \in 1..Len(Tail(q)) : Tail(q)[i] = q[i + 1] /\ i + 1 \in 2..Len(q)
           /\ \A i \in 2..Len(q) : i - 1 \in 1..Len(Tail(q)) /\ Tail(q)[i - 1] = q[i]
BY HeadTailProperties, EmptySeq

LEMMA AppendIndices ==
    ASSUME NEW q \in Seq(Message), NEW m \in Message
    PROVE  /\ Append(q, m) \in Seq(Message)
           /\ Len(q) \in Nat /\ Len(Append(q, m)) = Len(q) + 1
           /\ \A i \in 1..Len(q) : Append(q, m)[i] = q[i]
           /\ Append(q, m)[Len(q) + 1] = m
BY AppendProperties, LenProperties

LEMMA TailEndsWith ==
    ASSUME NEW q \in Seq(Message), q # <<>>, NEW t, NEW s, NEW p, NEW held, NEW size,
           EndsWith(q, t, s, p, held, size), NEW new,
           new = (IF Tells(Head(q), t, s, p) THEN Told(Head(q), s, p) ELSE held)
    PROVE  EndsWith(Tail(q), t, s, p, new, size)
<1> DEFINE r == Tail(q)
<1>1. /\ Head(q) = q[1] /\ Len(q) \in Nat \ {0} /\ Len(r) = Len(q) - 1
      /\ \A i \in 1..Len(r) : r[i] = q[i + 1] /\ i + 1 \in 2..Len(q)
      /\ \A i \in 2..Len(q) : i - 1 \in 1..Len(r) /\ r[i - 1] = q[i]
    BY TailIndices
<1> HIDE DEF r
<1>2. ASSUME NEW i \in 1..Len(r), Tells(r[i], t, s, p),
             \A j \in (i + 1)..Len(r) : ~Tells(r[j], t, s, p)
      PROVE  Told(r[i], s, p) = size
  <2>1. i + 1 \in 1..Len(q) /\ r[i] = q[i + 1]
      BY <1>1
  <2>2. \A j \in (i + 2)..Len(q) : ~Tells(q[j], t, s, p)
    <3>1. TAKE j \in (i + 2)..Len(q)
    <3>2. j \in 2..Len(q) /\ j - 1 \in (i + 1)..Len(r)
        BY <1>1
    <3> QED
        BY <1>1, <1>2, <3>2
  <2>3. \A j \in ((i + 1) + 1)..Len(q) : ~Tells(q[j], t, s, p)
      BY <1>1, <2>2
  <2> QED
      BY <1>2, <2>1, <2>3 DEF EndsWith
<1>3. ASSUME \A i \in 1..Len(r) : ~Tells(r[i], t, s, p)
      PROVE  new = size
  <2>1. \A i \in 2..Len(q) : ~Tells(q[i], t, s, p)
      BY <1>1, <1>3
  <2>2. CASE Tells(Head(q), t, s, p)
    <3>1. 1 \in 1..Len(q) /\ \A j \in (1 + 1)..Len(q) : ~Tells(q[j], t, s, p)
        BY <1>1, <2>1
    <3> QED
        BY <1>1, <2>2, <3>1 DEF EndsWith
  <2>3. CASE ~Tells(Head(q), t, s, p)
    <3>1. \A i \in 1..Len(q) : ~Tells(q[i], t, s, p)
        BY <1>1, <2>1, <2>3
    <3> QED
        BY <2>3, <3>1 DEF EndsWith
  <2> QED
      BY <2>2, <2>3
<1> QED
    BY <1>2, <1>3 DEF EndsWith, r

LEMMA AppendEndsWith ==
    ASSUME NEW q \in Seq(Message), NEW m \in Message, NEW t, NEW s, NEW p, NEW held, NEW size,
           EndsWith(q, t, s, p, held, size), NEW new,
           new = (IF Tells(m, t, s, p) THEN Told(m, s, p) ELSE size)
    PROVE  EndsWith(Append(q, m), t, s, p, held, new)
<1> DEFINE r == Append(q, m)
           n == Len(q)
<1>1. /\ n \in Nat /\ Len(r) = n + 1
      /\ \A i \in 1..n : r[i] = q[i]
      /\ r[n + 1] = m
    BY AppendIndices
<1> HIDE DEF r, n
<1>2. CASE Tells(m, t, s, p)
  <2>1. ASSUME NEW i \in 1..Len(r), Tells(r[i], t, s, p),
               \A j \in (i + 1)..Len(r) : ~Tells(r[j], t, s, p)
        PROVE  Told(r[i], s, p) = new
    <3>1. ~(n + 1 \in (i + 1)..Len(r))
        BY <1>1, <1>2, <2>1
    <3>2. i = n + 1
        BY <1>1, <3>1
    <3> QED
        BY <1>1, <1>2, <3>2
  <2>2. ~\A i \in 1..Len(r) : ~Tells(r[i], t, s, p)
      BY <1>1, <1>2
  <2> QED
      BY <2>1, <2>2 DEF EndsWith, r
<1>3. CASE ~Tells(m, t, s, p)
  <2>1. ASSUME NEW i \in 1..Len(r), Tells(r[i], t, s, p),
               \A j \in (i + 1)..Len(r) : ~Tells(r[j], t, s, p)
        PROVE  Told(r[i], s, p) = new
    <3>1. i # n + 1
        BY <1>1, <1>3, <2>1
    <3>2. i \in 1..n /\ r[i] = q[i]
        BY <1>1, <3>1
    <3>3. \A j \in (i + 1)..n : ~Tells(q[j], t, s, p)
      <4>1. TAKE j \in (i + 1)..n
      <4>2. j \in 1..n /\ j \in (i + 1)..Len(r)
          BY <1>1, <3>2
      <4> QED
          BY <1>1, <2>1, <4>2
    <3> QED
        BY <1>3, <2>1, <3>2, <3>3 DEF EndsWith, n
  <2>2. ASSUME \A i \in 1..Len(r) : ~Tells(r[i], t, s, p)
        PROVE  held = new
    <3>1. \A i \in 1..n : ~Tells(q[i], t, s, p)
        BY <1>1, <2>2
    <3> QED
        BY <1>3, <3>1 DEF EndsWith, n
  <2> QED
      BY <2>1, <2>2 DEF EndsWith, r
<1> QED
    BY <1>2, <1>3

LEMMA TailEndsAmong ==
    ASSUME NEW q \in Seq(Message), q # <<>>, NEW t, NEW s, NEW held, NEW prices,
           EndsAmong(q, t, s, held, prices), NEW new,
           \/ ~Moves(Head(q), t, s)
              /\ new = (IF Names(Head(q), t, s) THEN Head(q).best[s] ELSE held)
           \/ (\A i \in 1..Len(Tail(q)) : ~Moves(Tail(q)[i], t, s))
              => prices = {} \/ new \in prices
    PROVE  EndsAmong(Tail(q), t, s, new, prices)
<1> DEFINE r == Tail(q)
<1>1. /\ Head(q) = q[1] /\ Len(q) \in Nat \ {0} /\ Len(r) = Len(q) - 1
      /\ \A i \in 1..Len(r) : r[i] = q[i + 1] /\ i + 1 \in 2..Len(q)
      /\ \A i \in 2..Len(q) : i - 1 \in 1..Len(r) /\ r[i - 1] = q[i]
    BY TailIndices
<1>a. \/ ~Moves(Head(q), t, s)
         /\ new = (IF Names(Head(q), t, s) THEN Head(q).best[s] ELSE held)
      \/ (\A i \in 1..Len(r) : ~Moves(r[i], t, s)) => prices = {} \/ new \in prices
    OBVIOUS
<1> HIDE DEF r
<1>2. ASSUME NEW i \in 1..Len(r), Names(r[i], t, s),
             \A j \in (i + 1)..Len(r) : ~Moves(r[j], t, s)
      PROVE  r[i].best[s] \in prices
  <2>1. i + 1 \in 1..Len(q) /\ r[i] = q[i + 1]
      BY <1>1
  <2>2. \A j \in ((i + 1) + 1)..Len(q) : ~Moves(q[j], t, s)
    <3>1. TAKE j \in ((i + 1) + 1)..Len(q)
    <3>2. j \in 2..Len(q) /\ j - 1 \in (i + 1)..Len(r)
        BY <1>1
    <3> QED
        BY <1>1, <1>2, <3>2
  <2> QED
      BY <1>2, <2>1, <2>2 DEF EndsAmong
<1>3. ASSUME \A i \in 1..Len(r) : ~Moves(r[i], t, s), ~Moves(Head(q), t, s),
             new = (IF Names(Head(q), t, s) THEN Head(q).best[s] ELSE held)
      PROVE  prices = {} \/ new \in prices
  <2>1. \A i \in 2..Len(q) : ~Moves(q[i], t, s)
      BY <1>1, <1>3
  <2>2. \A i \in 1..Len(q) : ~Moves(q[i], t, s)
      BY <1>1, <1>3, <2>1
  <2>3. CASE Names(Head(q), t, s)
    <3>1. 1 \in 1..Len(q) /\ \A j \in (1 + 1)..Len(q) : ~Moves(q[j], t, s)
        BY <1>1, <2>2
    <3> QED
        BY <1>1, <1>3, <2>3, <3>1 DEF EndsAmong
  <2>4. CASE ~Names(Head(q), t, s)
      BY <1>3, <2>2, <2>4 DEF EndsAmong
  <2> QED
      BY <2>3, <2>4
<1>4. (\A i \in 1..Len(r) : ~Moves(r[i], t, s)) => prices = {} \/ new \in prices
    BY <1>a, <1>3
<1> QED
    BY <1>2, <1>4 DEF EndsAmong, r

LEMMA AppendEndsAmong ==
    ASSUME NEW q \in Seq(Message), NEW m \in Message, NEW t, NEW s, NEW held, NEW prices,
           NEW new,
           \/ Moves(m, t, s)
           \/ EndsAmong(q, t, s, held, prices) /\ new = prices,
           Names(m, t, s) => m.best[s] \in new
    PROVE  EndsAmong(Append(q, m), t, s, held, new)
<1> DEFINE r == Append(q, m)
           n == Len(q)
<1>1. /\ n \in Nat /\ Len(r) = n + 1
      /\ \A i \in 1..n : r[i] = q[i]
      /\ r[n + 1] = m
    BY AppendIndices
<1> HIDE DEF r, n
<1>2. CASE Moves(m, t, s)
  <2>1. ASSUME NEW i \in 1..Len(r), Names(r[i], t, s),
               \A j \in (i + 1)..Len(r) : ~Moves(r[j], t, s)
        PROVE  r[i].best[s] \in new
    <3>1. ~(n + 1 \in (i + 1)..Len(r))
        BY <1>1, <1>2, <2>1
    <3>2. i = n + 1
        BY <1>1, <3>1
    <3> QED
        BY <1>1, <2>1, <3>2
  <2>2. ~\A i \in 1..Len(r) : ~Moves(r[i], t, s)
      BY <1>1, <1>2
  <2> QED
      BY <2>1, <2>2 DEF EndsAmong, r
<1>3. CASE EndsAmong(q, t, s, held, prices) /\ new = prices
  <2>1. ASSUME NEW i \in 1..Len(r), Names(r[i], t, s),
               \A j \in (i + 1)..Len(r) : ~Moves(r[j], t, s)
        PROVE  r[i].best[s] \in new
    <3>1. CASE i = n + 1
        BY <1>1, <2>1, <3>1
    <3>2. CASE i # n + 1
      <4>1. i \in 1..n /\ r[i] = q[i]
          BY <1>1, <3>2
      <4>2. \A j \in (i + 1)..n : ~Moves(q[j], t, s)
        <5>1. TAKE j \in (i + 1)..n
        <5>2. j \in 1..n /\ j \in (i + 1)..Len(r)
            BY <1>1, <4>1
        <5> QED
            BY <1>1, <2>1, <5>2
      <4> QED
          BY <1>3, <2>1, <4>1, <4>2 DEF EndsAmong, n
    <3> QED
        BY <3>1, <3>2
  <2>2. ASSUME \A i \in 1..Len(r) : ~Moves(r[i], t, s)
        PROVE  new = {} \/ held \in new
    <3>1. \A i \in 1..n : ~Moves(q[i], t, s)
        BY <1>1, <2>2
    <3> QED
        BY <1>3, <3>1 DEF EndsAmong, n
  <2> QED
      BY <2>1, <2>2 DEF EndsAmong, r
<1> QED
    BY <1>2, <1>3

LEMMA TailBookFirst ==
    ASSUME NEW q \in Seq(Message), q # <<>>, NEW t, BookFirst(q, t),
           ~(Head(q).token = t /\ Head(q).kind = "book")
    PROVE  /\ BookFirst(Tail(q), t)
           /\ ~(Head(q).token = t /\ Head(q).kind = "price_change")
<1> DEFINE r == Tail(q)
<1>1. /\ Head(q) = q[1] /\ Len(q) \in Nat \ {0} /\ Len(r) = Len(q) - 1
      /\ \A i \in 1..Len(r) : r[i] = q[i + 1] /\ i + 1 \in 2..Len(q)
      /\ \A i \in 2..Len(q) : i - 1 \in 1..Len(r) /\ r[i - 1] = q[i]
    BY TailIndices
<1> HIDE DEF r
<1>2. PICK i \in 1..Len(q) :
          /\ q[i].token = t /\ q[i].kind = "book"
          /\ \A j \in 1..(i - 1) : ~(q[j].token = t /\ q[j].kind = "price_change")
    BY DEF BookFirst
<1>3. i # 1
    BY <1>1, <1>2
<1>4. i - 1 \in 1..Len(r) /\ r[i - 1] = q[i] /\ 1 \in 1..(i - 1)
    BY <1>1, <1>3
<1>5. \A j \in 1..((i - 1) - 1) : ~(r[j].token = t /\ r[j].kind = "price_change")
  <2>1. TAKE j \in 1..((i - 1) - 1)
  <2>2. j \in 1..Len(r) /\ j + 1 \in 1..(i - 1)
      BY <1>1, <1>4
  <2> QED
      BY <1>1, <1>2, <2>2
<1> QED
    BY <1>1, <1>2, <1>4, <1>5 DEF BookFirst, r

LEMMA AppendBookFirst ==
    ASSUME NEW q \in Seq(Message), NEW m \in Message, NEW t, BookFirst(q, t)
    PROVE  BookFirst(Append(q, m), t)
<1>1. PICK i \in 1..Len(q) :
          /\ q[i].token = t /\ q[i].kind = "book"
          /\ \A j \in 1..(i - 1) : ~(q[j].token = t /\ q[j].kind = "price_change")
    BY DEF BookFirst
<1>2. i \in 1..Len(Append(q, m)) /\ \A j \in 1..i : Append(q, m)[j] = q[j]
    BY AppendIndices
<1> QED
    BY <1>1, <1>2 DEF BookFirst

-----------------------------------------------------------------------------
(* The invariant.                                                          *)

CacheType ==
    /\ market \in [Tokens -> [Sides -> Side]]
    /\ inbox \in Seq(Message)
    /\ DOMAIN books \subseteq Tokens
    /\ \A t \in DOMAIN books : books[t] \in [Sides -> Seq(Level)]
    /\ best \in [Tokens -> [Sides -> Prices \cup {0}]]

\* A cached book and a book on its way are the levels of some side, each once.
BooksAreListings ==
    /\ \A t \in DOMAIN books, s \in Sides : IsListing(books[t][s])
    /\ \A i \in 1..Len(inbox) :
          inbox[i].kind = "book" => \A s \in Sides : IsListing(inbox[i].levels[s])

\* A token without a book gets one before the next change of it.
MissingBookComes == \A t \in Tokens \ DOMAIN books : BookFirst(inbox, t)

Held(t, s, p) == IF t \in DOMAIN books THEN SizeAt(books[t][s], p) ELSE 0

\* The messages on their way bring every cached size to the market's.
SizesFollow ==
    \A t \in Tokens, s \in Sides, p \in Prices :
        EndsWith(inbox, t, s, p, Held(t, s, p), market[t][s][p])

\* They bring every best price to one of the market's.
BestFollows ==
    \A t \in Tokens, s \in Sides :
        EndsAmong(inbox, t, s, best[t][s], Priced(market[t][s]))

CacheInv == CacheType /\ BooksAreListings /\ MissingBookComes /\ SizesFollow /\ BestFollows

-----------------------------------------------------------------------------
(* The connection.                                                         *)

LEMMA BookMessageIsBook ==
    ASSUME market \in [Tokens -> [Sides -> Side]], NEW t \in Tokens
    PROVE  /\ BookMessage(t) \in Message
           /\ BookMessage(t).token = t /\ BookMessage(t).kind = "book"
           /\ \A s \in Sides : Lists(BookMessage(t).levels[s], market[t][s])
<1>1. \A s \in Sides : market[t][s] \in Side
    OBVIOUS
<1>2. \A s \in Sides : Lists(WorstToBest(s, market[t][s]), market[t][s])
    BY <1>1, WorstToBestLists
<1>3. \A s \in Sides : WorstToBest(s, market[t][s]) \in Seq(Level)
    BY <1>2, ListsLevels
<1> QED
    BY <1>2, <1>3 DEF BookMessage, Message

\* A new connection sends the market's book of every token.
LEMMA NewConnection ==
    ASSUME market \in [Tokens -> [Sides -> Side]],
           NEW q \in SetToSeqs({BookMessage(t) : t \in Tokens})
    PROVE  /\ q \in Seq(Message)
           /\ \A i \in 1..Len(q) : \A s \in Sides : IsListing(q[i].levels[s])
           /\ \A t \in Tokens : BookFirst(q, t)
           /\ \A t \in Tokens, s \in Sides, p \in Prices : EndsWith(q, t, s, p, 0, market[t][s][p])
           /\ \A t \in Tokens, s \in Sides : EndsAmong(q, t, s, 0, Priced(market[t][s]))
<1> DEFINE B == {BookMessage(t) : t \in Tokens}
           f == [t \in Tokens |-> BookMessage(t)]
<1>1. IsFiniteSet(B)
  <2>1. f \in Surjection(Tokens, B)
      BY DEF Surjection
  <2>2. IsFiniteSet(Tokens)
      BY OrderBookAssumption DEF OrderBookAssumption
  <2> QED
      BY <2>1, <2>2, FS_Surjection
<1>2. q \in Seq(B) /\ Len(q) \in Nat /\ DOMAIN q = 1..Len(q) /\ ToSet(q) = B
    BY <1>1, Listing
<1>3. B \subseteq Message
    BY BookMessageIsBook
<1>4. q \in Seq(Message)
    BY <1>2, <1>3, SeqMonotonic
<1>5. \A i \in 1..Len(q) : /\ q[i].token \in Tokens /\ q[i].kind = "book"
                           /\ \A s \in Sides : Lists(q[i].levels[s], market[q[i].token][s])
  <2>1. TAKE i \in 1..Len(q)
  <2>2. q[i] \in B
      BY <1>2 DEF ToSet
  <2>3. PICK t \in Tokens : q[i] = BookMessage(t)
      BY <2>2
  <2> QED
      BY <2>3, BookMessageIsBook
<1>6. \A t \in Tokens : \E i \in 1..Len(q) : q[i].token = t /\ q[i].kind = "book"
  <2>1. TAKE t \in Tokens
  <2>2. BookMessage(t) \in ToSet(q)
      BY <1>2
  <2>3. PICK i \in 1..Len(q) : q[i] = BookMessage(t)
      BY <1>2, <2>2 DEF ToSet
  <2> QED
      BY <2>3, BookMessageIsBook
<1> HIDE DEF B, f
<1>7. \A i \in 1..Len(q) : \A s \in Sides : IsListing(q[i].levels[s])
    BY <1>5 DEF IsListing, Lists
<1>8. \A t \in Tokens : BookFirst(q, t)
  <2>1. TAKE t \in Tokens
  <2>2. PICK i \in 1..Len(q) : q[i].token = t /\ q[i].kind = "book"
      BY <1>6
  <2>3. \A j \in 1..(i - 1) : j \in 1..Len(q) /\ q[j].kind = "book"
      BY <1>2, <1>5
  <2> QED
      BY <2>2, <2>3 DEF BookFirst
<1>9. ASSUME NEW t \in Tokens, NEW s \in Sides, NEW p \in Prices
      PROVE  EndsWith(q, t, s, p, 0, market[t][s][p])
  <2>1. ASSUME NEW i \in 1..Len(q), Tells(q[i], t, s, p)
        PROVE  Told(q[i], s, p) = market[t][s][p]
    <3>1. Lists(q[i].levels[s], market[t][s]) /\ q[i].kind = "book"
        BY <1>5, <2>1 DEF Tells
    <3> QED
        BY <3>1, ListsLevels DEF Told
  <2>2. \E i \in 1..Len(q) : Tells(q[i], t, s, p)
      BY <1>6 DEF Tells
  <2> QED
      BY <2>1, <2>2 DEF EndsWith
<1>10. ASSUME NEW t \in Tokens, NEW s \in Sides
       PROVE  EndsAmong(q, t, s, 0, Priced(market[t][s]))
  <2>1. \A i \in 1..Len(q) : ~Names(q[i], t, s)
      BY <1>5 DEF Names
  <2>2. \E i \in 1..Len(q) : Moves(q[i], t, s)
      BY <1>6 DEF Moves
  <2> QED
      BY <2>1, <2>2 DEF EndsAmong
<1> QED
    BY <1>4, <1>7, <1>8, <1>9, <1>10

LEMMA CacheInit == Init => CacheInv
<1> SUFFICES ASSUME Init PROVE CacheInv
    OBVIOUS
<1>1. market \in [Tokens -> [Sides -> Side]]
    BY OrderBookAssumption DEF Init, Side, OrderBookAssumption
<1>2. /\ inbox \in SetToSeqs({BookMessage(t) : t \in Tokens})
      /\ books = NoBooks /\ best = [t \in Tokens |-> [s \in Sides |-> 0]]
    BY DEF Init
<1>3. DOMAIN books = {}
    BY <1>2 DEF NoBooks
<1>4. CacheType
    BY <1>1, <1>2, <1>3, NewConnection DEF CacheType
<1>5. BooksAreListings /\ MissingBookComes /\ SizesFollow /\ BestFollows
    BY <1>1, <1>2, <1>3, NewConnection
       DEF BooksAreListings, MissingBookComes, SizesFollow, BestFollows, Held
<1> QED
    BY <1>4, <1>5 DEF CacheInv

LEMMA CacheReconnect ==
    ASSUME CacheInv, Reconnect
    PROVE  CacheInv'
<1>1. /\ inbox' \in SetToSeqs({BookMessage(t) : t \in Tokens})
      /\ books' = NoBooks /\ best' = [t \in Tokens |-> [s \in Sides |-> 0]]
      /\ market' = market /\ market \in [Tokens -> [Sides -> Side]]
    BY DEF Reconnect, exchangeVars, CacheInv, CacheType
<1>2. DOMAIN books' = {}
    BY <1>1 DEF NoBooks
<1>3. CacheType'
    BY <1>1, <1>2, NewConnection DEF CacheType
<1>4. (BooksAreListings /\ MissingBookComes /\ SizesFollow /\ BestFollows)'
    BY <1>1, <1>2, NewConnection
       DEF BooksAreListings, MissingBookComes, SizesFollow, BestFollows, Held
<1> QED
    BY <1>3, <1>4 DEF CacheInv

-----------------------------------------------------------------------------
(* The exchange.                                                           *)

LEMMA ChangeMessageTells ==
    ASSUME market \in [Tokens -> [Sides -> Side]],
           NEW t \in Tokens, NEW s \in Sides, NEW new \in Side
    PROVE  LET c == ChangeMessage(t, s, new)
           IN  /\ c \in Message /\ c.token = t /\ c.kind = "price_change" /\ c.side = s
               /\ \A p \in Prices : /\ Mentions(c.changes, p) <=> new[p] # market[t][s][p]
                                    /\ Mentions(c.changes, p) => SizeAt(c.changes, p) = new[p]
<1> DEFINE P == {p \in Prices : new[p] # market[t][s][p]}
           c == ChangeMessage(t, s, new)
<1>1. c = [token |-> t, kind |-> "price_change", side |-> s, changes |-> SetToSeq(Entries(new, P))]
    BY DEF ChangeMessage, Entries
<1>2. SetToSeq(Entries(new, P)) \in SetToSeqs(Entries(new, P))
    BY EntriesFinite, SetToSeqLists
<1>3. /\ c.changes \in Seq(Level)
      /\ \A p \in Prices : /\ Mentions(c.changes, p) <=> p \in P
                           /\ SizeAt(c.changes, p) = IF p \in P THEN new[p] ELSE 0
  <2>1. c.changes \in SetToSeqs(Entries(new, P)) /\ P \in SUBSET Prices
      BY <1>1, <1>2
  <2> HIDE DEF c, P
  <2> QED
      BY <2>1, EntriesListed
<1>4. c \in Message
    BY <1>1, <1>3 DEF Message
<1> QED
    BY <1>1, <1>3, <1>4

LEMMA BestMessageNames ==
    ASSUME NEW m, m \in [Tokens -> [Sides -> Side]], NEW t \in Tokens
    PROVE  LET b == BestMessage(t, m)
           IN  /\ b \in Message /\ b.token = t /\ b.kind = "best_bid_ask"
               /\ \A s \in Sides : b.best[s] # 0 => b.best[s] \in Priced(m[t][s])
<1>1. \A s \in Sides : m[t][s] \in Side
    OBVIOUS
<1>2. \A s \in Sides : /\ BestPrice(s, m[t][s]) \in Prices \cup {0}
                       /\ BestPrice(s, m[t][s]) # 0 => BestPrice(s, m[t][s]) \in Priced(m[t][s])
    BY <1>1, BestPriceIsPriced
<1> QED
    BY <1>2 DEF BestMessage, Message

LEMMA CacheMarketMoves ==
    ASSUME CacheInv, NEW t \in Tokens, NEW s \in Sides, NEW new \in Side, MarketMoves(t, s, new)
    PROVE  CacheInv'
<1> DEFINE c == ChangeMessage(t, s, new)
           b == BestMessage(t, market')
           q == Append(inbox, c)
<1>1. /\ market' = [market EXCEPT ![t][s] = new]
      /\ inbox' = q \/ inbox' = Append(q, b)
      /\ UNCHANGED <<books, best>>
      /\ inbox \in Seq(Message) /\ market \in [Tokens -> [Sides -> Side]]
  <2>1. inbox \in Seq(Message)
      BY DEF CacheInv, CacheType
  <2>2. inbox \o <<c>> \o <<>> = q /\ inbox \o <<c>> \o <<b>> = Append(q, b)
    <3>1. c \in Message
        BY ChangeMessageTells DEF CacheInv, CacheType
    <3> QED
        BY <2>1, <3>1
  <2> QED
      BY <2>1, <2>2 DEF MarketMoves, cacheVars, CacheInv, CacheType
<1>2. /\ market' \in [Tokens -> [Sides -> Side]]
      /\ \A u \in Tokens, v \in Sides : market'[u][v] = IF u = t /\ v = s THEN new ELSE market[u][v]
    BY <1>1
<1>3. /\ c \in Message /\ c.token = t /\ c.kind = "price_change" /\ c.side = s
      /\ \A p \in Prices : /\ Mentions(c.changes, p) <=> new[p] # market[t][s][p]
                           /\ Mentions(c.changes, p) => SizeAt(c.changes, p) = new[p]
    BY <1>1, ChangeMessageTells
<1>4. /\ b \in Message /\ b.token = t /\ b.kind = "best_bid_ask"
      /\ \A v \in Sides : b.best[v] # 0 => b.best[v] \in Priced(market'[t][v])
    BY <1>2, BestMessageNames
<1> HIDE DEF c, b
<1>5. q \in Seq(Message) /\ inbox' \in Seq(Message)
  <2>1. q \in Seq(Message)
      BY <1>1, <1>3, AppendIndices
  <2> HIDE DEF q
  <2>2. Append(q, b) \in Seq(Message)
      BY <1>4, <2>1, AppendIndices
  <2> QED
      BY <1>1, <2>1, <2>2
<1>6. CacheType'
    BY <1>1, <1>2, <1>5 DEF CacheInv, CacheType
<1>7. BooksAreListings'
  <2>1. \A i \in 1..Len(q) : q[i].kind = "book" => \A v \in Sides : IsListing(q[i].levels[v])
    <3>1. /\ Len(inbox) \in Nat /\ Len(q) = Len(inbox) + 1
          /\ \A i \in 1..Len(inbox) : q[i] = inbox[i]
          /\ q[Len(inbox) + 1] = c
        BY <1>1, <1>3, AppendIndices
    <3>2. \A i \in 1..Len(q) : i \in 1..Len(inbox) \/ i = Len(inbox) + 1
        BY <3>1
    <3> QED
        BY <1>3, <3>1, <3>2 DEF CacheInv, BooksAreListings
  <2>2. \A i \in 1..Len(Append(q, b)) : Append(q, b)[i].kind = "book" =>
            \A v \in Sides : IsListing(Append(q, b)[i].levels[v])
    <3>1. /\ Len(q) \in Nat /\ Len(Append(q, b)) = Len(q) + 1
          /\ \A i \in 1..Len(q) : Append(q, b)[i] = q[i]
          /\ Append(q, b)[Len(q) + 1] = b
        BY <1>4, <1>5, AppendIndices
    <3>2. \A i \in 1..Len(Append(q, b)) : i \in 1..Len(q) \/ i = Len(q) + 1
        BY <3>1
    <3> QED
        BY <1>4, <2>1, <3>1, <3>2
  <2> QED
      BY <1>1, <2>1, <2>2 DEF CacheInv, BooksAreListings
<1>8. MissingBookComes'
  <2>1. \A u \in Tokens \ DOMAIN books : BookFirst(q, u)
      BY <1>1, <1>3, AppendBookFirst DEF CacheInv, MissingBookComes
  <2>2. \A u \in Tokens \ DOMAIN books : BookFirst(Append(q, b), u)
      BY <1>4, <1>5, <2>1, AppendBookFirst
  <2> QED
      BY <1>1, <2>1, <2>2 DEF MissingBookComes
<1>9. SizesFollow'
  <2>1. SUFFICES ASSUME NEW u \in Tokens, NEW v \in Sides, NEW p \in Prices
                 PROVE  EndsWith(inbox', u, v, p, Held(u, v, p)', market'[u][v][p])
      BY DEF SizesFollow
  <2>2. Held(u, v, p)' = Held(u, v, p)
      BY <1>1 DEF Held
  <2>3. EndsWith(inbox, u, v, p, Held(u, v, p), market[u][v][p])
      BY DEF CacheInv, SizesFollow
  <2>4. market'[u][v][p] = IF Tells(c, u, v, p) THEN Told(c, v, p) ELSE market[u][v][p]
      BY <1>2, <1>3 DEF Tells, Told
  <2>5. EndsWith(q, u, v, p, Held(u, v, p), market'[u][v][p])
      BY <1>1, <1>3, <2>3, <2>4, AppendEndsWith
  <2>6. ~Tells(b, u, v, p)
      BY <1>4 DEF Tells
  <2>7. EndsWith(Append(q, b), u, v, p, Held(u, v, p), market'[u][v][p])
      BY <1>4, <1>5, <2>5, <2>6, AppendEndsWith
  <2> QED
      BY <1>1, <2>2, <2>5, <2>7
<1>10. BestFollows'
  <2>1. SUFFICES ASSUME NEW u \in Tokens, NEW v \in Sides
                 PROVE  EndsAmong(inbox', u, v, best'[u][v], Priced(market'[u][v]))
      BY DEF BestFollows
  <2>2. EndsAmong(inbox, u, v, best[u][v], Priced(market[u][v]))
      BY DEF CacheInv, BestFollows
  <2>3. ~Names(c, u, v) /\ (Moves(c, u, v) \/ Priced(market'[u][v]) = Priced(market[u][v]))
      BY <1>2, <1>3 DEF Names, Moves
  <2>4. EndsAmong(q, u, v, best[u][v], Priced(market'[u][v]))
      BY <1>1, <1>3, <2>2, <2>3, AppendEndsAmong
  <2>5. Names(b, u, v) => b.best[v] \in Priced(market'[u][v])
      BY <1>4 DEF Names
  <2>6. EndsAmong(Append(q, b), u, v, best[u][v], Priced(market'[u][v]))
      BY <1>4, <1>5, <2>4, <2>5, AppendEndsAmong
  <2> QED
      BY <1>1, <2>4, <2>6
<1> QED
    BY <1>6, <1>7, <1>8, <1>9, <1>10 DEF CacheInv

-----------------------------------------------------------------------------
(* The handlers.                                                           *)

\* With a book on its way it does not matter what is held now.
LEMMA AnyHeld ==
    ASSUME NEW q \in Seq(Message), NEW t, NEW s, NEW p, NEW held, NEW other, NEW size,
           BookFirst(q, t), EndsWith(q, t, s, p, held, size)
    PROVE  EndsWith(q, t, s, p, other, size)
<1>1. \E i \in 1..Len(q) : Tells(q[i], t, s, p)
    BY DEF BookFirst, Tells
<1> QED
    BY <1>1 DEF EndsWith

\* What the cache has to do with the message m for the invariant to hold.
Caches(m) ==
    /\ DOMAIN books \subseteq DOMAIN books'
    /\ \A t \in DOMAIN books' \ DOMAIN books : m.token = t /\ m.kind = "book"
    /\ m.kind = "book" => m.token \in DOMAIN books'
    /\ \A t \in DOMAIN books', s \in Sides :
          /\ IsListing(books'[t][s])
          /\ \A p \in Prices :
                SizeAt(books'[t][s], p) = IF Tells(m, t, s, p) THEN Told(m, s, p)
                                          ELSE SizeAt(books[t][s], p)
          /\ Moves(m, t, s) => best'[t][s] = LastPrice(books'[t][s], best[t][s])
    /\ \A t \in Tokens, s \in Sides :
          ~Moves(m, t, s) => best'[t][s] = IF Names(m, t, s) THEN m.best[s] ELSE best[t][s]

LEMMA CacheHandled ==
    ASSUME CacheInv, inbox # <<>>, inbox' = Tail(inbox), market' = market,
           CacheType', Caches(Head(inbox))
    PROVE  CacheInv'
<1> DEFINE m == Head(inbox)
           r == Tail(inbox)
<1>1. /\ inbox \in Seq(Message) /\ r \in Seq(Message) /\ m = inbox[1] /\ m \in Message
      /\ Len(inbox) \in Nat \ {0} /\ inbox' = r
      /\ \A i \in 1..Len(r) : r[i] = inbox[i + 1] /\ i + 1 \in 1..Len(inbox)
  <2>1. inbox \in Seq(Message)
      BY DEF CacheInv, CacheType
  <2> QED
      BY <2>1, TailIndices
<1>2. BooksAreListings'
    BY <1>1 DEF Caches, CacheInv, BooksAreListings
<1>3. \A t \in Tokens \ DOMAIN books' : BookFirst(r, t) /\ \A s \in Sides : ~Moves(m, t, s)
  <2>1. TAKE t \in Tokens \ DOMAIN books'
  <2>2. t \in Tokens \ DOMAIN books /\ ~(m.token = t /\ m.kind = "book")
      BY DEF Caches
  <2>3. BookFirst(inbox, t)
      BY <2>2 DEF CacheInv, MissingBookComes
  <2> QED
      BY <1>1, <2>2, <2>3, TailBookFirst DEF Moves
<1>4. MissingBookComes'
    BY <1>1, <1>3 DEF MissingBookComes
<1>5. ASSUME NEW t \in Tokens, NEW s \in Sides, NEW p \in Prices
      PROVE  EndsWith(r, t, s, p, Held(t, s, p)', market[t][s][p])
  <2> DEFINE new == IF Tells(m, t, s, p) THEN Told(m, s, p) ELSE Held(t, s, p)
  <2>1. EndsWith(inbox, t, s, p, Held(t, s, p), market[t][s][p])
      BY DEF CacheInv, SizesFollow
  <2>2. EndsWith(r, t, s, p, new, market[t][s][p])
      BY <1>1, <2>1, TailEndsWith
  <2>3. CASE t \in DOMAIN books'
    <3>1. t \notin DOMAIN books => Tells(m, t, s, p)
        BY <2>3 DEF Caches, Tells
    <3>2. Held(t, s, p)' = SizeAt(books'[t][s], p)
        BY <2>3 DEF Held
    <3>3. SizeAt(books'[t][s], p) = new
        BY <2>3, <3>1 DEF Caches, Held
    <3> QED
        BY <2>2, <3>2, <3>3
  <2>4. CASE t \notin DOMAIN books'
      BY <1>1, <1>3, <2>2, <2>4, AnyHeld
  <2> QED
      BY <2>3, <2>4
<1>6. SizesFollow'
  <2>1. SUFFICES ASSUME NEW t \in Tokens, NEW s \in Sides, NEW p \in Prices
                 PROVE  EndsWith(inbox', t, s, p, Held(t, s, p)', market'[t][s][p])
      BY DEF SizesFollow
  <2> QED
      BY <1>1, <1>5
<1>7. ASSUME NEW t \in Tokens, NEW s \in Sides
      PROVE  EndsAmong(r, t, s, best'[t][s], Priced(market[t][s]))
  <2>1. EndsAmong(inbox, t, s, best[t][s], Priced(market[t][s]))
      BY DEF CacheInv, BestFollows
  <2>2. CASE ~Moves(m, t, s)
    <3>1. best'[t][s] = IF Names(m, t, s) THEN m.best[s] ELSE best[t][s]
        BY <2>2 DEF Caches
    <3> QED
        BY <1>1, <2>1, <2>2, <3>1, TailEndsAmong
  <2>3. CASE Moves(m, t, s)
    \* Once nothing more moves the side, the cached levels are the market's.
    <3>1. ASSUME \A i \in 1..Len(r) : ~Moves(r[i], t, s), Priced(market[t][s]) # {}
          PROVE  best'[t][s] \in Priced(market[t][s])
      <4>1. t \in DOMAIN books'
          BY <1>3, <2>3
      <4>2. \A p \in Prices : SizeAt(books'[t][s], p) = market[t][s][p]
        <5>1. TAKE p \in Prices
        <5>2. \A i \in 1..Len(r) : ~Tells(r[i], t, s, p)
            BY <3>1 DEF Tells, Moves
        <5>3. Held(t, s, p)' = market[t][s][p]
            BY <1>5, <5>2 DEF EndsWith
        <5> QED
            BY <4>1, <5>3 DEF Held
      <4>3. IsListing(books'[t][s]) /\ market[t][s] \in Side
          BY <4>1 DEF Caches, CacheInv, CacheType
      <4>4. Lists(books'[t][s], market[t][s])
          BY <4>2, <4>3, ListsSide
      <4>5. best'[t][s] = LastPrice(books'[t][s], best[t][s])
          BY <2>3, <4>1 DEF Caches
      <4> QED
          BY <3>1, <4>4, <4>5, ListsLast
    <3> QED
        BY <1>1, <2>1, <3>1, TailEndsAmong
  <2> QED
      BY <2>2, <2>3
<1>8. BestFollows'
  <2>1. SUFFICES ASSUME NEW t \in Tokens, NEW s \in Sides
                 PROVE  EndsAmong(inbox', t, s, best'[t][s], Priced(market'[t][s]))
      BY DEF BestFollows
  <2> QED
      BY <1>1, <1>7
<1> QED
    BY <1>2, <1>4, <1>6, <1>8 DEF CacheInv

LEMMA CacheBook ==
    ASSUME CacheInv, NEW m \in Message, HandleBook(m), \A s \in Sides : IsListing(m.levels[s])
    PROVE  /\ DOMAIN books' \subseteq Tokens
           /\ \A t \in DOMAIN books' : books'[t] \in [Sides -> Seq(Level)]
           /\ best' \in [Tokens -> [Sides -> Prices \cup {0}]]
           /\ Caches(m)
<1> DEFINE u == m.token
<1>1. m.kind = "book" /\ u \in Tokens /\ m.levels \in [Sides -> Seq(Level)]
    BY DEF HandleBook, Message
<1>2. /\ DOMAIN books' = DOMAIN books \cup {u}
      /\ books'[u] = m.levels
      /\ \A t \in DOMAIN books \ {u} : books'[t] = books[t]
  <2>1. books' = [t \in DOMAIN books \cup {u} |-> IF t = u THEN m.levels ELSE books[t]]
      BY DEF HandleBook
  <2> QED
      BY <2>1
<1>3. /\ best \in [Tokens -> [Sides -> Prices \cup {0}]]
      /\ \A t \in DOMAIN books : t \in Tokens /\ books[t] \in [Sides -> Seq(Level)]
    BY DEF CacheInv, CacheType
<1>4. best' = [best EXCEPT ![u] = [s \in Sides |-> LastPrice(m.levels[s], best[u][s])]]
    BY DEF HandleBook
<1>5. \A s \in Sides : LastPrice(m.levels[s], best[u][s]) \in Prices \cup {0}
    BY <1>1, <1>3, LastPriceType
<1>6. /\ best' \in [Tokens -> [Sides -> Prices \cup {0}]]
      /\ \A s \in Sides : best'[u][s] = LastPrice(m.levels[s], best[u][s])
      /\ \A t \in Tokens \ {u} : best'[t] = best[t]
    BY <1>1, <1>3, <1>4, <1>5
<1> HIDE DEF u
<1>7. ASSUME NEW t \in DOMAIN books', NEW s \in Sides
      PROVE  /\ IsListing(books'[t][s])
             /\ \A p \in Prices :
                   SizeAt(books'[t][s], p) = IF Tells(m, t, s, p) THEN Told(m, s, p)
                                             ELSE SizeAt(books[t][s], p)
             /\ Moves(m, t, s) => best'[t][s] = LastPrice(books'[t][s], best[t][s])
  <2>1. CASE t = u
      BY <1>1, <1>2, <1>6, <2>1 DEF Tells, Told, u
  <2>2. CASE t # u
      BY <1>1, <1>2, <2>2 DEF Tells, Moves, CacheInv, BooksAreListings, u
  <2> QED
      BY <2>1, <2>2
<1>8. \A t \in Tokens, s \in Sides :
          ~Moves(m, t, s) => best'[t][s] = IF Names(m, t, s) THEN m.best[s] ELSE best[t][s]
    BY <1>1, <1>6 DEF Moves, Names, u
<1>9. DOMAIN books' \subseteq Tokens /\ \A t \in DOMAIN books' : books'[t] \in [Sides -> Seq(Level)]
    BY <1>1, <1>2, <1>3
<1>10. Caches(m)
    BY <1>1, <1>2, <1>7, <1>8 DEF Caches, u
<1> QED
    BY <1>6, <1>9, <1>10

\* A message that leaves the books alone.
LEMMA BooksKept ==
    ASSUME CacheInv, NEW m \in Message, books' = books,
           m.kind # "book", m.kind = "price_change" => m.token \notin DOMAIN books,
           \A t \in Tokens, s \in Sides :
              best'[t][s] = IF Names(m, t, s) THEN m.best[s] ELSE best[t][s]
    PROVE  Caches(m)
<1>1. \A t \in DOMAIN books, s \in Sides :
          IsListing(books[t][s]) /\ ~Moves(m, t, s) /\ \A p \in Prices : ~Tells(m, t, s, p)
    BY DEF CacheInv, BooksAreListings, Moves, Tells
<1> QED
    BY <1>1 DEF Caches

LEMMA CacheBestBidAsk ==
    ASSUME CacheInv, NEW m \in Message, HandleBestBidAsk(m)
    PROVE  best' \in [Tokens -> [Sides -> Prices \cup {0}]] /\ books' = books /\ Caches(m)
<1>1. /\ m.kind = "best_bid_ask" /\ m.token \in Tokens /\ m.best \in [Sides -> Prices \cup {0}]
      /\ books' = books /\ best \in [Tokens -> [Sides -> Prices \cup {0}]]
    BY DEF HandleBestBidAsk, Message, CacheInv, CacheType
<1>2. \A s \in Sides : m.best[s] > 0 <=> m.best[s] # 0
  <2>1. \A p \in Prices \cup {0} : p > 0 <=> p # 0
      BY OrderBookAssumption DEF OrderBookAssumption
  <2> QED
      BY <1>1, <2>1
<1>3. best' = [best EXCEPT ![m.token] = [s \in Sides |-> IF m.best[s] > 0 THEN m.best[s]
                                                          ELSE best[m.token][s]]]
    BY DEF HandleBestBidAsk
<1>4. best' \in [Tokens -> [Sides -> Prices \cup {0}]]
    BY <1>1, <1>3
<1>5. \A t \in Tokens, s \in Sides :
          best'[t][s] = IF Names(m, t, s) THEN m.best[s] ELSE best[t][s]
    BY <1>1, <1>2, <1>3 DEF Names
<1> QED
    BY <1>1, <1>4, <1>5, BooksKept

LEMMA CachePriceChange ==
    ASSUME CacheInv, NEW m \in Message, HandlePriceChange(m)
    PROVE  /\ DOMAIN books' \subseteq Tokens
           /\ \A t \in DOMAIN books' : books'[t] \in [Sides -> Seq(Level)]
           /\ best' \in [Tokens -> [Sides -> Prices \cup {0}]]
           /\ Caches(m)
<1> DEFINE u == m.token
           v == m.side
<1>1. /\ m.kind = "price_change" /\ u \in Tokens /\ v \in Sides /\ m.changes \in Seq(Level)
    BY DEF HandlePriceChange, Message
<1>2. /\ best \in [Tokens -> [Sides -> Prices \cup {0}]]
      /\ \A t \in DOMAIN books : t \in Tokens /\ books[t] \in [Sides -> Seq(Level)]
      /\ \A t \in DOMAIN books, s \in Sides : IsListing(books[t][s])
    BY DEF CacheInv, CacheType, BooksAreListings
<1>3. CASE u \notin DOMAIN books
  <2>1. UNCHANGED <<books, best>>
      BY <1>3 DEF HandlePriceChange, cacheVars
  <2>2. \A t \in Tokens, s \in Sides :
            best'[t][s] = IF Names(m, t, s) THEN m.best[s] ELSE best[t][s]
      BY <1>1, <2>1 DEF Names
  <2>3. Caches(m)
      BY <1>1, <1>3, <2>1, <2>2, BooksKept
  <2> QED
      BY <1>2, <2>1, <2>3
<1>4. CASE u \in DOMAIN books
  <2>1. PICK levels \in ApplyPriceChanges(books[u][v], m.changes) :
            /\ books' = [books EXCEPT ![u][v] = levels]
            /\ best' = [best EXCEPT ![u][v] = LastPrice(levels, @)]
      BY <1>4 DEF HandlePriceChange
  <2>2. /\ IsListing(levels)
        /\ \A p \in Prices : SizeAt(levels, p) = IF Mentions(m.changes, p) THEN SizeAt(m.changes, p)
                                                 ELSE SizeAt(books[u][v], p)
      BY <1>1, <1>2, <1>4, Applied
  <2>3. levels \in Seq(Level)
      BY <2>2, ListsLevels DEF IsListing
  <2> HIDE DEF u, v
  <2>4. /\ DOMAIN books' = DOMAIN books
        /\ \A t \in DOMAIN books : books'[t] \in [Sides -> Seq(Level)]
        /\ books'[u][v] = levels
        /\ \A t \in DOMAIN books, s \in Sides : t # u \/ s # v => books'[t][s] = books[t][s]
      BY <1>1, <1>2, <1>4, <2>1, <2>3
  <2>5. LastPrice(levels, best[u][v]) \in Prices \cup {0}
      BY <1>1, <1>2, <2>3, LastPriceType
  <2>6. /\ best' \in [Tokens -> [Sides -> Prices \cup {0}]]
        /\ best'[u][v] = LastPrice(levels, best[u][v])
        /\ \A t \in Tokens, s \in Sides : t # u \/ s # v => best'[t][s] = best[t][s]
      BY <1>1, <1>2, <2>1, <2>5
  <2>7. ASSUME NEW t \in DOMAIN books', NEW s \in Sides
        PROVE  /\ IsListing(books'[t][s])
               /\ \A p \in Prices :
                     SizeAt(books'[t][s], p) = IF Tells(m, t, s, p) THEN Told(m, s, p)
                                               ELSE SizeAt(books[t][s], p)
               /\ Moves(m, t, s) => best'[t][s] = LastPrice(books'[t][s], best[t][s])
    <3>1. CASE t = u /\ s = v
        BY <1>1, <2>2, <2>4, <2>6, <3>1 DEF Tells, Told, u, v
    <3>2. CASE t # u \/ s # v
        BY <1>1, <1>2, <2>4, <3>2 DEF Tells, Moves, u, v
    <3> QED
        BY <3>1, <3>2
  <2>8. \A t \in Tokens, s \in Sides :
            ~Moves(m, t, s) => best'[t][s] = IF Names(m, t, s) THEN m.best[s] ELSE best[t][s]
      BY <1>1, <2>6 DEF Moves, Names, u, v
  <2>9. Caches(m)
      BY <1>1, <2>4, <2>7, <2>8 DEF Caches
  <2> QED
      BY <1>2, <2>4, <2>6, <2>9
<1> QED
    BY <1>3, <1>4

LEMMA CacheHandle ==
    ASSUME CacheInv, Handle
    PROVE  CacheInv'
<1> DEFINE m == Head(inbox)
<1>1. /\ inbox # <<>> /\ inbox' = Tail(inbox) /\ market' = market
      /\ HandleBook(m) \/ HandleBestBidAsk(m) \/ HandlePriceChange(m) \/ HandleResolved(m)
    BY DEF Handle, exchangeVars
<1>2. /\ m \in Message /\ Tail(inbox) \in Seq(Message) /\ m = inbox[1] /\ 1 \in 1..Len(inbox)
  <2>1. inbox \in Seq(Message)
      BY DEF CacheInv, CacheType
  <2> QED
      BY <1>1, <2>1, TailIndices
<1> HIDE DEF m
<1>3. /\ DOMAIN books' \subseteq Tokens
      /\ \A t \in DOMAIN books' : books'[t] \in [Sides -> Seq(Level)]
      /\ best' \in [Tokens -> [Sides -> Prices \cup {0}]]
      /\ Caches(m)
  <2>1. CASE HandleBook(m)
    <3>1. \A s \in Sides : IsListing(m.levels[s])
        BY <1>2, <2>1 DEF HandleBook, CacheInv, BooksAreListings
    <3> QED
        BY <1>2, <2>1, <3>1, CacheBook
  <2>2. CASE HandleBestBidAsk(m)
      BY <1>2, <2>2, CacheBestBidAsk DEF CacheInv, CacheType
  <2>3. CASE HandlePriceChange(m)
      BY <1>2, <2>3, CachePriceChange
  <2>4. CASE HandleResolved(m)
    <3>1. m.kind = "market_resolved" /\ UNCHANGED <<books, best>>
        BY <2>4 DEF HandleResolved, cacheVars
    <3>2. \A t \in Tokens, s \in Sides :
              best'[t][s] = IF Names(m, t, s) THEN m.best[s] ELSE best[t][s]
        BY <3>1 DEF Names
    <3> QED
        BY <1>2, <3>1, <3>2, BooksKept DEF CacheInv, CacheType
  <2> QED
      BY <1>1, <2>1, <2>2, <2>3, <2>4
<1>4. CacheType'
    BY <1>1, <1>2, <1>3 DEF CacheInv, CacheType
<1> QED
    BY <1>1, <1>3, <1>4, CacheHandled DEF m

LEMMA CacheIgnore ==
    ASSUME CacheInv, Ignore
    PROVE  CacheInv'
<1> DEFINE m == Head(inbox)
<1>1. /\ inbox # <<>> /\ inbox' = Tail(inbox) /\ UNCHANGED <<market, books, best>>
      /\ m.kind = "best_bid_ask" /\ \A s \in Sides : m.best[s] = 0
    BY DEF Ignore, exchangeVars, cacheVars
<1>2. inbox \in Seq(Message)
    BY DEF CacheInv, CacheType
<1>3. m \in Message /\ Tail(inbox) \in Seq(Message)
    BY <1>1, <1>2, TailIndices
<1> HIDE DEF m
<1>4. \A t \in Tokens, s \in Sides :
          best'[t][s] = IF Names(m, t, s) THEN m.best[s] ELSE best[t][s]
    BY <1>1 DEF Names
<1>5. Caches(m)
    BY <1>1, <1>3, <1>4, BooksKept
<1>6. CacheType'
    BY <1>1, <1>3 DEF CacheInv, CacheType
<1> QED
    BY <1>1, <1>5, <1>6, CacheHandled DEF m

\* A resolution is appended: it neither moves a side nor names a price.
LEMMA CacheResolved ==
    ASSUME CacheInv, NEW t \in Tokens, MarketResolved(t)
    PROVE  CacheInv'
<1> DEFINE m == [token |-> t, kind |-> "market_resolved"]
<1>1. inbox' = Append(inbox, m) /\ UNCHANGED <<market, books, best>>
    BY DEF MarketResolved, cacheVars
<1>2. m \in Message /\ m.kind = "market_resolved"
    BY DEF Message
<1>3. inbox \in Seq(Message)
    BY DEF CacheInv, CacheType
<1> HIDE DEF m
<1>4. /\ Append(inbox, m) \in Seq(Message) /\ Len(inbox) \in Nat
      /\ \A i \in 1..Len(Append(inbox, m)) :
            (i \in 1..Len(inbox) /\ Append(inbox, m)[i] = inbox[i]) \/ Append(inbox, m)[i] = m
    BY <1>2, <1>3, AppendIndices
<1>5. CacheType'
    BY <1>1, <1>4 DEF CacheInv, CacheType
<1>6. BooksAreListings'
    BY <1>1, <1>2, <1>4 DEF CacheInv, BooksAreListings
<1>7. MissingBookComes'
    BY <1>1, <1>2, <1>3, AppendBookFirst DEF CacheInv, MissingBookComes
<1>8. SizesFollow'
  <2>1. SUFFICES ASSUME NEW u \in Tokens, NEW v \in Sides, NEW p \in Prices
                 PROVE  EndsWith(inbox', u, v, p, Held(u, v, p)', market'[u][v][p])
      BY DEF SizesFollow
  <2>2. Held(u, v, p)' = Held(u, v, p) /\ EndsWith(inbox, u, v, p, Held(u, v, p), market[u][v][p])
      BY <1>1 DEF Held, CacheInv, SizesFollow
  <2>3. ~Tells(m, u, v, p)
      BY <1>2 DEF Tells
  <2> QED
      BY <1>1, <1>2, <1>3, <2>2, <2>3, AppendEndsWith
<1>9. BestFollows'
  <2>1. SUFFICES ASSUME NEW u \in Tokens, NEW v \in Sides
                 PROVE  EndsAmong(inbox', u, v, best'[u][v], Priced(market'[u][v]))
      BY DEF BestFollows
  <2>2. EndsAmong(inbox, u, v, best[u][v], Priced(market[u][v])) /\ ~Names(m, u, v)
      BY <1>2 DEF CacheInv, BestFollows, Names
  <2> QED
      BY <1>1, <1>2, <1>3, <2>2, AppendEndsAmong
<1> QED
    BY <1>5, <1>6, <1>7, <1>8, <1>9 DEF CacheInv

LEMMA CacheStep == CacheInv /\ [Next]_vars => CacheInv'
<1> SUFFICES ASSUME CacheInv, [Next]_vars PROVE CacheInv'
    OBVIOUS
<1>1. ASSUME UNCHANGED <<market, inbox, books, best>>
      PROVE  CacheInv'
    BY <1>1 DEF CacheInv, CacheType, BooksAreListings, MissingBookComes, SizesFollow, BestFollows,
       Held
<1>2. CASE FanOut
    BY <1>1, <1>2 DEF FanOut, exchangeVars, cacheVars
<1>3. ASSUME NEW l \in Listeners, AddListener(l) \/ Receive(l) \/ Look(l)
      PROVE  CacheInv'
    BY <1>1, <1>3 DEF AddListener, Receive, Look, exchangeVars, cacheVars
<1>4. CASE UNCHANGED vars
    BY <1>1, <1>4 DEF vars, exchangeVars, cacheVars
<1> QED
    BY <1>2, <1>3, <1>4, CacheMarketMoves, CacheResolved, CacheReconnect, CacheIgnore, CacheHandle
       DEF Next

LEMMA CacheHolds == Spec => []CacheInv
BY CacheInit, CacheStep, PTL DEF Spec

\* Any sequence of books, changes and reconnects, once handled, leaves the
\* market's levels in the cache, each once (wsfeed.go:554, :608, :643): for any
\* tokens, prices and sizes.
THEOREM QuietBookFollowsLevels == Spec => []QuietBookIsMarket
<1>1. CacheInv => QuietBookIsMarket
  <2>1. SUFFICES ASSUME CacheInv, NEW t \in Tokens, Quiet(t)
                 PROVE  /\ t \in DOMAIN books
                        /\ \A s \in Sides :
                              /\ ToSet(books[t][s]) = Levels(market[t][s])
                              /\ Len(books[t][s]) = Cardinality(Levels(market[t][s]))
      BY DEF QuietBookIsMarket
  <2>2. \A i \in 1..Len(inbox) : inbox[i].token # t
      BY <2>1, LenProperties DEF Quiet, CacheInv, CacheType
  <2>3. t \in DOMAIN books
      BY <2>1, <2>2 DEF CacheInv, MissingBookComes, BookFirst
  <2>4. ASSUME NEW s \in Sides
        PROVE  Lists(books[t][s], market[t][s])
    <3>1. ASSUME NEW p \in Prices
          PROVE  SizeAt(books[t][s], p) = market[t][s][p]
      <4>1. EndsWith(inbox, t, s, p, Held(t, s, p), market[t][s][p])
          BY <2>1 DEF CacheInv, SizesFollow
      <4>2. \A i \in 1..Len(inbox) : ~Tells(inbox[i], t, s, p)
          BY <2>2 DEF Tells
      <4> QED
          BY <2>3, <4>1, <4>2 DEF EndsWith, Held
    <3>2. IsListing(books[t][s]) /\ market[t][s] \in Side
        BY <2>1, <2>3 DEF CacheInv, CacheType, BooksAreListings
    <3> QED
        BY <3>1, <3>2, ListsSide
  <2> QED
      BY <2>3, <2>4, ListsLevels
<1> QED
    BY CacheHolds, <1>1, PTL

\* The best price of a quiet, non-empty side has a level: the last level of a
\* listing does, in whatever order the map gave them.
THEOREM QuietBestHasLevel == Spec => []QuietBestIsALevel
<1>1. CacheInv => QuietBestIsALevel
  <2>1. SUFFICES ASSUME CacheInv, NEW t \in Tokens, NEW s \in Sides, Quiet(t),
                        Priced(market[t][s]) # {}
                 PROVE  best[t][s] \in Priced(market[t][s])
      BY DEF QuietBestIsALevel
  <2>2. \A i \in 1..Len(inbox) : ~Moves(inbox[i], t, s)
      BY <2>1, LenProperties DEF Quiet, CacheInv, CacheType, Moves
  <2>3. EndsAmong(inbox, t, s, best[t][s], Priced(market[t][s]))
      BY <2>1 DEF CacheInv, BestFollows
  <2> QED
      BY <2>1, <2>2, <2>3 DEF EndsAmong
<1> QED
    BY CacheHolds, <1>1, PTL

-----------------------------------------------------------------------------
(* The listeners.                                                          *)

\* The rest of the type invariant; an update is announced one at a time.
ListenerType ==
    /\ moves \in 0..MaxMoves
    /\ telling \subseteq Update
    /\ \A u, v \in telling : u = v
    /\ listening \subseteq Listeners
    /\ queue \in [Listeners -> Seq(Update)]
    /\ \A l \in Listeners : Len(queue[l]) <= ListenerCap
    /\ reading \in [Listeners -> SUBSET Update]
    /\ unseen \in [Listeners -> SUBSET Update]
    /\ dropped \in [Listeners -> SUBSET Update]

WakeInv ==
    /\ ListenerType
    /\ MissedOnlyWhenFull
    /\ \A l \in Listeners \ listening : unseen[l] = {}

LEMMA AppendHas ==
    ASSUME NEW q \in Seq(Update), NEW u \in Update
    PROVE  /\ Append(q, u) \in Seq(Update)
           /\ Len(Append(q, u)) = Len(q) + 1
           /\ ToSet(Append(q, u)) = ToSet(q) \cup {u}
<1>1. /\ Append(q, u) \in Seq(Update) /\ Len(q) \in Nat /\ DOMAIN q = 1..Len(q)
      /\ Len(Append(q, u)) = Len(q) + 1 /\ DOMAIN Append(q, u) = 1..(Len(q) + 1)
      /\ \A i \in 1..Len(q) : Append(q, u)[i] = q[i]
      /\ Append(q, u)[Len(q) + 1] = u
    BY AppendProperties, LenProperties
<1>2. ASSUME NEW i \in 1..(Len(q) + 1)
      PROVE  Append(q, u)[i] \in ToSet(q) \cup {u}
  <2>1. CASE i = Len(q) + 1
      BY <1>1, <2>1
  <2>2. CASE i \in 1..Len(q)
      BY <1>1, <2>2 DEF ToSet
  <2> QED
      BY <1>1, <2>1, <2>2
<1>3. ASSUME NEW i \in 1..Len(q)
      PROVE  q[i] \in ToSet(Append(q, u))
  <2>1. i \in DOMAIN Append(q, u) /\ Append(q, u)[i] = q[i]
      BY <1>1, <1>3
  <2> QED
      BY <2>1 DEF ToSet
<1>4. u \in ToSet(Append(q, u))
  <2>1. Len(q) + 1 \in DOMAIN Append(q, u)
      BY <1>1
  <2> QED
      BY <1>1, <2>1 DEF ToSet
<1>5. ToSet(Append(q, u)) \subseteq ToSet(q) \cup {u}
    BY <1>1, <1>2 DEF ToSet
<1>6. ToSet(q) \subseteq ToSet(Append(q, u))
    BY <1>1, <1>3 DEF ToSet
<1> QED
    BY <1>1, <1>4, <1>5, <1>6

LEMMA TailHas ==
    ASSUME NEW q \in Seq(Update), q # <<>>
    PROVE  /\ Head(q) \in Update /\ Tail(q) \in Seq(Update)
           /\ Len(Tail(q)) = Len(q) - 1
           /\ ToSet(q) \subseteq {Head(q)} \cup ToSet(Tail(q))
<1>1. /\ Head(q) \in Update /\ Tail(q) \in Seq(Update) /\ Head(q) = q[1]
      /\ Len(Tail(q)) = Len(q) - 1 /\ Len(q) \in Nat /\ Len(q) > 0
      /\ DOMAIN q = 1..Len(q) /\ DOMAIN Tail(q) = 1..(Len(q) - 1)
      /\ \A i \in 1..(Len(q) - 1) : Tail(q)[i] = q[i + 1]
    BY HeadTailProperties, LenProperties, EmptySeq
<1>2. ASSUME NEW i \in 1..Len(q), i # 1
      PROVE  q[i] \in ToSet(Tail(q))
  <2>1. i - 1 \in 1..(Len(q) - 1) /\ Tail(q)[i - 1] = q[i]
      BY <1>1, <1>2
  <2> QED
      BY <1>1, <2>1 DEF ToSet
<1> QED
    BY <1>1, <1>2 DEF ToSet

\* What fanOut's send leaves in a channel: what was there, and the update
\* itself unless the channel is full.
LEMMA SendKeeps ==
    ASSUME NEW q \in Seq(Update), Len(q) <= ListenerCap, NEW u \in Update
    PROVE  /\ Send(q, u) \in Seq(Update) /\ Len(Send(q, u)) <= ListenerCap
           /\ ToSet(q) \subseteq ToSet(Send(q, u))
           /\ Full(q) \/ u \in ToSet(Send(q, u))
<1>1. Len(q) \in Nat /\ ListenerCap \in Nat
    BY LenProperties, OrderBookAssumption DEF OrderBookAssumption
<1>2. CASE Full(q)
    BY <1>2 DEF Send
<1>3. CASE ~Full(q)
    BY <1>1, <1>3, AppendHas DEF Send, Full
<1> QED
    BY <1>2, <1>3

LEMMA WakeInit == Init => WakeInv
<1> SUFFICES ASSUME Init PROVE WakeInv
    OBVIOUS
<1>1. /\ moves = 0 /\ telling = {} /\ listening = {}
      /\ queue = [l \in Listeners |-> <<>>]
      /\ reading = [l \in Listeners |-> {}]
      /\ unseen = [l \in Listeners |-> {}]
      /\ dropped = [l \in Listeners |-> {}]
    BY Zenon DEF Init
<1>2. 0 \in 0..MaxMoves /\ 0 <= ListenerCap
    BY OrderBookAssumption DEF OrderBookAssumption
<1>3. <<>> \in Seq(Update) /\ Len(<<>>) = 0
    BY EmptySeq
<1> QED
    BY <1>1, <1>2, <1>3 DEF WakeInv, ListenerType, MissedOnlyWhenFull

\* The steps that leave the listeners and the announcement alone.
LEMMA WakeUnchanged ==
    ASSUME WakeInv, UNCHANGED <<telling, listenerVars>>, moves' \in 0..MaxMoves
    PROVE  WakeInv'
BY DEF WakeInv, ListenerType, MissedOnlyWhenFull, Coming, listenerVars

\* Whoever listens has something to see, and is about to be told.
LEMMA WakeHandle ==
    ASSUME WakeInv, CacheInv, Handle
    PROVE  WakeInv'
<1>1. Head(inbox) \in Message
  <2>1. inbox # <<>> /\ inbox \in Seq(Message)
      BY DEF Handle, CacheInv, CacheType
  <2> QED
      BY <2>1, TailIndices
<1>2. PICK u \in Update : u = About(Head(inbox))
  <2>1. Head(inbox).token \in Tokens
      BY <1>1 DEF Message
  <2>2. (Head(inbox).type = "resolved") \in BOOLEAN
      OBVIOUS
  <2>3. About(Head(inbox)) \in Update
      BY <2>1, <2>2 DEF About, Update
  <2> QED
      BY <2>3
<1>3. /\ telling = {} /\ telling' = {u}
      /\ unseen' = [l \in Listeners |-> IF l \in listening THEN unseen[l] \cup {u} ELSE unseen[l]]
      /\ UNCHANGED <<moves, listening, queue, reading, dropped>>
    BY <1>2 DEF Handle, exchangeVars
<1>4. ListenerType'
    BY <1>3 DEF WakeInv, ListenerType
<1>5. MissedOnlyWhenFull'
    BY <1>3 DEF WakeInv, ListenerType, MissedOnlyWhenFull, Coming
<1> QED
    BY <1>3, <1>4, <1>5 DEF WakeInv

LEMMA WakeFanOut ==
    ASSUME WakeInv, FanOut
    PROVE  WakeInv'
<1>1. PICK u \in telling :
        /\ queue' = [l \in Listeners |-> IF l \in listening THEN Send(queue[l], u) ELSE queue[l]]
        /\ dropped' = [l \in Listeners |->
                          IF l \in listening /\ Lost(l, u) THEN dropped[l] \cup {u}
                          ELSE dropped[l] \ {u}]
        /\ telling' = {}
        /\ UNCHANGED <<moves, listening, reading, unseen>>
    BY DEF FanOut, exchangeVars
<1>2. u \in Update /\ telling = {u}
    BY DEF WakeInv, ListenerType
<1>3. ASSUME NEW l \in Listeners
      PROVE  /\ queue'[l] \in Seq(Update) /\ Len(queue'[l]) <= ListenerCap
             /\ ToSet(queue[l]) \subseteq ToSet(queue'[l])
             /\ l \in listening => Full(queue[l]) \/ u \in ToSet(queue'[l])
             /\ dropped'[l] \subseteq Update
  <2>1. queue[l] \in Seq(Update) /\ Len(queue[l]) <= ListenerCap /\ dropped[l] \subseteq Update
      BY DEF WakeInv, ListenerType
  <2> QED
      BY <1>1, <1>2, <2>1, SendKeeps
<1>4. ListenerType'
  <2>1. queue' \in [Listeners -> Seq(Update)] /\ dropped' \in [Listeners -> SUBSET Update]
      BY <1>1, <1>3
  <2> QED
      BY <1>1, <1>3, <2>1 DEF WakeInv, ListenerType
<1>5. ASSUME NEW l \in Listeners, NEW n \in unseen'[l]
      PROVE  n \in (Coming(l) \cup dropped[l])'
  <2>1. n \in {u} \cup ToSet(queue[l]) \cup reading[l] \cup dropped[l] /\ l \in listening
      BY <1>1, <1>2, <1>5 DEF WakeInv, MissedOnlyWhenFull, Coming
  <2>2. CASE n = u
    <3>1. Lost(l, u) \/ u \in ToSet(queue'[l])
        BY <1>3, <2>1 DEF Lost
    <3> QED
        BY <1>1, <2>1, <2>2, <3>1 DEF Coming
  <2>3. CASE n # u
      BY <1>1, <1>3, <2>1, <2>3 DEF Coming
  <2> QED
      BY <2>2, <2>3
<1> QED
    BY <1>1, <1>4, <1>5 DEF WakeInv, MissedOnlyWhenFull

\* The update a listener takes is replaced by its being about to act on it.
LEMMA WakeReceive ==
    ASSUME WakeInv, NEW l \in Listeners, Receive(l)
    PROVE  WakeInv'
<1>1. /\ reading[l] = {} /\ queue[l] # <<>>
      /\ reading' = [reading EXCEPT ![l] = {Head(queue[l])}]
      /\ queue' = [queue EXCEPT ![l] = Tail(queue[l])]
      /\ UNCHANGED <<moves, telling, listening, unseen, dropped>>
    BY DEF Receive, exchangeVars
<1>2. /\ queue[l] \in Seq(Update) /\ Len(queue[l]) \in Nat /\ Len(queue[l]) <= ListenerCap
      /\ ListenerCap \in Nat
    BY LenProperties, OrderBookAssumption DEF WakeInv, ListenerType, OrderBookAssumption
<1>3. /\ Head(queue[l]) \in Update /\ Tail(queue[l]) \in Seq(Update)
      /\ Len(Tail(queue[l])) = Len(queue[l]) - 1
      /\ ToSet(queue[l]) \subseteq {Head(queue[l])} \cup ToSet(Tail(queue[l]))
    BY <1>1, <1>2, TailHas
<1>4. /\ reading'[l] = {Head(queue[l])} /\ queue'[l] = Tail(queue[l])
      /\ \A k \in Listeners \ {l} : reading'[k] = reading[k] /\ queue'[k] = queue[k]
    BY <1>1 DEF WakeInv, ListenerType
<1>5. ListenerType'
  <2>1. \A k \in Listeners : Len(queue'[k]) <= ListenerCap
    <3>1. Len(queue'[l]) <= ListenerCap
        BY <1>2, <1>3, <1>4
    <3> QED
        BY <1>4, <3>1 DEF WakeInv, ListenerType
  <2>2. queue' \in [Listeners -> Seq(Update)] /\ reading' \in [Listeners -> SUBSET Update]
      BY <1>1, <1>3 DEF WakeInv, ListenerType
  <2> QED
      BY <1>1, <2>1, <2>2 DEF WakeInv, ListenerType
<1>6. MissedOnlyWhenFull'
    BY <1>1, <1>3, <1>4 DEF WakeInv, MissedOnlyWhenFull, Coming
<1> QED
    BY <1>1, <1>5, <1>6 DEF WakeInv

LEMMA WakeLook ==
    ASSUME WakeInv, NEW l \in Listeners, Look(l)
    PROVE  WakeInv'
<1>1. /\ reading' = [reading EXCEPT ![l] = {}]
      /\ unseen' = [unseen EXCEPT ![l] = @ \ reading[l]]
      /\ dropped' = [dropped EXCEPT ![l] = @ \ reading[l]]
      /\ UNCHANGED <<moves, telling, listening, queue>>
    BY DEF Look, exchangeVars
<1>2. ListenerType'
    BY <1>1 DEF WakeInv, ListenerType
<1>3. ASSUME NEW k \in Listeners
      PROVE  unseen'[k] \subseteq (Coming(k) \cup dropped[k])' /\ (unseen[k] = {} => unseen'[k] = {})
    BY <1>1 DEF WakeInv, ListenerType, MissedOnlyWhenFull, Coming
<1> QED
    BY <1>1, <1>2, <1>3 DEF WakeInv, MissedOnlyWhenFull

LEMMA WakeStep == WakeInv /\ CacheInv /\ [Next]_vars => WakeInv'
<1> SUFFICES ASSUME WakeInv, CacheInv, [Next]_vars PROVE WakeInv'
    OBVIOUS
<1>0. moves \in 0..MaxMoves /\ (moves < MaxMoves => moves + 1 \in 0..MaxMoves)
    BY OrderBookAssumption DEF OrderBookAssumption, WakeInv, ListenerType
<1>1. ASSUME NEW t \in Tokens, NEW s \in Sides, NEW new \in Side, MarketMoves(t, s, new)
      PROVE  WakeInv'
    BY <1>0, <1>1, WakeUnchanged DEF MarketMoves
<1>2. ASSUME NEW t \in Tokens, MarketResolved(t)
      PROVE  WakeInv'
    BY <1>0, <1>2, WakeUnchanged DEF MarketResolved
<1>3. CASE Reconnect
    BY <1>0, <1>3, WakeUnchanged DEF Reconnect, exchangeVars
<1>4. CASE Ignore
    BY <1>0, <1>4, WakeUnchanged DEF Ignore, exchangeVars
<1>5. ASSUME NEW l \in Listeners, AddListener(l)
      PROVE  WakeInv'
    BY <1>5 DEF AddListener, WakeInv, ListenerType, MissedOnlyWhenFull, Coming, exchangeVars
<1>6. CASE UNCHANGED vars
    BY <1>0, <1>6, WakeUnchanged DEF vars, exchangeVars
<1> QED
    BY <1>1, <1>2, <1>3, <1>4, <1>5, <1>6, WakeHandle, WakeFanOut, WakeReceive, WakeLook DEF Next

LEMMA WakeHolds == Spec => []WakeInv
BY CacheInit, CacheStep, WakeInit, WakeStep, PTL DEF Spec

\* wsfeed.go:671: for any tokens and listeners and any capacity of their
\* channels, fanOut keeps news of a token, or its resolution, from a listener
\* only when the last update that says so met a channel full of others; what
\* the listener was told of before it, it still reads.
THEOREM OnlyFullChannelsMiss == Spec => []MissedOnlyWhenFull
<1>1. WakeInv => MissedOnlyWhenFull
    BY DEF WakeInv
<1> QED
    BY WakeHolds, <1>1, PTL

\* The type invariant: the maps of the cache, the messages and the listeners'
\* channels hold what wsfeed.go puts there.
THEOREM BookTypeCorrect == Spec => []TypeOK
<1>1. CacheInv /\ WakeInv => TypeOK
    BY DEF CacheInv, CacheType, WakeInv, ListenerType, TypeOK
<1> QED
    BY CacheHolds, WakeHolds, <1>1, PTL
=============================================================================
