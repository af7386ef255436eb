--------------------------- MODULE StartupProofs ---------------------------
(***************************************************************************)
(* What a fee check and the runs after it make of the exchange's answers,  *)
(* for every market, answer, number of checks and of runs.                 *)
(*                                                                         *)
(* The selection: the keys by which markets and cycles are ranked are      *)
(* fractions compared left to right, a strict order that only equal names  *)
(* tie in, so that ranking a finite set puts each element in one place.    *)
(* The loop of the bounded universe is then followed turn by turn: what it *)
(* has taken is within both caps, in whole pairs, and only grows, and each *)
(* pair it passed over did not fit beside pairs ranked above it.           *)
(*                                                                         *)
(* The fees: those charged come from a whole check and are conservative.   *)
(***************************************************************************)
EXTENDS Startup, RatioProofs, SequenceTheorems

-----------------------------------------------------------------------------
(* Numbers and keys.                                                       *)

(* Keys of one length are ordered by the first numbers that differ.         *)
LEMMA KeysOrdered ==
    ASSUME NEW n \in Nat, NEW s \in [1..n -> Value], NEW t \in [1..n -> Value],
           NEW u \in [1..n -> Value]
    PROVE  /\ ~Precedes(s, s)
           /\ Precedes(s, t) /\ Precedes(t, u) => Precedes(s, u)
           /\ Precedes(s, t) \/ Precedes(t, s) \/ \A i \in 1..n : Same(s[i], t[i])
<1> DEFINE First(p, q, i) == ~Leq(q[i], p[i])
                             /\ \A j \in 1..(i - 1) : Leq(p[j], q[j]) /\ Leq(q[j], p[j])
<1>1. ASSUME NEW p \in [1..n -> Value], NEW q \in [1..n -> Value]
      PROVE  Precedes(p, q) <=> \E i \in 1..n : First(p, q, i)
  <2>1. \A i \in 1..n : Less(p[i], q[i]) <=> ~Leq(q[i], p[i])
    BY ValuesOrdered
  <2>2. ASSUME NEW i \in 1..n, NEW j \in 1..(i - 1)
        PROVE  Same(p[j], q[j]) <=> Leq(p[j], q[j]) /\ Leq(q[j], p[j])
    <3>1. p[j] \in Value /\ q[j] \in Value
      OBVIOUS
    <3> QED  BY <3>1, ValuesOrdered
  <2>3. DOMAIN p = 1..n
    OBVIOUS
  <2> QED  BY <2>1, <2>2, <2>3 DEF Precedes
<1>2. ~Precedes(s, s)
  <2>1. \A i \in 1..n : Leq(s[i], s[i])
    BY ValuesOrdered
  <2> QED  BY <1>1, <2>1
<1>3. ASSUME NEW i \in 1..n, First(s, t, i), NEW k \in 1..n, First(t, u, k)
      PROVE  \E m \in 1..n : First(s, u, m)
  <2> DEFINE m == IF i <= k THEN i ELSE k
  <2>1. m \in 1..n /\ m <= i /\ m <= k
    OBVIOUS
  <2>2. /\ s[m] \in Value /\ t[m] \in Value /\ u[m] \in Value
        /\ Leq(s[m], t[m]) /\ Leq(t[m], u[m])
    <3> HIDE DEF m
    <3>1. s[m] \in Value /\ t[m] \in Value /\ u[m] \in Value
      BY <2>1
    <3>2. Leq(s[m], t[m])
      <4>1. CASE m = i
        BY <4>1, <3>1, <1>3, ValuesOrdered
      <4>2. CASE m < i
        BY <4>2, <2>1, <1>3
      <4> QED  BY <4>1, <4>2, <2>1
    <3>3. Leq(t[m], u[m])
      <4>1. CASE m = k
        BY <4>1, <3>1, <1>3, ValuesOrdered
      <4>2. CASE m < k
        BY <4>2, <2>1, <1>3
      <4> QED  BY <4>1, <4>2, <2>1
    <3> QED  BY <3>1, <3>2, <3>3
  <2>3. ~Leq(u[m], s[m])
    <3>1. CASE m = i
      <4>1. ~Leq(t[m], s[m])
        BY <3>1, <1>3
      <4> HIDE DEF m
      <4> QED  BY <4>1, <2>2, LeqTransitive
    <3>2. CASE m = k
      <4>1. ~Leq(u[m], t[m])
        BY <3>2, <1>3
      <4> HIDE DEF m
      <4> QED  BY <4>1, <2>2, LeqTransitive
    <3> QED  BY <3>1, <3>2
  <2>4. ASSUME NEW j \in 1..(m - 1) PROVE Leq(s[j], u[j]) /\ Leq(u[j], s[j])
    <3> HIDE DEF m
    <3>1. s[j] \in Value /\ t[j] \in Value /\ u[j] \in Value
          /\ j \in 1..(i - 1) /\ j \in 1..(k - 1)
      BY <2>1
    <3>2. Leq(s[j], t[j]) /\ Leq(t[j], s[j]) /\ Leq(t[j], u[j]) /\ Leq(u[j], t[j])
      BY <3>1, <1>3
    <3> QED  BY <3>1, <3>2, LeqTransitive
  <2> HIDE DEF m
  <2> QED  BY <2>1, <2>3, <2>4
<1>4. Precedes(s, t) /\ Precedes(t, u) => Precedes(s, u)
  <2> HIDE DEF First
  <2> QED  BY <1>1, <1>3
<1>5. ASSUME ~ \A i \in 1..n : Same(s[i], t[i])
      PROVE  Precedes(s, t) \/ Precedes(t, s)
  <2> DEFINE Apart == {i \in 1..n : ~Same(s[i], t[i])}
  <2>1. Apart \in SUBSET Nat /\ Apart # {}
    BY <1>5
  <2>2. PICK i \in Apart : \A j \in Apart : i <= j
    <3> HIDE DEF Apart
    <3> QED  BY <2>1, LeastNatural
  <2>3. i \in 1..n /\ ~(Leq(s[i], t[i]) /\ Leq(t[i], s[i]))
    BY ValuesOrdered
  <2>4. ASSUME NEW j \in 1..(i - 1) PROVE Leq(s[j], t[j]) /\ Leq(t[j], s[j])
    <3>1. j \in 1..n /\ j \notin Apart
      BY <2>2, <2>3
    <3> QED  BY <3>1, ValuesOrdered
  <2>5. First(s, t, i) \/ First(t, s, i)
    BY <2>3, <2>4
  <2> HIDE DEF First
  <2> QED  BY <1>1, <2>3, <2>5
<1> QED  BY <1>2, <1>4, <1>5

-----------------------------------------------------------------------------
(* Sorting a finite set.                                                   *)

\* A strict order of S, as a set of pairs.
StrictOrder(S, R) ==
    /\ \A x \in S : <<x, x>> \notin R
    /\ \A x, y, z \in S : <<x, y>> \in R /\ <<y, z>> \in R => <<x, z>> \in R

Below(S, R, x) == {y \in S : <<y, x>> \in R}

(* What is below another has fewer below it.                                *)
LEMMA FewerBelow ==
    ASSUME NEW S, IsFiniteSet(S), NEW R, StrictOrder(S, R)
    PROVE  /\ \A x \in S : Cardinality(Below(S, R, x)) \in 0..(Cardinality(S) - 1)
           /\ \A x, y \in S : <<x, y>> \in R =>
                  Cardinality(Below(S, R, x)) < Cardinality(Below(S, R, y))
<1>1. ASSUME NEW x \in S
      PROVE  /\ Below(S, R, x) \subseteq S /\ x \notin Below(S, R, x)
             /\ IsFiniteSet(Below(S, R, x)) /\ Cardinality(Below(S, R, x)) \in Nat
  <2>1. Below(S, R, x) \subseteq S /\ x \notin Below(S, R, x)
    BY DEF Below, StrictOrder
  <2> QED  BY <2>1, FS_Subset, FS_CardinalityType
<1>2. ASSUME NEW T, IsFiniteSet(T), NEW U \in SUBSET T, U # T
      PROVE  Cardinality(U) < Cardinality(T)
  <2>1. /\ IsFiniteSet(U) /\ Cardinality(U) <= Cardinality(T)
        /\ Cardinality(T) # Cardinality(U)
    BY <1>2, FS_Subset
  <2> QED  BY <2>1, <1>2, FS_CardinalityType
<1>3. \A x \in S : Cardinality(Below(S, R, x)) \in 0..(Cardinality(S) - 1)
  <2> SUFFICES ASSUME NEW x \in S
               PROVE  Cardinality(Below(S, R, x)) \in 0..(Cardinality(S) - 1)
    OBVIOUS
  <2>1. Cardinality(Below(S, R, x)) < Cardinality(S)
    BY <1>1, <1>2
  <2> QED  BY <1>1, <2>1, FS_CardinalityType
<1>4. ASSUME NEW x \in S, NEW y \in S, <<x, y>> \in R
      PROVE  Cardinality(Below(S, R, x)) < Cardinality(Below(S, R, y))
  <2>1. Below(S, R, x) \in SUBSET Below(S, R, y) /\ x \in Below(S, R, y)
    BY <1>4 DEF Below, StrictOrder
  <2>2. Below(S, R, x) # Below(S, R, y)
    BY <1>1, <2>1
  <2> QED  BY <1>1, <1>2, <2>1, <2>2
<1> QED  BY <1>3, <1>4

(* A finite nonempty set has an element that nothing is below.              *)
LEMMA LeastOf ==
    ASSUME NEW S, IsFiniteSet(S), S # {}, NEW R, StrictOrder(S, R)
    PROVE  \E x \in S : \A y \in S : <<y, x>> \notin R
<1> DEFINE sizes == {Cardinality(Below(S, R, x)) : x \in S}
<1>1. sizes \in SUBSET Nat /\ sizes # {}
  BY FewerBelow
<1>2. PICK n \in sizes : \A m \in sizes : n <= m
  BY <1>1, LeastNatural
<1>3. PICK x \in S : n = Cardinality(Below(S, R, x))
  BY <1>2
<1>4. ASSUME NEW y \in S, <<y, x>> \in R PROVE FALSE
  <2>1. Cardinality(Below(S, R, y)) < n /\ n <= Cardinality(Below(S, R, y))
    BY <1>2, <1>3, <1>4, FewerBelow
  <2>2. n \in Nat /\ Cardinality(Below(S, R, y)) \in Nat
    BY <1>1
  <2> QED  BY <2>1, <2>2
<1> QED  BY <1>4

\* A sequence of the elements of S by how many are below them.
Sorts(q, S, R) ==
    /\ q = [k \in 1..Cardinality(S) |-> q[k]]
    /\ \A k \in 1..Cardinality(S) :
           (\E x \in S : Cardinality(Below(S, R, x)) = k - 1) =>
               q[k] \in S /\ Cardinality(Below(S, R, q[k])) = k - 1

(* If the order is total, all elements are sorted, each once, in order.     *)
LEMMA SortedOK ==
    ASSUME NEW S, IsFiniteSet(S), NEW R, StrictOrder(S, R),
           \A x, y \in S : x = y \/ <<x, y>> \in R \/ <<y, x>> \in R,
           NEW q, Sorts(q, S, R)
    PROVE  /\ Cardinality(S) \in Nat /\ q \in Seq(S) /\ Len(q) = Cardinality(S)
           /\ {q[k] : k \in 1..Cardinality(S)} = S
           /\ \A i, j \in 1..Cardinality(S) : i < j => <<q[i], q[j]>> \in R
<1> DEFINE n == Cardinality(S)
           size == [x \in S |-> Cardinality(Below(S, R, x)) + 1]
<1>1. n \in Nat
  BY FS_CardinalityType
<1>2. size \in Injection(S, 1..n)
  <2>1. size \in [S -> 1..n]
    BY <1>1, FewerBelow
  <2>2. ASSUME NEW x \in S, NEW y \in S, size[x] = size[y] PROVE x = y
    <3>1. Cardinality(Below(S, R, x)) \in Nat /\ Cardinality(Below(S, R, y)) \in Nat
      BY <1>1, FewerBelow
    <3>2. Cardinality(Below(S, R, x)) = Cardinality(Below(S, R, y))
      BY <3>1, <2>2
    <3>3. <<x, y>> \notin R /\ <<y, x>> \notin R
      BY <3>1, <3>2, FewerBelow
    <3> QED  BY <3>3
  <2> HIDE DEF size
  <2> QED  BY <2>1, <2>2 DEF Injection, IsInjective
<1>3. IsFiniteSet(1..n) /\ Cardinality(1..n) = n
  BY <1>1, FS_Interval
<1>4. size \in Surjection(S, 1..n)
  <2> HIDE DEF size
  <2> QED  BY <1>2, <1>3, FS_Injection
<1>5. ASSUME NEW k \in 1..n
      PROVE  q[k] \in S /\ Cardinality(Below(S, R, q[k])) = k - 1
  <2>1. PICK x \in S : size[x] = k
    <3> HIDE DEF size
    <3> QED  BY <1>4 DEF Surjection
  <2>2. Cardinality(Below(S, R, x)) \in Nat /\ Cardinality(Below(S, R, x)) + 1 = k
    BY <1>1, <2>1, FewerBelow
  <2>3. Cardinality(Below(S, R, x)) = k - 1
    BY <2>2
  <2> QED  BY <2>3 DEF Sorts
<1>6. q \in [1..n -> S]
  <2>1. q = [k \in 1..n |-> q[k]]
    BY DEF Sorts
  <2> HIDE DEF n
  <2> QED  BY <2>1, <1>5
<1>7. q \in Seq(S) /\ Len(q) = n
  <2>1. q \in Seq(S)
    BY <1>1, <1>6, SeqDef
  <2> QED  BY <1>1, <1>6, <2>1, LenProperties
<1>8. ASSUME NEW x \in S PROVE \E k \in 1..n : q[k] = x
  <2>1. size[x] \in 1..n /\ Cardinality(Below(S, R, x)) \in Nat
    BY <1>2, FewerBelow, <1>1 DEF Injection
  <2>2. Cardinality(Below(S, R, q[size[x]])) = Cardinality(Below(S, R, x))
    BY <1>5, <2>1
  <2>3. q[size[x]] \in S
    BY <1>5, <2>1
  <2>4. size[q[size[x]]] = size[x]
    BY <2>2, <2>3
  <2> HIDE DEF size
  <2> QED  BY <2>1, <2>3, <2>4, <1>2 DEF Injection, IsInjective
<1>9. ASSUME NEW i \in 1..n, NEW j \in 1..n, i < j
      PROVE  <<q[i], q[j]>> \in R
  <2> DEFINE x == q[i]
             y == q[j]
  <2>1. x \in S /\ y \in S /\ Cardinality(Below(S, R, x)) = i - 1
        /\ Cardinality(Below(S, R, y)) = j - 1
    BY <1>5
  <2> HIDE DEF x, y
  <2>2. x # y
    BY <2>1, <1>9
  <2>3. <<y, x>> \notin R
    <3>1. <<y, x>> \in R => j - 1 < i - 1
      BY <2>1, FewerBelow
    <3> QED  BY <3>1, <1>9
  <2>4. <<x, y>> \in R
    BY <2>1, <2>2, <2>3
  <2> QED  BY <2>4 DEF x, y
<1> QED
  <2>1. {q[k] : k \in 1..n} = S
    BY <1>5, <1>8
  <2> QED  BY <1>1, <1>7, <1>9, <2>1

-----------------------------------------------------------------------------
(* Fractions.                                                              *)

LEMMA NumType ==
    /\ \A n \in Nat : Num(n) \in Fraction
    /\ \A n \in Int : Num(n) \in Value
    /\ Zero \in Fraction /\ One \in Fraction /\ Fraction \subseteq Value /\ Infinity \in Value
    /\ \A b : Flag(b) \in Value
    /\ \A x \in Fraction : Falling(x) \in Value
BY DEF Num, Fraction, Value, Zero, One, Infinity, Flag, Falling

-----------------------------------------------------------------------------
(* Markets, their keys and what cycles are scored by.                      *)

StatsType == [name : Nat, volume : Nat, bid : Nat, bidQty : Nat,
              ask : Nat, askQty : Nat, last : Nat, average : Nat]
MarketType == [name : Nat, base : Nat, quote : Nat, spot : BOOLEAN, stats : StatsType]

LEMMA StatsFields ==
    ASSUME NEW m \in MarketType
    PROVE  /\ m.name \in Nat /\ m.base \in Nat /\ m.quote \in Nat
           /\ m.stats.volume \in Nat /\ m.stats.bid \in Nat /\ m.stats.ask \in Nat
           /\ m.stats.last \in Nat /\ m.stats.average \in Nat
<1>1. m.stats \in StatsType /\ m.name \in Nat /\ m.base \in Nat /\ m.quote \in Nat
  BY DEF MarketType
<1>2. \A stats \in StatsType : /\ stats.volume \in Nat /\ stats.bid \in Nat /\ stats.ask \in Nat
                               /\ stats.last \in Nat /\ stats.average \in Nat
  BY DEF StatsType
<1> QED  BY <1>1, <1>2

LEMMA SpreadType ==
    ASSUME NEW m \in MarketType
    PROVE  Spread(m) \in Value /\ (Usable(m) => Spread(m) \in Fraction)
<1> DEFINE bid == m.stats.bid
           ask == m.stats.ask
<1>1. bid \in Nat /\ ask \in Nat /\ Bps \in Nat
  BY StatsFields, UniverseAssumption
<1>2. ASSUME Usable(m) PROVE Spread(m) \in Fraction
  <2>1. bid > 0 /\ ask >= bid /\ Spread(m) = Ratio(2 * Bps * (ask - bid), ask + bid)
    BY <1>2 DEF Usable, Spread
  <2>2. ask - bid \in Nat /\ ask + bid \in Nat \ {0}
    BY <1>1, <2>1
  <2>3. 2 * Bps * (ask - bid) \in Nat
    BY <1>1, <2>2
  <2> QED  BY <2>1, <2>2, <2>3, RatioType
<1>3. ASSUME ~Usable(m) PROVE Spread(m) \in Value
  BY <1>3, NumType DEF Spread
<1> QED  BY <1>2, <1>3, NumType

LEMMA MarketKeyTypes ==
    ASSUME NEW m \in MarketType, NEW given
    PROVE  /\ MarketKey(m) \in [1..4 -> Value]
           /\ SymbolKey(given, m) \in [1..5 -> Value] /\ SymbolKey(given, m)[5] = Num(m.name)
<1> DEFINE volume == Num(-m.stats.volume)
           name == Num(m.name)
           spread == Spread(m)
           usable == Flag(Usable(m))
           root == Flag(given.root \in Assets(m))
           bridge == Flag(Assets(m) \cap given.bridges # {})
<1>1. volume \in Value /\ name \in Value
  <2>1. -m.stats.volume \in Int /\ m.name \in Int
    BY StatsFields
  <2> QED  BY <2>1, NumType
<1>2. spread \in Value /\ usable \in Value /\ root \in Value /\ bridge \in Value
  BY SpreadType, NumType
<1>3. MarketKey(m) = <<usable, volume, spread, name>>
  BY DEF MarketKey
<1>4. SymbolKey(given, m) = <<root, bridge, volume, spread, name>>
  BY DEF SymbolKey
<1> HIDE DEF volume, spread, usable, root, bridge
<1>5. <<usable, volume, spread, name>> \in [1..4 -> Value]
  <2> HIDE DEF name
  <2> QED  BY <1>1, <1>2
<1>6. /\ <<root, bridge, volume, spread, name>> \in [1..5 -> Value]
      /\ <<root, bridge, volume, spread, name>>[5] = name
  <2> HIDE DEF name
  <2> QED  BY <1>1, <1>2
<1> QED  BY <1>3, <1>4, <1>5, <1>6

(* The best of some markets is one of them.                                 *)
LEMMA BestIsOne ==
    ASSUME NEW S \in SUBSET MarketType, IsFiniteSet(S), S # {}
    PROVE  BestMarket(S) \in S
<1> DEFINE R == {p \in S \X S : Precedes(MarketKey(p[1]), MarketKey(p[2]))}
<1>1. \A m, n \in S : <<m, n>> \in R <=> Precedes(MarketKey(m), MarketKey(n))
  OBVIOUS
<1>2. \A m \in S : MarketKey(m) \in [1..4 -> Value]
  BY MarketKeyTypes
<1>3. StrictOrder(S, R)
  <2> HIDE DEF R
  <2>1. \A m \in S : <<m, m>> \notin R
    BY <1>1, <1>2, KeysOrdered
  <2>2. ASSUME NEW x \in S, NEW y \in S, NEW z \in S, <<x, y>> \in R, <<y, z>> \in R
        PROVE  <<x, z>> \in R
    BY <1>1, <1>2, <2>2, KeysOrdered
  <2> QED  BY <2>1, <2>2 DEF StrictOrder
<1>4. \E m \in S : \A n \in S : ~Precedes(MarketKey(n), MarketKey(m))
  <2> HIDE DEF R
  <2>1. PICK m \in S : \A n \in S : <<n, m>> \notin R
    BY <1>3, LeastOf
  <2> QED  BY <2>1, <1>1
<1> QED  BY <1>4, Zenon DEF BestMarket

LEMMA ByPairOK ==
    ASSUME NEW S \in SUBSET MarketType, IsFiniteSet(S), NEW pair \in DOMAIN ByPair(S)
    PROVE  ByPair(S)[pair] \in S /\ Assets(ByPair(S)[pair]) = pair
<1> DEFINE own == {m \in S : Assets(m) = pair}
<1>1. pair \in {Assets(m) : m \in S} /\ ByPair(S)[pair] = BestMarket(own)
  BY DEF ByPair
<1>2. own # {} /\ own \in SUBSET MarketType
  BY <1>1
<1>3. IsFiniteSet(own)
  <2>1. own \in SUBSET S
    OBVIOUS
  <2> HIDE DEF own
  <2> QED  BY <2>1, FS_Subset
<1>4. BestMarket(own) \in own
  <2> HIDE DEF own
  <2> QED  BY <1>2, <1>3, BestIsOne
<1> QED  BY <1>1, <1>4

\* One market for each of some pairs of assets.
Table(byPair) == \A pair \in DOMAIN byPair : byPair[pair] \in MarketType

LEMMA RateType ==
    ASSUME NEW m \in MarketType, NEW asset, NEW root
    PROVE  Rate(asset, root, m) \in Fraction
<1> DEFINE known == {m.stats.average, m.stats.last} \ {0}
<1>1. /\ m.stats.bid \in Nat /\ m.stats.ask \in Nat
      /\ m.stats.last \in Nat /\ m.stats.average \in Nat
  BY StatsFields
<1>2. ASSUME known # {} PROVE Min(known) \in Nat /\ Max(known) \in Nat \ {0}
  <2>1. known \in SUBSET (Nat \ {0})
    BY <1>1
  <2>2. PICK x \in known : \A y \in known : x <= y
    BY <1>1, <1>2
  <2>3. PICK z \in known : \A y \in known : z >= y
    BY <1>1, <1>2
  <2>4. Min(known) \in known
    <3> HIDE DEF known
    <3> QED  BY <2>2 DEF Min
  <2>5. Max(known) \in known
    <3> HIDE DEF known
    <3> QED  BY <2>3 DEF Max
  <2> QED  BY <2>1, <2>4, <2>5
<1>3. known # {} => Num(Min(known)) \in Fraction /\ Ratio(1, Max(known)) \in Fraction
  <2> HIDE DEF known
  <2> QED  BY <1>2, NumType, RatioType
<1>4. m.stats.bid > 0 => Num(m.stats.bid) \in Fraction
  BY <1>1, NumType
<1>5. m.stats.ask > 0 => Ratio(1, m.stats.ask) \in Fraction
  BY <1>1, RatioType
<1>6. Rate(asset, root, m) =
          IF m.base = asset
          THEN IF m.stats.bid > 0 THEN Num(m.stats.bid)
               ELSE IF known = {} THEN Zero ELSE Num(Min(known))
          ELSE IF m.stats.ask > 0 THEN Ratio(1, m.stats.ask)
               ELSE IF known = {} THEN Zero ELSE Ratio(1, Max(known))
  BY DEF Rate
<1> HIDE DEF known
<1> QED  BY <1>3, <1>4, <1>5, <1>6, NumType

LEMMA VolumeType ==
    ASSUME NEW m \in MarketType, NEW root, NEW byPair, Table(byPair)
    PROVE  Volume(m, root, byPair) \in Fraction
<1> DEFINE pair == {m.quote, root}
           rate == Rate(m.quote, root, byPair[pair])
<1>1. m.stats.volume \in Nat /\ Num(m.stats.volume) \in Fraction
  BY StatsFields, NumType
<1>2. pair \in DOMAIN byPair => Times(Num(m.stats.volume), rate) \in Fraction
  <2>1. pair \in DOMAIN byPair => rate \in Fraction
    BY RateType DEF Table
  <2> HIDE DEF rate
  <2> QED  BY <1>1, <2>1, FractionOps
<1>3. Volume(m, root, byPair) =
          IF m.stats.volume = 0 THEN Zero
          ELSE IF m.quote = root THEN Num(m.stats.volume)
          ELSE IF pair \notin DOMAIN byPair THEN Zero
          ELSE Times(Num(m.stats.volume), rate)
  BY DEF Volume, InRoot
<1> HIDE DEF pair, rate
<1> QED  BY <1>1, <1>2, <1>3, NumType

LEMMA ScoresType ==
    ASSUME NEW markets \in [1..3 -> MarketType], NEW assets, NEW given,
           NEW byPair, Table(byPair)
    PROVE  /\ Scores(markets, assets, given, byPair).liquidity \in Fraction
           /\ Scores(markets, assets, given, byPair).spread \in Fraction
           /\ Scores(markets, assets, given, byPair).feasibility \in Fraction
<1> DEFINE V(i) == Volume(markets[i], given.root, byPair)
           volumes == {Volume(m, given.root, byPair) : m \in {markets[i] : i \in 1..3}}
           liquidity == CHOOSE v \in volumes : \A w \in volumes : Leq(v, w)
           average == Times(Plus(Plus(Spread(markets[1]), Spread(markets[2])),
                                 Spread(markets[3])), Ratio(1, 3))
           tight == IF \A i \in 1..3 : Usable(markets[i])
                    THEN Over(One, Plus(One, average)) ELSE Zero
           deep == IF Less(Zero, liquidity)
                   THEN Over(liquidity, Plus(liquidity, Num(Scale))) ELSE Zero
           bonus == IF {assets[2], assets[3]} \cap given.bridges # {}
                    THEN Ratio(3, 100) ELSE Zero
           feasibility == Least(One, Plus(Plus(Times(deep, Ratio(7, 10)),
                                               Times(tight, Ratio(3, 10))), bonus))
<1>1. Scores(markets, assets, given, byPair) =
          [liquidity |-> liquidity, spread |-> tight, feasibility |-> feasibility]
  BY DEF Scores
<1>2. Zero \in Fraction /\ One \in Fraction /\ One[1] > 0 /\ Fraction \subseteq Value
  BY NumType DEF One
<1>3. liquidity \in Fraction
  <2>1. V(1) \in Fraction /\ V(2) \in Fraction /\ V(3) \in Fraction
    BY VolumeType
  <2>2. volumes = {V(1), V(2), V(3)}
    OBVIOUS
  <2> HIDE DEF V
  <2>3. PICK v \in {V(1), V(2), V(3)} : Leq(v, V(1)) /\ Leq(v, V(2)) /\ Leq(v, V(3))
    <3>1. V(1) \in Value /\ V(2) \in Value /\ V(3) \in Value
      BY <1>2, <2>1
    <3>2. PICK v \in {V(1), V(2)} : Leq(v, V(1)) /\ Leq(v, V(2))
      BY <3>1, ValuesOrdered
    <3>3. v \in Value /\ (Leq(v, V(3)) \/ Leq(V(3), v)) /\ Leq(V(3), V(3))
      BY <3>1, ValuesOrdered
    <3>4. Leq(V(3), v) => Leq(V(3), V(1)) /\ Leq(V(3), V(2))
      BY <3>1, <3>2, <3>3, LeqTransitive
    <3> QED  BY <3>2, <3>3, <3>4
  <2>4. v \in volumes /\ \A w \in volumes : Leq(v, w)
    BY <2>2, <2>3
  <2>5. liquidity \in volumes
    <3> HIDE DEF volumes
    <3> QED  BY <2>4
  <2> HIDE DEF liquidity
  <2> QED  BY <2>1, <2>2, <2>5
<1>4. Ratio(1, 3) \in Fraction /\ Ratio(7, 10) \in Fraction /\ Ratio(3, 10) \in Fraction
      /\ Ratio(3, 100) \in Fraction
  BY RatioType
<1>5. tight \in Fraction
  <2>1. CASE \A i \in 1..3 : Usable(markets[i])
    <3> DEFINE s1 == Spread(markets[1])
               s2 == Spread(markets[2])
               s3 == Spread(markets[3])
    <3>1. s1 \in Fraction /\ s2 \in Fraction /\ s3 \in Fraction
      BY <2>1, SpreadType
    <3>2. average = Times(Plus(Plus(s1, s2), s3), Ratio(1, 3))
      OBVIOUS
    <3> HIDE DEF s1, s2, s3, average
    <3>3. Plus(s1, s2) \in Fraction
      BY <3>1, FractionOps
    <3>4. Plus(Plus(s1, s2), s3) \in Fraction
      BY <3>1, <3>3, FractionOps
    <3>5. average \in Fraction
      BY <1>4, <3>2, <3>4, FractionOps
    <3>6. Plus(One, average) \in Fraction /\ Plus(One, average)[1] > 0
      BY <1>2, <3>5, FractionOps
    <3>7. Over(One, Plus(One, average)) \in Fraction
      BY <1>2, <3>6, FractionOps
    <3> QED  BY <2>1, <3>7
  <2>2. CASE ~ \A i \in 1..3 : Usable(markets[i])
    BY <2>2, <1>2
  <2> QED  BY <2>1, <2>2
<1>6. deep \in Fraction
  <2> HIDE DEF liquidity
  <2>1. Scale \in Nat \ {0} /\ Num(Scale) \in Fraction /\ Num(Scale)[1] > 0
    BY UniverseAssumption, NumType DEF Num
  <2>2. Plus(liquidity, Num(Scale)) \in Fraction /\ Plus(liquidity, Num(Scale))[1] > 0
    BY <1>3, <2>1, FractionOps
  <2>3. Over(liquidity, Plus(liquidity, Num(Scale))) \in Fraction
    BY <1>3, <2>2, FractionOps
  <2> QED  BY <1>2, <2>3
<1>7. bonus \in Fraction
  BY <1>2, <1>4
<1>8. feasibility \in Fraction
  <2> HIDE DEF deep, tight, bonus
  <2>1. Times(deep, Ratio(7, 10)) \in Fraction /\ Times(tight, Ratio(3, 10)) \in Fraction
    BY <1>4, <1>5, <1>6, FractionOps
  <2>2. Plus(Times(deep, Ratio(7, 10)), Times(tight, Ratio(3, 10))) \in Fraction
    BY <2>1, FractionOps
  <2>3. Plus(Plus(Times(deep, Ratio(7, 10)), Times(tight, Ratio(3, 10))), bonus) \in Fraction
    BY <2>2, <1>7, FractionOps
  <2> QED  BY <1>2, <2>3, FractionOps
<1> HIDE DEF liquidity, tight, feasibility
<1> QED  BY <1>1, <1>3, <1>5, <1>8

-----------------------------------------------------------------------------
(* Triangles and their ranking.                                            *)

\* Markets as the discovery has them: each trades two different assets.
MarketsOK(S) ==
    /\ S \in SUBSET MarketType /\ IsFiniteSet(S)
    /\ \A m \in S : m.base # m.quote

\* A triangle through the root over the markets of byPair.
Through(root, first, second, byPair) ==
    /\ first \in Nat /\ second \in Nat
    /\ {{first, root}, {second, root}, {first, second}} \subseteq DOMAIN byPair

LEMMA TriangleIs ==
    ASSUME NEW S, MarketsOK(S), NEW given, NEW c
    PROVE  c \in Triangles(S, given) <=>
               \E first, second \in Nat :
                   /\ Through(given.root, first, second, ByPair(S))
                   /\ c = MakeCycle(first, second, given, ByPair(S))
<1> DEFINE byPair == ByPair(S)
           neighbours == {a \in UNION DOMAIN byPair : {a, given.root} \in DOMAIN byPair}
<1>1. DOMAIN byPair = {Assets(m) : m \in S}
  BY DEF ByPair
<1>2. \A m \in S : m.base \in Nat /\ m.quote \in Nat
  BY StatsFields DEF MarketsOK
<1>3. UNION DOMAIN byPair \subseteq Nat
  BY <1>1, <1>2 DEF Assets
<1>4. Triangles(S, given) =
          {MakeCycle(pair[1], pair[2], given, byPair) :
              pair \in {p \in neighbours \X neighbours : {p[1], p[2]} \in DOMAIN byPair}}
  BY DEF Triangles
<1> HIDE DEF byPair
<1>5. ASSUME NEW first, NEW second
      PROVE  first \in Nat /\ second \in Nat /\ Through(given.root, first, second, byPair) <=>
                 <<first, second>> \in {p \in neighbours \X neighbours :
                                            {p[1], p[2]} \in DOMAIN byPair}
  <2>1. \A a : {a, given.root} \in DOMAIN byPair => a \in UNION DOMAIN byPair
    OBVIOUS
  <2>2. \A a \in neighbours : a \in Nat
    BY <1>3
  <2>3. Through(given.root, first, second, byPair) =>
            first \in neighbours /\ second \in neighbours /\ {first, second} \in DOMAIN byPair
    BY <2>1 DEF Through
  <2>4. first \in neighbours /\ second \in neighbours /\ {first, second} \in DOMAIN byPair =>
            first \in Nat /\ second \in Nat /\ Through(given.root, first, second, byPair)
    BY <2>2 DEF Through
  <2> HIDE DEF neighbours
  <2> QED  BY <2>3, <2>4
<1>6. \A pair \in {p \in neighbours \X neighbours : {p[1], p[2]} \in DOMAIN byPair} :
          pair = <<pair[1], pair[2]>>
  OBVIOUS
<1>7. ASSUME c \in Triangles(S, given)
      PROVE  \E first, second \in Nat : /\ Through(given.root, first, second, byPair)
                                        /\ c = MakeCycle(first, second, given, byPair)
  <2>1. PICK pair \in {p \in neighbours \X neighbours : {p[1], p[2]} \in DOMAIN byPair} :
            c = MakeCycle(pair[1], pair[2], given, byPair)
    BY <1>4, <1>7
  <2> HIDE DEF neighbours
  <2> QED  BY <1>5, <1>6, <2>1
<1>8. ASSUME NEW first \in Nat, NEW second \in Nat,
             Through(given.root, first, second, byPair),
             c = MakeCycle(first, second, given, byPair)
      PROVE  c \in Triangles(S, given)
  <2> DEFINE pair == <<first, second>>
  <2>1. pair \in {p \in neighbours \X neighbours : {p[1], p[2]} \in DOMAIN byPair}
    BY <1>5, <1>8
  <2>2. c = MakeCycle(pair[1], pair[2], given, byPair)
    BY <1>8
  <2> HIDE DEF neighbours, pair
  <2> QED  BY <1>4, <2>1, <2>2
<1> QED
  <2> HIDE DEF neighbours
  <2> QED  BY <1>7, <1>8 DEF byPair

\* The markets of a triangle, in the order in which its legs trade them.
RouteAssets(root, first, second) == <<root, first, second, root>>
RouteMarkets(root, first, second, byPair) ==
    [i \in 1..3 |-> byPair[{RouteAssets(root, first, second)[i],
                            RouteAssets(root, first, second)[i + 1]}]]

LEMMA CycleParts ==
    ASSUME NEW first, NEW second, NEW given, NEW byPair
    PROVE  LET c == MakeCycle(first, second, given, byPair)
               assets == RouteAssets(given.root, first, second)
               markets == RouteMarkets(given.root, first, second, byPair)
           IN  /\ c.assets = assets /\ c.assets[2] = first /\ c.assets[3] = second
               /\ c.legs = [i \in 1..3 |-> CycleLeg(assets[i], assets[i + 1], markets[i])]
               /\ c.scores = Scores(markets, assets, given, byPair)
BY DEF MakeCycle, RouteAssets, RouteMarkets

LEMMA RouteIs ==
    ASSUME NEW root, NEW first, NEW second, NEW byPair
    PROVE  /\ RouteMarkets(root, first, second, byPair)[1] = byPair[{first, root}]
           /\ RouteMarkets(root, first, second, byPair)[2] = byPair[{first, second}]
           /\ RouteMarkets(root, first, second, byPair)[3] = byPair[{second, root}]
<1>1. {root, first} = {first, root}
  OBVIOUS
<1> QED  BY <1>1 DEF RouteAssets, RouteMarkets

LEMMA RouteMarketsType ==
    ASSUME NEW S, MarketsOK(S), NEW root, NEW first, NEW second,
           Through(root, first, second, ByPair(S))
    PROVE  /\ Table(ByPair(S))
           /\ RouteMarkets(root, first, second, ByPair(S)) \in [1..3 -> MarketType]
           /\ \A i \in 1..3 : RouteMarkets(root, first, second, ByPair(S))[i] \in S
<1> DEFINE byPair == ByPair(S)
           markets == RouteMarkets(root, first, second, byPair)
<1>1. \A pair \in DOMAIN byPair : byPair[pair] \in S
  BY ByPairOK DEF MarketsOK
<1>2. S \subseteq MarketType
  BY DEF MarketsOK
<1>3. markets[1] \in S /\ markets[2] \in S /\ markets[3] \in S
  <2> HIDE DEF byPair
  <2> QED  BY <1>1, RouteIs DEF Through, byPair
<1>4. markets = [i \in 1..3 |-> markets[i]]
  BY DEF RouteMarkets
<1> HIDE DEF markets
<1>5. \A i \in 1..3 : markets[i] \in S
  BY <1>3
<1>6. markets \in [1..3 -> MarketType]
  BY <1>2, <1>4, <1>5
<1> QED  BY <1>1, <1>2, <1>5, <1>6 DEF Table, byPair, markets

(* The key of a triangle, which names it.                                   *)
LEMMA CycleKeyType ==
    ASSUME NEW S, MarketsOK(S), NEW given, NEW first \in Nat, NEW second \in Nat,
           Through(given.root, first, second, ByPair(S))
    PROVE  LET key == CycleKey(MakeCycle(first, second, given, ByPair(S))) IN
           key \in [1..5 -> Value] /\ key[4] = Num(first) /\ key[5] = Num(second)
<1> DEFINE c == MakeCycle(first, second, given, ByPair(S))
           f == Falling(c.scores.feasibility)
           l == Falling(c.scores.liquidity)
           s == Falling(c.scores.spread)
           a == Num(first)
           b == Num(second)
<1>1. f \in Value /\ l \in Value /\ s \in Value
  <2>1. /\ c.scores.feasibility \in Fraction /\ c.scores.liquidity \in Fraction
        /\ c.scores.spread \in Fraction
    <3>1. c.scores = Scores(RouteMarkets(given.root, first, second, ByPair(S)),
                            RouteAssets(given.root, first, second), given, ByPair(S))
      BY DEF MakeCycle, RouteAssets, RouteMarkets
    <3> HIDE DEF c
    <3> QED  BY <3>1, RouteMarketsType, ScoresType
  <2> HIDE DEF c
  <2> QED  BY <2>1, NumType
<1>2. a \in Value /\ b \in Value
  BY NumType
<1>3. CycleKey(c) = <<f, l, s, a, b>>
  <2>1. c.assets[2] = first /\ c.assets[3] = second
    BY DEF MakeCycle
  <2> HIDE DEF c
  <2> QED  BY <2>1 DEF CycleKey
<1> HIDE DEF c, f, l, s, a, b
<1>4. /\ <<f, l, s, a, b>> \in [1..5 -> Value]
      /\ <<f, l, s, a, b>>[4] = a /\ <<f, l, s, a, b>>[5] = b
  BY <1>1, <1>2
<1> QED  BY <1>3, <1>4 DEF c, a, b

\* The order of rank_cycles among some cycles.
CycleOrder(C) == {p \in C \X C : Precedes(CycleKey(p[1]), CycleKey(p[2]))}

LEMMA CyclesOrdered ==
    ASSUME NEW S, MarketsOK(S), NEW given, NEW C \in SUBSET Triangles(S, given)
    PROVE  /\ StrictOrder(C, CycleOrder(C))
           /\ \A c, d \in C :
                  c = d \/ <<c, d>> \in CycleOrder(C) \/ <<d, c>> \in CycleOrder(C)
<1>1. \A c, d \in C : <<c, d>> \in CycleOrder(C) <=> Precedes(CycleKey(c), CycleKey(d))
  BY DEF CycleOrder
<1>2. ASSUME NEW c \in C
      PROVE  \E first, second \in Nat :
                 /\ c = MakeCycle(first, second, given, ByPair(S))
                 /\ CycleKey(c) \in [1..5 -> Value]
                 /\ CycleKey(c)[4] = Num(first) /\ CycleKey(c)[5] = Num(second)
  <2>1. PICK first \in Nat, second \in Nat :
                   /\ Through(given.root, first, second, ByPair(S))
                   /\ c = MakeCycle(first, second, given, ByPair(S))
    BY TriangleIs
  <2> QED  BY <2>1, CycleKeyType
<1>3. ASSUME NEW c \in C, NEW d \in C,
             ~Precedes(CycleKey(c), CycleKey(d)), ~Precedes(CycleKey(d), CycleKey(c))
      PROVE  c = d
  <2>1. PICK a \in Nat, b \in Nat :
                 /\ c = MakeCycle(a, b, given, ByPair(S))
                 /\ CycleKey(c) \in [1..5 -> Value]
                 /\ CycleKey(c)[4] = Num(a) /\ CycleKey(c)[5] = Num(b)
    BY <1>2
  <2>2. PICK x \in Nat, y \in Nat :
                 /\ d = MakeCycle(x, y, given, ByPair(S))
                 /\ CycleKey(d) \in [1..5 -> Value]
                 /\ CycleKey(d)[4] = Num(x) /\ CycleKey(d)[5] = Num(y)
    BY <1>2
  <2>3. \A i \in 1..5 : Same(CycleKey(c)[i], CycleKey(d)[i])
    BY <1>3, <2>1, <2>2, KeysOrdered
  <2>4. Same(Num(a), Num(x)) /\ Same(Num(b), Num(y))
    BY <2>1, <2>2, <2>3
  <2>5. a = x /\ b = y
    BY <2>4 DEF Same, Num
  <2> QED  BY <2>1, <2>2, <2>5
<1>4. \A c \in C : CycleKey(c) \in [1..5 -> Value]
  BY <1>2
<1>5. StrictOrder(C, CycleOrder(C))
  <2>1. \A c \in C : <<c, c>> \notin CycleOrder(C)
    BY <1>1, <1>4, KeysOrdered
  <2>2. ASSUME NEW x \in C, NEW y \in C, NEW z \in C,
               <<x, y>> \in CycleOrder(C), <<y, z>> \in CycleOrder(C)
        PROVE  <<x, z>> \in CycleOrder(C)
    BY <1>1, <1>4, <2>2, KeysOrdered
  <2> QED  BY <2>1, <2>2 DEF StrictOrder
<1> QED  BY <1>1, <1>3, <1>5

LEMMA TrianglesFinite ==
    ASSUME NEW S, MarketsOK(S), NEW given
    PROVE  IsFiniteSet(Triangles(S, given))
<1> DEFINE byPair == ByPair(S)
           pairs == DOMAIN byPair
           neighbours == {a \in UNION pairs : {a, given.root} \in pairs}
           routes == {p \in neighbours \X neighbours : {p[1], p[2]} \in pairs}
<1>1. IsFiniteSet(pairs)
  <2>1. pairs = {Assets(m) : m \in S}
    BY DEF ByPair
  <2>2. [m \in S |-> Assets(m)] \in Surjection(S, pairs)
    <3> HIDE DEF byPair
    <3> QED  BY <2>1 DEF Surjection
  <2> HIDE DEF byPair
  <2> QED  BY <2>2, FS_Surjection DEF MarketsOK
<1>2. \A pair \in pairs : IsFiniteSet(pair)
  <2>1. pairs = {{m.base, m.quote} : m \in S}
    BY DEF ByPair, Assets
  <2>2. ASSUME NEW x, NEW y PROVE IsFiniteSet({x, y})
    <3>1. IsFiniteSet({x})
      BY FS_Singleton
    <3>2. IsFiniteSet({x} \cup {y})
      BY <3>1, FS_AddElement
    <3>3. {x, y} = {x} \cup {y}
      OBVIOUS
    <3> QED  BY <3>2, <3>3
  <2> HIDE DEF pairs
  <2> QED  BY <2>1, <2>2
<1>3. IsFiniteSet(neighbours)
  <2>1. IsFiniteSet(UNION pairs)
    <3> HIDE DEF byPair
    <3> QED  BY <1>1, <1>2, FS_UNION
  <2>2. neighbours \in SUBSET UNION pairs
    OBVIOUS
  <2> HIDE DEF byPair, neighbours
  <2> QED  BY <2>1, <2>2, FS_Subset
<1>4. IsFiniteSet(routes)
  <2>1. routes \in SUBSET (neighbours \X neighbours)
    OBVIOUS
  <2> HIDE DEF byPair, neighbours, routes
  <2> QED  BY <1>3, <2>1, FS_Product, FS_Subset
<1>5. Triangles(S, given) = {MakeCycle(p[1], p[2], given, byPair) : p \in routes}
  BY DEF Triangles
<1>6. [p \in routes |-> MakeCycle(p[1], p[2], given, byPair)]
          \in Surjection(routes, Triangles(S, given))
  <2> HIDE DEF routes, byPair
  <2> QED  BY <1>5 DEF Surjection
<1> HIDE DEF routes
<1> QED  BY <1>4, <1>6, FS_Surjection

(* rank_cycles lists the cycles, each once, the better ones first.          *)
LEMMA RankedOK ==
    ASSUME NEW S, MarketsOK(S), NEW given, NEW C \in SUBSET Triangles(S, given)
    PROVE  /\ IsFiniteSet(C) /\ Cardinality(C) \in Nat
           /\ RankCycles(C) \in Seq(C) /\ Len(RankCycles(C)) = Cardinality(C)
           /\ {RankCycles(C)[k] : k \in 1..Cardinality(C)} = C
           /\ \A i, j \in 1..Cardinality(C) :
                  i < j => Precedes(CycleKey(RankCycles(C)[i]), CycleKey(RankCycles(C)[j]))
<1> DEFINE q == RankCycles(C)
           R == CycleOrder(C)
<1>1. IsFiniteSet(C)
  BY TrianglesFinite, FS_Subset
<1>2. \A x \in C : Below(C, R, x) = {y \in C : Precedes(CycleKey(y), CycleKey(x))}
  BY DEF Below, CycleOrder
<1>3. q = [k \in 1..Cardinality(C) |->
              CHOOSE x \in C : Cardinality({y \in C : Precedes(CycleKey(y), CycleKey(x))})
                                   = k - 1]
  BY DEF RankCycles, Ranked
<1> HIDE DEF q, R
<1>4. Sorts(q, C, R)
  <2>1. q = [k \in 1..Cardinality(C) |-> q[k]]
    <3> DEFINE Place(k) == CHOOSE x \in C :
                   Cardinality({y \in C : Precedes(CycleKey(y), CycleKey(x))}) = k - 1
    <3>1. q = [k \in 1..Cardinality(C) |-> Place(k)]
      BY <1>3
    <3> HIDE DEF Place
    <3> QED  BY <3>1
  <2>2. ASSUME NEW k \in 1..Cardinality(C),
               NEW x \in C, Cardinality(Below(C, R, x)) = k - 1
        PROVE  q[k] \in C /\ Cardinality(Below(C, R, q[k])) = k - 1
    <3> DEFINE P(z) == Cardinality({y \in C : Precedes(CycleKey(y), CycleKey(z))}) = k - 1
    <3>1. q[k] = CHOOSE z \in C : P(z)
      BY <1>3
    <3>2. P(x)
      BY <1>2, <2>2
    <3>3. q[k] \in C /\ P(q[k])
      <4> HIDE DEF P
      <4> QED  BY <3>1, <3>2
    <3> QED  BY <3>3, <1>2
  <2> QED  BY <2>1, <2>2 DEF Sorts
<1>5. /\ StrictOrder(C, R)
      /\ \A x, y \in C : x = y \/ <<x, y>> \in R \/ <<y, x>> \in R
  BY CyclesOrdered DEF R
<1>6. /\ Cardinality(C) \in Nat /\ q \in Seq(C) /\ Len(q) = Cardinality(C)
      /\ {q[k] : k \in 1..Cardinality(C)} = C
      /\ \A i, j \in 1..Cardinality(C) : i < j => <<q[i], q[j]>> \in R
  BY <1>1, <1>4, <1>5, SortedOK
<1>7. \A x, y : <<x, y>> \in R => Precedes(CycleKey(x), CycleKey(y))
  BY DEF R, CycleOrder
<1> QED  BY <1>1, <1>6, <1>7 DEF q

(* The two directions of a triangle mirror each other.                      *)
LEMMA MirrorOK ==
    ASSUME NEW S, MarketsOK(S), NEW given, NEW first, NEW second,
           Through(given.root, first, second, ByPair(S))
    PROVE  /\ Through(given.root, second, first, ByPair(S))
           /\ Mirrors(MakeCycle(first, second, given, ByPair(S)),
                      MakeCycle(second, first, given, ByPair(S)))
<1>0. PICK root : root = given.root
  OBVIOUS
<1> DEFINE byPair == ByPair(S)
           there == RouteAssets(root, first, second)
           back == RouteAssets(root, second, first)
           markets == RouteMarkets(root, first, second, byPair)
           others == RouteMarkets(root, second, first, byPair)
           c == MakeCycle(first, second, given, byPair)
           d == MakeCycle(second, first, given, byPair)
<1>1. /\ {first, second} = {second, first} /\ {root, first} = {first, root}
      /\ {root, second} = {second, root}
  OBVIOUS
<1>2. Through(root, first, second, byPair) /\ Through(root, second, first, byPair)
  BY <1>0, <1>1 DEF Through
<1>3. /\ there[1] = back[4] /\ there[2] = back[3] /\ there[3] = back[2] /\ there[4] = back[1]
      /\ markets[1] = others[3] /\ markets[2] = others[2] /\ markets[3] = others[1]
  <2>1. /\ there[1] = back[4] /\ there[2] = back[3]
        /\ there[3] = back[2] /\ there[4] = back[1]
    BY DEF RouteAssets
  <2> HIDE DEF byPair
  <2>2. markets[1] = others[3] /\ markets[2] = others[2] /\ markets[3] = others[1]
    <3>1. /\ markets[1] = byPair[{first, root}] /\ markets[2] = byPair[{first, second}]
          /\ markets[3] = byPair[{second, root}]
      BY <1>1 DEF RouteAssets, RouteMarkets
    <3>2. /\ others[1] = byPair[{second, root}] /\ others[2] = byPair[{second, first}]
          /\ others[3] = byPair[{first, root}]
      BY <1>1 DEF RouteAssets, RouteMarkets
    <3> HIDE DEF markets, others
    <3> QED  BY <1>1, <3>1, <3>2
  <2> QED  BY <2>1, <2>2
<1>4. /\ c.legs = [i \in 1..3 |-> CycleLeg(there[i], there[i + 1], markets[i])]
      /\ d.legs = [i \in 1..3 |-> CycleLeg(back[i], back[i + 1], others[i])]
  BY <1>0 DEF MakeCycle, RouteAssets, RouteMarkets
<1>5. ASSUME NEW from, NEW to, NEW m, Assets(m) = {from, to}, m.base # m.quote
      PROVE  /\ CycleLeg(from, to, m).symbol = CycleLeg(to, from, m).symbol
             /\ CycleLeg(from, to, m).op # CycleLeg(to, from, m).op
             /\ CycleLeg(from, to, m).from = CycleLeg(to, from, m).to
  <2>1. (from = m.base /\ to # m.base) \/ (from # m.base /\ to = m.base)
    BY <1>5 DEF Assets
  <2> QED  BY <2>1 DEF CycleLeg
<1>6. ASSUME NEW i \in 1..3
      PROVE  Assets(markets[i]) = {there[i], there[i + 1]} /\ markets[i].base # markets[i].quote
  <2>1. \A pair \in DOMAIN byPair : byPair[pair] \in S /\ Assets(byPair[pair]) = pair
    BY ByPairOK DEF MarketsOK
  <2>2. /\ {first, root} \in DOMAIN byPair /\ {second, root} \in DOMAIN byPair
        /\ {first, second} \in DOMAIN byPair
    BY <1>2 DEF Through
  <2>3. markets[1] = byPair[{first, root}] /\ markets[2] = byPair[{first, second}]
        /\ markets[3] = byPair[{second, root}]
    <3> HIDE DEF byPair
    <3> QED  BY RouteIs
  <2>4. there[1] = root /\ there[2] = first /\ there[3] = second /\ there[4] = root
    BY DEF RouteAssets
  <2> HIDE DEF byPair, there, markets
  <2>5. \A m \in S : m.base # m.quote
    BY DEF MarketsOK
  <2>6. CASE i = 1
    BY <2>1, <2>2, <2>3, <2>4, <2>5, <2>6
  <2>7. CASE i = 2
    BY <2>1, <2>2, <2>3, <2>4, <2>5, <2>7
  <2>8. CASE i = 3
    BY <2>1, <2>2, <2>3, <2>4, <2>5, <2>8
  <2> QED  BY <2>6, <2>7, <2>8
<1>7. ASSUME NEW i \in 1..3
      PROVE  /\ c.legs[i] = CycleLeg(there[i], there[i + 1], markets[i])
             /\ d.legs[4 - i] = CycleLeg(there[i + 1], there[i], markets[i])
  <2> HIDE DEF byPair, there, back, markets, others, c, d
  <2>1. c.legs[i] = CycleLeg(there[i], there[i + 1], markets[i])
    BY <1>4
  <2>2. d.legs[4 - i] = CycleLeg(back[4 - i], back[4 - i + 1], others[4 - i])
    <3>1. 4 - i \in 1..3
      OBVIOUS
    <3> QED  BY <3>1, <1>4
  <2>3. back[4 - i] = there[i + 1] /\ back[4 - i + 1] = there[i] /\ others[4 - i] = markets[i]
    <3>1. i = 1 \/ i = 2 \/ i = 3
      OBVIOUS
    <3> QED  BY <3>1, <1>3
  <2> QED  BY <2>1, <2>2, <2>3
<1>8. Mirrors(c, d)
  <2> HIDE DEF byPair, there, back, markets, others, c, d
  <2> SUFFICES ASSUME NEW i \in 1..3
               PROVE  /\ c.legs[i].symbol = d.legs[4 - i].symbol
                      /\ c.legs[i].op # d.legs[4 - i].op
                      /\ c.legs[i].from = d.legs[4 - i].to
    BY DEF Mirrors
  <2> QED  BY <1>5, <1>6, <1>7
<1> QED  BY <1>0, <1>2, <1>8

(* What the cycles trade is some of what there is to trade.                 *)
LEMMA SymbolsTraded ==
    ASSUME NEW S, MarketsOK(S), NEW given, NEW c \in Triangles(S, given), NEW i \in 1..3
    PROVE  \E m \in S : c.legs[i].symbol = m.name
<1>1. PICK first \in Nat, second \in Nat :
               /\ Through(given.root, first, second, ByPair(S))
               /\ c = MakeCycle(first, second, given, ByPair(S))
  BY TriangleIs
<1> DEFINE markets == RouteMarkets(given.root, first, second, ByPair(S))
           there == RouteAssets(given.root, first, second)
<1>2. c.legs = [k \in 1..3 |-> CycleLeg(there[k], there[k + 1], markets[k])]
  BY <1>1 DEF MakeCycle, RouteAssets, RouteMarkets
<1>3. markets[i] \in S
  BY <1>1, RouteMarketsType
<1> HIDE DEF markets, there
<1>4. c.legs[i].symbol = markets[i].name
  BY <1>2 DEF CycleLeg
<1> QED  BY <1>3, <1>4

LEMMA RequiredOK ==
    ASSUME NEW C, IsFiniteSet(C), NEW D \in SUBSET C
    PROVE  /\ IsFiniteSet(Required(C)) /\ Cardinality(Required(C)) \in Nat
           /\ Required(D) \subseteq Required(C)
           /\ Cardinality(Required(D)) <= Cardinality(Required(C))
<1> DEFINE Of(c) == {c.legs[i].symbol : i \in 1..3}
           parts == {Of(c) : c \in C}
<1>1. Required(C) = UNION parts /\ Required(D) \subseteq Required(C)
  BY DEF Required
<1>2. ASSUME NEW c \in C PROVE IsFiniteSet(Of(c))
  <2>1. [i \in 1..3 |-> c.legs[i].symbol] \in Surjection(1..3, Of(c))
    BY DEF Surjection
  <2>2. IsFiniteSet(1..3)
    <3>1. \A n \in Nat : IsFiniteSet(1..n)
      BY FS_Interval
    <3>2. 3 \in Nat
      OBVIOUS
    <3> QED  BY <3>1, <3>2, Zenon
  <2> HIDE DEF Of
  <2> QED  BY <2>1, <2>2, FS_Surjection
<1>3. [c \in C |-> Of(c)] \in Surjection(C, parts)
  <2> HIDE DEF Of
  <2> QED  BY DEF Surjection
<1>4. IsFiniteSet(parts)
  <2> HIDE DEF parts
  <2> QED  BY <1>3, FS_Surjection
<1>5. IsFiniteSet(UNION parts)
  <2> HIDE DEF Of
  <2>1. \A p \in parts : IsFiniteSet(p)
    BY <1>2
  <2> HIDE DEF parts
  <2> QED  BY <1>4, <2>1, FS_UNION
<1> HIDE DEF parts
<1> QED  BY <1>1, <1>5, FS_Subset, FS_CardinalityType

-----------------------------------------------------------------------------
(* What is listed and eligible.                                            *)

RowType == [name : Nat, base : Nat, quote : Nat, spot : BOOLEAN]

LEMMA TickerType ==
    ASSUME NEW rows \in Seq(StatsType), NEW name \in Nat
    PROVE  Ticker(rows, name) \in StatsType
<1> DEFINE own == {i \in DOMAIN rows : rows[i].name = name}
           Best(i) == \A j \in own : rows[j].volume < rows[i].volume
                                     \/ (rows[j].volume = rows[i].volume /\ i <= j)
<1>1. \A i \in DOMAIN rows : i \in Nat /\ rows[i] \in StatsType
  OBVIOUS
<1>2. \A i \in DOMAIN rows : rows[i].volume \in Nat
  BY <1>1 DEF StatsType
<1>3. CASE own = {}
  <2>1. Ticker(rows, name) = [name |-> name, volume |-> 0, bid |-> 0, bidQty |-> 0,
                              ask |-> 0, askQty |-> 0, last |-> 0, average |-> 0]
    BY <1>3 DEF Ticker
  <2> QED  BY <2>1 DEF StatsType
<1>4. CASE own # {}
  <2> DEFINE R == {p \in own \X own :
                      \/ rows[p[1]].volume > rows[p[2]].volume
                      \/ rows[p[1]].volume = rows[p[2]].volume /\ p[1] < p[2]}
  <2>1. \A i, j \in own : <<i, j>> \in R <=>
            \/ rows[i].volume > rows[j].volume
            \/ rows[i].volume = rows[j].volume /\ i < j
    OBVIOUS
  <2>2. \A i \in own : i \in Nat /\ rows[i].volume \in Nat
    BY <1>1, <1>2
  <2>3. IsFiniteSet(own)
    <3>1. own \in SUBSET (DOMAIN rows) /\ DOMAIN rows = 1..Len(rows) /\ Len(rows) \in Nat
      OBVIOUS
    <3>2. IsFiniteSet(DOMAIN rows)
      BY <3>1, FS_Interval
    <3> HIDE DEF own
    <3> QED  BY <3>1, <3>2, FS_Subset
  <2>4. PICK i \in own : \A j \in own : <<j, i>> \notin R
    <3> HIDE DEF R, own
    <3>1. \A x \in own : <<x, x>> \notin R
      BY <2>1, <2>2
    <3>2. ASSUME NEW x \in own, NEW y \in own, NEW z \in own,
                 <<x, y>> \in R, <<y, z>> \in R
          PROVE  <<x, z>> \in R
      <4>1. /\ x \in Nat /\ y \in Nat /\ z \in Nat /\ rows[x].volume \in Nat
            /\ rows[y].volume \in Nat /\ rows[z].volume \in Nat
        BY <2>2
      <4>2. /\ rows[x].volume > rows[y].volume \/ (rows[x].volume = rows[y].volume /\ x < y)
            /\ rows[y].volume > rows[z].volume \/ (rows[y].volume = rows[z].volume /\ y < z)
        BY <2>1, <3>2
      <4>3. rows[x].volume > rows[z].volume \/ (rows[x].volume = rows[z].volume /\ x < z)
        BY <4>1, <4>2
      <4> QED  BY <2>1, <4>3
    <3>3. StrictOrder(own, R)
      BY <3>1, <3>2 DEF StrictOrder
    <3> QED  BY <1>4, <2>3, <3>3, LeastOf
  <2>5. Best(i)
    <3> HIDE DEF R, own
    <3> SUFFICES ASSUME NEW j \in own
                 PROVE  rows[j].volume < rows[i].volume
                        \/ (rows[j].volume = rows[i].volume /\ i <= j)
      OBVIOUS
    <3>1. /\ i \in Nat /\ j \in Nat /\ rows[i].volume \in Nat /\ rows[j].volume \in Nat
      BY <2>2
    <3>2. ~(rows[j].volume > rows[i].volume \/ (rows[j].volume = rows[i].volume /\ j < i))
      BY <2>1, <2>4
    <3> QED  BY <3>1, <3>2
  <2>6. Ticker(rows, name) = rows[CHOOSE k \in own : Best(k)]
    BY <1>4 DEF Ticker
  <2>7. (CHOOSE k \in own : Best(k)) \in own
    <3> HIDE DEF Best, own
    <3> QED  BY <2>5
  <2> HIDE DEF Best
  <2> QED  BY <1>1, <2>6, <2>7
<1> QED  BY <1>3, <1>4

(* The markets of a discovery: finitely many, one of a name.                *)
LEMMA EligibleOK ==
    ASSUME NEW m \in Markets, NEW given
    PROVE  LET eligible == Eligible(Combined(m.listing, m.tickers), given) IN
           /\ MarketsOK(eligible)
           /\ \A x, y \in eligible : x.name = y.name => x = y
<1> DEFINE rows == m.listing
           IsLast(j) == Traded(rows[j]) /\
               \A k \in DOMAIN rows : k > j /\ Traded(rows[k]) => rows[k].name # rows[j].name
           last == {j \in DOMAIN rows : IsLast(j)}
           Row(x) == [name |-> x.name, base |-> x.base, quote |-> x.quote, spot |-> x.spot,
                      stats |-> Ticker(m.tickers, x.name)]
           combined == Combined(rows, m.tickers)
           eligible == Eligible(combined, given)
<1>1. rows \in Seq(RowType) /\ m.tickers \in Seq(StatsType)
  BY StartupAssumption DEF RowType, StatsType
<1>2. /\ DOMAIN rows = 1..Len(rows) /\ Len(rows) \in Nat
      /\ \A j \in DOMAIN rows : rows[j] \in RowType
  BY <1>1
<1>3. Listed(rows) = {rows[j] : j \in last}
  BY DEF Listed
<1>4. IsFiniteSet(Listed(rows))
  <2>1. last \in SUBSET (1..Len(rows)) /\ IsFiniteSet(1..Len(rows))
    <3>1. IsFiniteSet(1..Len(rows))
      BY <1>2, FS_Interval
    <3> QED  BY <1>2, <3>1
  <2>2. [j \in last |-> rows[j]] \in Surjection(last, Listed(rows))
    <3> HIDE DEF last, rows
    <3> QED  BY <1>3 DEF Surjection
  <2> HIDE DEF last
  <2> QED  BY <2>1, <2>2, FS_Subset, FS_Surjection
<1>5. combined = {Row(x) : x \in Listed(rows)}
  BY DEF Combined
<1>6. IsFiniteSet(combined)
  <2>1. [x \in Listed(rows) |-> Row(x)] \in Surjection(Listed(rows), combined)
    <3> HIDE DEF Row, combined, rows
    <3> QED  BY <1>5 DEF Surjection
  <2> QED  BY <1>4, <2>1, FS_Surjection
<1>7. ASSUME NEW x \in Listed(rows)
      PROVE  x \in RowType /\ x.base # x.quote /\ Row(x) \in MarketType
             /\ Row(x).name = x.name /\ Row(x).base = x.base /\ Row(x).quote = x.quote
  <2>1. x \in RowType /\ x.base # x.quote
    BY <1>2, <1>3 DEF Traded
  <2>2. /\ x.name \in Nat /\ x.base \in Nat /\ x.quote \in Nat /\ x.spot \in BOOLEAN
    BY <2>1 DEF RowType
  <2>3. Ticker(m.tickers, x.name) \in StatsType
    BY <1>1, <2>2, TickerType
  <2> QED  BY <2>1, <2>2, <2>3 DEF MarketType
<1>8. ASSUME NEW x \in Listed(rows), NEW y \in Listed(rows), x.name = y.name
      PROVE  x = y
  <2>1. PICK j \in last : x = rows[j]
    BY <1>3
  <2>2. PICK k \in last : y = rows[k]
    BY <1>3
  <2>3. j \in Nat /\ k \in Nat
    BY <1>2
  <2>4. ~(k > j) /\ ~(j > k)
    BY <1>8, <2>1, <2>2
  <2> QED  BY <2>1, <2>2, <2>3, <2>4
<1>9. eligible \subseteq combined
  BY DEF Eligible
<1>10. MarketsOK(eligible)
  <2> HIDE DEF eligible, combined, rows, Row
  <2>1. IsFiniteSet(eligible)
    BY <1>6, <1>9, FS_Subset
  <2>2. \A z \in eligible : z \in MarketType /\ z.base # z.quote
    BY <1>5, <1>7, <1>9
  <2> QED  BY <2>1, <2>2 DEF MarketsOK
<1>11. ASSUME NEW x \in eligible, NEW y \in eligible, x.name = y.name PROVE x = y
  <2> HIDE DEF eligible, combined, rows, Row
  <2>1. PICK u \in Listed(rows) : x = Row(u)
    BY <1>5, <1>9
  <2>2. PICK v \in Listed(rows) : y = Row(v)
    BY <1>5, <1>9
  <2>3. u.name = v.name
    BY <1>7, <1>11, <2>1, <2>2
  <2> QED  BY <1>8, <2>1, <2>2, <2>3
<1> QED  BY <1>10, <1>11

-----------------------------------------------------------------------------
(* The selection loop.                                                     *)

GivenOK(given) ==
    /\ given.root \in Nat /\ given.maxSymbols \in Nat /\ given.maxCycles \in Nat

\* The loop over the first n of the ranked cycles.
LoopsTo(after, n, cycles, ranked, given) ==
    after = [k \in 0..n |->
                IF k = 0 THEN {} ELSE Taken(after[k - 1], GroupOf(cycles, ranked[k]), given)]

LEMMA LoopExists ==
    ASSUME NEW cycles, NEW ranked, NEW given, NEW n \in Nat
    PROVE  \E after : LoopsTo(after, n, cycles, ranked, given)
<1> DEFINE Bad == {m \in Nat : ~ \E after : LoopsTo(after, m, cycles, ranked, given)}
<1>1. SUFFICES ASSUME Bad # {} PROVE FALSE
  OBVIOUS
<1>2. PICK m \in Bad : \A k \in Bad : m <= k
  BY <1>1, LeastNatural
<1>3. m # 0
  <2>1. LoopsTo([k \in 0..0 |-> {}], 0, cycles, ranked, given)
    BY DEF LoopsTo
  <2> QED  BY <2>1
<1>4. PICK after : LoopsTo(after, m - 1, cycles, ranked, given)
  <2>1. m - 1 \in Nat /\ ~(m <= m - 1)
    BY <1>3
  <2> QED  BY <2>1, <1>2
<1> DEFINE Turn(chosen, k) == Taken(chosen, GroupOf(cycles, ranked[k]), given)
           longer == [k \in 0..m |-> IF k = m THEN Turn(after[m - 1], m) ELSE after[k]]
<1>5. ASSUME NEW k \in 0..m
      PROVE  longer[k] = IF k = 0 THEN {} ELSE Turn(longer[k - 1], k)
  <2> HIDE DEF Turn
  <2>1. CASE k = m
    BY <2>1, <1>3
  <2>2. CASE k # m
    <3>1. k \in 0..(m - 1)
      BY <2>2
    <3>2. longer[k] = after[k]
      BY <3>1, <2>2
    <3>3. after[k] = IF k = 0 THEN {} ELSE Turn(after[k - 1], k)
      BY <3>1, <1>4 DEF LoopsTo, Turn
    <3>4. k # 0 => longer[k - 1] = after[k - 1]
      BY <3>1, <1>3
    <3> QED  BY <3>2, <3>3, <3>4
  <2> QED  BY <2>1, <2>2
<1>6. LoopsTo(longer, m, cycles, ranked, given)
  BY <1>5 DEF LoopsTo
<1> QED  BY <1>6

(* ChosenAfter is that loop.                                                *)
LEMMA LoopIs ==
    ASSUME NEW cycles, NEW E, NEW ranked \in Seq(E), NEW given
    PROVE  /\ ChosenAfter(cycles, ranked, given)[0] = {}
           /\ \A k \in 1..Len(ranked) :
                  ChosenAfter(cycles, ranked, given)[k] =
                      Taken(ChosenAfter(cycles, ranked, given)[k - 1],
                            GroupOf(cycles, ranked[k]), given)
<1>1. Len(ranked) \in Nat
  OBVIOUS
<1>2. \E after : LoopsTo(after, Len(ranked), cycles, ranked, given)
  BY <1>1, LoopExists
<1>3. LoopsTo(ChosenAfter(cycles, ranked, given), Len(ranked), cycles, ranked, given)
  BY <1>2, Zenon DEF ChosenAfter, LoopsTo
<1> DEFINE after == ChosenAfter(cycles, ranked, given)
<1> HIDE DEF after
<1>4. \A k \in 0..Len(ranked) :
          after[k] = IF k = 0 THEN {} ELSE Taken(after[k - 1], GroupOf(cycles, ranked[k]), given)
  BY <1>3 DEF LoopsTo, after
<1>5. after[0] = {}
  BY <1>1, <1>4
<1>6. ASSUME NEW k \in 1..Len(ranked)
      PROVE  after[k] = Taken(after[k - 1], GroupOf(cycles, ranked[k]), given)
  BY <1>1, <1>4
<1> QED  BY <1>5, <1>6 DEF after

(* What fits beside some cycles fits beside fewer.                          *)
LEMMA FitsBesideFewer ==
    ASSUME NEW given, GivenOK(given), NEW D, IsFiniteSet(D), NEW C \in SUBSET D,
           NEW group, IsFiniteSet(group), Fits(D, group, given)
    PROVE  Fits(C, group, given)
<1>1. IsFiniteSet(D \cup group) /\ C \cup group \in SUBSET (D \cup group)
  BY FS_Union
<1>2. /\ Cardinality(Required(C \cup group)) <= Cardinality(Required(D \cup group))
      /\ Cardinality(Required(D \cup group)) \in Nat
  BY <1>1, RequiredOK
<1>3. Cardinality(Required(C \cup group)) \in Nat
  <2>1. IsFiniteSet(C \cup group)
    BY <1>1, FS_Subset
  <2> QED  BY <2>1, RequiredOK
<1>4. /\ Cardinality(C) \in Nat /\ Cardinality(D) \in Nat /\ Cardinality(group) \in Nat
      /\ Cardinality(C) <= Cardinality(D)
  BY FS_Subset, FS_CardinalityType
<1>5. given.maxSymbols \in Nat /\ given.maxCycles \in Nat
  BY DEF GivenOK
<1>6. /\ Cardinality(Required(D \cup group)) <= given.maxSymbols
      /\ Cardinality(D) + Cardinality(group) <= given.maxCycles
  BY DEF Fits
<1>7. /\ Cardinality(Required(C \cup group)) <= given.maxSymbols
      /\ Cardinality(C) + Cardinality(group) <= given.maxCycles
  BY <1>2, <1>3, <1>4, <1>5, <1>6
<1> QED  BY <1>7 DEF Fits

\* Some cycles of C that keep both caps, in whole groups, each of which has a
\* chosen cycle among the first n ranked.
SelectionOK(chosen, n, C, ranked, given) ==
    /\ chosen \subseteq C
    /\ Cardinality(chosen) <= given.maxCycles
    /\ Cardinality(Required(chosen)) <= given.maxSymbols
    /\ \A d \in chosen : GroupOf(C, d) \subseteq chosen
    /\ \A d \in chosen : \E j \in 1..n :
           Between(ranked[j]) = Between(d) /\ ranked[j] \in chosen

LEMMA NothingOK ==
    ASSUME NEW C, NEW ranked, NEW given, GivenOK(given)
    PROVE  SelectionOK({}, 0, C, ranked, given)
<1>1. Required({}) = {} /\ Cardinality({}) = 0
  BY FS_EmptySet DEF Required
<1>2. given.maxSymbols \in Nat /\ given.maxCycles \in Nat
  BY DEF GivenOK
<1>3. Cardinality({}) <= given.maxCycles
  BY <1>1, <1>2
<1>4. Cardinality(Required({})) <= given.maxSymbols
  BY <1>1, <1>2
<1>5. \A d \in {} : GroupOf(C, d) \subseteq {}
  OBVIOUS
<1>6. {} \subseteq C
  OBVIOUS
<1>7. \A d \in {} : \E j \in 1..0 : Between(ranked[j]) = Between(d) /\ ranked[j] \in {}
  OBVIOUS
<1> QED  BY <1>3, <1>4, <1>5, <1>6, <1>7, Zenon DEF SelectionOK

(* One turn of the loop.                                                    *)
LEMMA TurnOK ==
    ASSUME NEW C, IsFiniteSet(C), NEW given, GivenOK(given), NEW ranked, NEW n \in Nat \ {0},
           NEW chosen, SelectionOK(chosen, n - 1, C, ranked, given), ranked[n] \in C
    PROVE  /\ SelectionOK(Taken(chosen, GroupOf(C, ranked[n]), given), n, C, ranked, given)
           /\ chosen \subseteq Taken(chosen, GroupOf(C, ranked[n]), given)
           /\ \/ ranked[n] \in Taken(chosen, GroupOf(C, ranked[n]), given)
              \/ ~Fits(chosen, GroupOf(C, ranked[n]), given)
<1> DEFINE group == GroupOf(C, ranked[n])
           next == Taken(chosen, group, given)
<1>1. /\ group \subseteq C /\ ranked[n] \in group
      /\ \A d \in group : Between(d) = Between(ranked[n]) /\ GroupOf(C, d) = group
  BY DEF GroupOf
<1>2. 1..(n - 1) \subseteq 1..n /\ n \in 1..n
  OBVIOUS
<1> HIDE DEF group
<1>3. CASE group \subseteq chosen \/ ~Fits(chosen, group, given)
  <2>1. next = chosen
    BY <1>3 DEF Taken
  <2>2. SelectionOK(chosen, n, C, ranked, given)
    BY <1>2 DEF SelectionOK
  <2> QED  BY <2>1, <2>2, <1>1, <1>3 DEF group
<1>4. CASE ~(group \subseteq chosen) /\ Fits(chosen, group, given)
  <2>1. next = chosen \cup group
    BY <1>4 DEF Taken
  <2> HIDE DEF next
  <2>2. chosen \subseteq C /\ next \subseteq C
    BY <1>1, <2>1 DEF SelectionOK
  <2>3. Cardinality(next) <= given.maxCycles
    <3>1. IsFiniteSet(chosen) /\ IsFiniteSet(group) /\ IsFiniteSet(chosen \cap group)
      BY <1>1, <2>2, FS_Subset, FS_Intersection
    <3>2. /\ Cardinality(chosen) \in Nat /\ Cardinality(group) \in Nat
          /\ Cardinality(chosen \cap group) \in Nat
      BY <3>1, FS_CardinalityType
    <3>3. Cardinality(next) = Cardinality(chosen) + Cardinality(group)
                                  - Cardinality(chosen \cap group)
      BY <2>1, <3>1, FS_Union
    <3>4. Cardinality(chosen) + Cardinality(group) <= given.maxCycles
      BY <1>4 DEF Fits
    <3>5. given.maxCycles \in Nat
      BY DEF GivenOK
    <3> QED  BY <3>2, <3>3, <3>4, <3>5
  <2>4. Cardinality(Required(next)) <= given.maxSymbols
    BY <1>4, <2>1 DEF Fits
  <2>5. \A d \in next : GroupOf(C, d) \subseteq next
    BY <1>1, <2>1 DEF SelectionOK
  <2>6. ASSUME NEW d \in next
        PROVE  \E j \in 1..n : Between(ranked[j]) = Between(d) /\ ranked[j] \in next
    <3>1. CASE d \in chosen
      <4>1. PICK j \in 1..(n - 1) : Between(ranked[j]) = Between(d) /\ ranked[j] \in chosen
        BY <3>1 DEF SelectionOK
      <4> QED  BY <4>1, <1>2, <2>1
    <3>2. CASE d \in group
      <4>1. Between(ranked[n]) = Between(d) /\ ranked[n] \in next
        BY <3>2, <1>1, <2>1
      <4> QED  BY <4>1, <1>2
    <3> QED  BY <3>1, <3>2, <2>1
  <2>7. SelectionOK(next, n, C, ranked, given)
    BY <2>2, <2>3, <2>4, <2>5, <2>6 DEF SelectionOK
  <2> QED  BY <2>1, <2>7, <1>1 DEF group, next
<1> QED  BY <1>3, <1>4

(* The loop keeps whole groups within both caps and gives up none, and a    *)
(* cycle that is not chosen did not fit when its turn came.                 *)
LEMMA LoopOK ==
    ASSUME NEW C, IsFiniteSet(C), NEW given, GivenOK(given), NEW ranked \in Seq(C)
    PROVE  LET after == ChosenAfter(C, ranked, given) IN
           /\ \A n \in 0..Len(ranked) :
                  /\ SelectionOK(after[n], n, C, ranked, given)
                  /\ after[n] \subseteq after[Len(ranked)]
           /\ \A n \in 1..Len(ranked) :
                  ranked[n] \in after[Len(ranked)]
                  \/ ~Fits(after[n - 1], GroupOf(C, ranked[n]), given)
<1> DEFINE after == ChosenAfter(C, ranked, given)
           size == Len(ranked)
<1>1. size \in Nat /\ \A n \in 1..size : ranked[n] \in C
  OBVIOUS
<1>2. /\ after[0] = {}
      /\ \A n \in 1..size : after[n] = Taken(after[n - 1], GroupOf(C, ranked[n]), given)
  <2>1. /\ ChosenAfter(C, ranked, given)[0] = {}
        /\ \A k \in 1..Len(ranked) :
               ChosenAfter(C, ranked, given)[k] =
                   Taken(ChosenAfter(C, ranked, given)[k - 1], GroupOf(C, ranked[k]), given)
    <3> HIDE DEF after, size
    <3> QED  BY LoopIs
  <2> QED  BY <2>1
<1> HIDE DEF after, size
<1>3. ASSUME NEW n \in 0..size PROVE SelectionOK(after[n], n, C, ranked, given)
  <2> DEFINE Bad == {m \in 0..size : ~SelectionOK(after[m], m, C, ranked, given)}
  <2>1. SUFFICES ASSUME Bad # {} PROVE FALSE
    OBVIOUS
  <2>2. Bad \in SUBSET Nat
    BY <1>1
  <2>3. PICK m \in Bad : \A k \in Bad : m <= k
    <3> HIDE DEF Bad
    <3> QED  BY <2>1, <2>2, LeastNatural
  <2>4. m \in 0..size /\ ~SelectionOK(after[m], m, C, ranked, given)
    BY <2>3
  <2>5. CASE m = 0
    <3> HIDE DEF Bad
    <3> QED  BY <2>4, <2>5, NothingOK, <1>2
  <2>6. CASE m # 0
    <3>1. m \in Nat \ {0} /\ m \in 1..size /\ m - 1 \in 0..size /\ ~(m <= m - 1)
      BY <1>1, <2>4, <2>6
    <3>2. SelectionOK(after[m - 1], m - 1, C, ranked, given)
      BY <3>1, <2>3
    <3>3. ranked[m] \in C /\ after[m] = Taken(after[m - 1], GroupOf(C, ranked[m]), given)
      BY <1>1, <1>2, <3>1
    <3> HIDE DEF Bad
    <3> QED  BY <2>4, <3>1, <3>2, <3>3, TurnOK
  <2> QED  BY <2>5, <2>6
<1>4. ASSUME NEW n \in 1..size
      PROVE  /\ after[n - 1] \subseteq after[n]
             /\ ranked[n] \in after[n] \/ ~Fits(after[n - 1], GroupOf(C, ranked[n]), given)
  <2>1. n \in Nat \ {0} /\ n - 1 \in 0..size
    BY <1>1
  <2>2. SelectionOK(after[n - 1], n - 1, C, ranked, given)
    BY <1>3, <2>1
  <2>3. ranked[n] \in C /\ after[n] = Taken(after[n - 1], GroupOf(C, ranked[n]), given)
    BY <1>1, <1>2
  <2> QED  BY <2>1, <2>2, <2>3, TurnOK
<1>5. ASSUME NEW n \in 0..size PROVE after[n] \subseteq after[size]
  <2> DEFINE Bad == {m \in 0..size : ~(after[n] \subseteq after[m]) /\ n <= m}
  <2>1. SUFFICES ASSUME Bad # {} PROVE FALSE
    BY <1>1
  <2>2. Bad \in SUBSET Nat
    BY <1>1
  <2>3. PICK m \in Bad : \A k \in Bad : m <= k
    <3> HIDE DEF Bad
    <3> QED  BY <2>1, <2>2, LeastNatural
  <2>4. m \in 0..size /\ n <= m /\ ~(after[n] \subseteq after[m])
    BY <2>3
  <2>5. m # n
    BY <2>4
  <2>6. m \in 1..size /\ m - 1 \in 0..size /\ n <= m - 1 /\ ~(m <= m - 1)
    BY <1>1, <2>4, <2>5
  <2>7. after[n] \subseteq after[m - 1]
    BY <2>3, <2>6
  <2> HIDE DEF Bad
  <2> QED  BY <1>4, <2>4, <2>6, <2>7
<1>6. \A n \in 1..size : n \in 0..size
  BY <1>1
<1> QED  BY <1>3, <1>4, <1>5, <1>6 DEF after, size

-----------------------------------------------------------------------------
(* What a discovery chooses.                                               *)

(* The cycles chosen among the triangles keep both caps, in whole groups.   *)
LEMMA BoundedOK ==
    ASSUME NEW S, MarketsOK(S), NEW given, GivenOK(given), NEW C, C = Triangles(S, given)
    PROVE  /\ IsFiniteSet(C) /\ RankCycles(C) \in Seq(C)
           /\ Len(RankCycles(C)) = Cardinality(C) /\ Cardinality(C) \in Nat
           /\ SelectionOK(Bounded(C, given), Cardinality(C), C, RankCycles(C), given)
<1> DEFINE ranked == RankCycles(C)
           after == ChosenAfter(C, ranked, given)
<1>1. IsFiniteSet(C) /\ C \in SUBSET Triangles(S, given)
  BY TrianglesFinite
<1>2. Cardinality(C) \in Nat /\ ranked \in Seq(C) /\ Len(ranked) = Cardinality(C)
  BY <1>1, RankedOK
<1>3. \A n \in 0..Len(ranked) : SelectionOK(after[n], n, C, ranked, given)
  BY <1>1, <1>2, LoopOK
<1>4. SelectionOK(after[Len(ranked)], Len(ranked), C, ranked, given)
  <2>1. Len(ranked) \in 0..Len(ranked)
    BY <1>2
  <2> HIDE DEF ranked, after
  <2> QED  BY <1>3, <2>1
<1>5. Bounded(C, given) = after[Len(ranked)]
  BY DEF Bounded
<1> QED  BY <1>1, <1>2, <1>4, <1>5

\* The chosen pairs one direction of which is ranked above c.
Better(chosen, c) ==
    {d \in chosen : \E e \in {e \in chosen : Precedes(CycleKey(e), CycleKey(c))} :
                        Between(e) = Between(d)}

(* A triangle is left out only where it did not fit beside better pairs.    *)
LEMMA LeftOutOK ==
    ASSUME NEW S, MarketsOK(S), NEW given, GivenOK(given), NEW C, C = Triangles(S, given),
           NEW c \in C, c \notin Bounded(C, given)
    PROVE  ~Fits(Better(Bounded(C, given), c), GroupOf(C, c), given)
<1> DEFINE ranked == RankCycles(C)
           after == ChosenAfter(C, ranked, given)
           n == Cardinality(C)
           chosen == Bounded(C, given)
           group == GroupOf(C, c)
<1>1. /\ IsFiniteSet(C) /\ n \in Nat /\ ranked \in Seq(C) /\ Len(ranked) = n
      /\ chosen \subseteq C
  BY BoundedOK DEF SelectionOK
<1>2. /\ {ranked[k] : k \in 1..n} = C
      /\ \A i, j \in 1..n : i < j => Precedes(CycleKey(ranked[i]), CycleKey(ranked[j]))
  BY RankedOK
<1>3. /\ \A k \in 0..n : /\ SelectionOK(after[k], k, C, ranked, given)
                         /\ after[k] \subseteq after[n]
      /\ \A k \in 1..n : ranked[k] \in after[n]
                         \/ ~Fits(after[k - 1], GroupOf(C, ranked[k]), given)
  <2> HIDE DEF ranked, n
  <2> QED  BY <1>1, LoopOK
<1>4. chosen = after[n]
  BY <1>1 DEF Bounded
<1> HIDE DEF ranked, after, n, chosen
<1>5. PICK k \in 1..n : c = ranked[k]
  BY <1>2
<1>6. k - 1 \in 0..n /\ \A j \in 1..(k - 1) : j \in 1..n /\ j < k
  BY <1>1
<1>7. ~Fits(after[k - 1], group, given)
  BY <1>3, <1>4, <1>5 DEF chosen
<1>8. ASSUME NEW d \in after[k - 1] PROVE d \in Better(chosen, c)
  <2>1. PICK j \in 1..(k - 1) : Between(ranked[j]) = Between(d) /\ ranked[j] \in after[k - 1]
    BY <1>3, <1>6 DEF SelectionOK
  <2>2. ranked[j] \in chosen /\ d \in chosen
    BY <1>3, <1>4, <1>6, <2>1
  <2>3. Precedes(CycleKey(ranked[j]), CycleKey(c))
    BY <1>2, <1>5, <1>6
  <2> QED  BY <2>1, <2>2, <2>3 DEF Better
<1>9. after[k - 1] \in SUBSET Better(chosen, c)
  BY <1>8
<1>10. IsFiniteSet(Better(chosen, c)) /\ IsFiniteSet(group)
  <2>1. Better(chosen, c) \subseteq C /\ group \subseteq C
    BY <1>1 DEF Better, GroupOf
  <2> QED  BY <1>1, <2>1, FS_Subset
<1> HIDE DEF group
<1>11. Fits(Better(chosen, c), group, given) => Fits(after[k - 1], group, given)
  BY <1>9, <1>10, FitsBesideFewer
<1> QED  BY <1>7, <1>11 DEF chosen, group

(* Both directions of a triangle are chosen or neither.                     *)
LEMMA MirrorsChosen ==
    ASSUME NEW S, MarketsOK(S), NEW given, GivenOK(given), NEW C, C = Triangles(S, given),
           NEW c \in Bounded(C, given)
    PROVE  \E d \in Bounded(C, given) : Mirrors(c, d)
<1>1. c \in C /\ GroupOf(C, c) \subseteq Bounded(C, given)
  BY BoundedOK DEF SelectionOK
<1>2. PICK first \in Nat, second \in Nat :
               /\ Through(given.root, first, second, ByPair(S))
               /\ c = MakeCycle(first, second, given, ByPair(S))
  BY <1>1, TriangleIs
<1> DEFINE d == MakeCycle(second, first, given, ByPair(S))
<1>3. Through(given.root, second, first, ByPair(S)) /\ Mirrors(c, d)
  BY <1>2, MirrorOK
<1>4. d \in C
  BY <1>3, TriangleIs
<1>5. Between(c) = {first, second} /\ Between(d) = {second, first}
  BY <1>2 DEF Between, MakeCycle
<1> HIDE DEF d
<1>6. d \in GroupOf(C, c)
  BY <1>4, <1>5 DEF GroupOf
<1> QED  BY <1>1, <1>3, <1>6

\* The order in which a selection lists the markets.
SymbolOrder(N, given) ==
    {p \in N \X N : Precedes(SymbolKey(given, p[1]), SymbolKey(given, p[2]))}

IsRanking(q, N, given) ==
    q = [k \in 1..Cardinality(N) |->
            CHOOSE x \in N :
                Cardinality({y \in N : Precedes(SymbolKey(given, y), SymbolKey(given, x))}) = k - 1]

LEMMA SymbolsOrdered ==
    ASSUME NEW N \in SUBSET MarketType, \A x, y \in N : x.name = y.name => x = y, NEW given
    PROVE  /\ StrictOrder(N, SymbolOrder(N, given))
           /\ \A x, y \in N : \/ x = y
                              \/ <<x, y>> \in SymbolOrder(N, given)
                              \/ <<y, x>> \in SymbolOrder(N, given)
<1> DEFINE Key(m) == SymbolKey(given, m)
           R == SymbolOrder(N, given)
<1>1. \A x, y \in N : <<x, y>> \in R <=> Precedes(Key(x), Key(y))
  BY DEF SymbolOrder
<1>2. \A m \in N : m.name \in Nat /\ Key(m) \in [1..5 -> Value] /\ Key(m)[5] = Num(m.name)
  BY MarketKeyTypes, StatsFields
<1> HIDE DEF Key, R
<1>3. StrictOrder(N, R)
  <2>1. \A x \in N : <<x, x>> \notin R
    BY <1>1, <1>2, KeysOrdered
  <2>2. ASSUME NEW x \in N, NEW y \in N, NEW z \in N, <<x, y>> \in R, <<y, z>> \in R
        PROVE  <<x, z>> \in R
    <3>1. Precedes(Key(x), Key(y)) /\ Precedes(Key(y), Key(z))
      BY <1>1, <2>2
    <3>2. /\ Key(x) \in [1..5 -> Value] /\ Key(y) \in [1..5 -> Value]
          /\ Key(z) \in [1..5 -> Value]
      BY <1>2
    <3>3. Precedes(Key(x), Key(z))
      BY <3>1, <3>2, KeysOrdered
    <3> QED  BY <1>1, <3>3
  <2> QED  BY <2>1, <2>2 DEF StrictOrder
<1>4. ASSUME NEW x \in N, NEW y \in N, <<x, y>> \notin R, <<y, x>> \notin R
      PROVE  x = y
  <2>1. \A i \in 1..5 : Same(Key(x)[i], Key(y)[i])
    BY <1>1, <1>2, <1>4, KeysOrdered
  <2>2. Same(Num(x.name), Num(y.name))
    BY <1>2, <2>1
  <2>3. x.name = y.name
    BY <1>2, <2>2 DEF Same, Num
  <2> QED  BY <2>3
<1> QED  BY <1>3, <1>4 DEF R

(* Markets of different names, ranked: each once.                           *)
LEMMA MarketsRanked ==
    ASSUME NEW N \in SUBSET MarketType, IsFiniteSet(N),
           \A x, y \in N : x.name = y.name => x = y,
           NEW given, NEW q, IsRanking(q, N, given)
    PROVE  /\ Cardinality(N) \in Nat /\ q \in Seq(N) /\ Len(q) = Cardinality(N)
           /\ {q[k] : k \in 1..Cardinality(N)} = N
<1> DEFINE R == SymbolOrder(N, given)
           P(x, k) == Cardinality({y \in N : Precedes(SymbolKey(given, y), SymbolKey(given, x))})
                          = k - 1
           Place(k) == CHOOSE x \in N : P(x, k)
<1>1. \A k : \A x \in N : P(x, k) <=> Cardinality(Below(N, R, x)) = k - 1
  <2>1. \A x \in N : Below(N, R, x) =
            {y \in N : Precedes(SymbolKey(given, y), SymbolKey(given, x))}
    BY DEF Below, SymbolOrder
  <2> QED  BY <2>1
<1>2. q = [k \in 1..Cardinality(N) |-> Place(k)]
  BY DEF IsRanking
<1> HIDE DEF P
<1>3. ASSUME NEW k, NEW x \in N, P(x, k) PROVE Place(k) \in N /\ P(Place(k), k)
  BY <1>3
<1> HIDE DEF Place, R
<1>4. Sorts(q, N, R)
  <2>1. q = [k \in 1..Cardinality(N) |-> q[k]]
    BY <1>2
  <2>2. ASSUME NEW k \in 1..Cardinality(N),
               NEW x \in N, Cardinality(Below(N, R, x)) = k - 1
        PROVE  q[k] \in N /\ Cardinality(Below(N, R, q[k])) = k - 1
    <3>1. q[k] = Place(k) /\ P(x, k)
      BY <1>1, <1>2, <2>2
    <3> QED  BY <1>1, <1>3, <3>1
  <2> QED  BY <2>1, <2>2 DEF Sorts
<1>5. /\ StrictOrder(N, R)
      /\ \A x, y \in N : x = y \/ <<x, y>> \in R \/ <<y, x>> \in R
  BY SymbolsOrdered DEF R
<1> QED  BY <1>4, <1>5, SortedOK

\* What a selection makes of the ranked markets.
NamesIn(q) == [k \in DOMAIN q |-> q[k].name]

(* Their names: each once.                                                  *)
LEMMA NamesOfAll ==
    ASSUME NEW N, IsFiniteSet(N), \A x, y \in N : x.name = y.name => x = y,
           NEW q \in Seq(N), Len(q) = Cardinality(N),
           \A m \in N : \E k \in 1..Cardinality(N) : q[k] = m,
           NEW names, \A m \in N : m.name \in names, \A s \in names : \E m \in N : s = m.name,
           NEW symbols, symbols = NamesIn(q)
    PROVE  ToSet(symbols) = names /\ Len(symbols) = Cardinality(names)
<1> DEFINE n == Cardinality(N)
           f == [m \in N |-> m.name]
<1>1. n \in Nat /\ DOMAIN q = 1..n /\ \A k \in 1..n : q[k] \in N
  BY FS_CardinalityType
<1>2. DOMAIN symbols = 1..n /\ \A k \in 1..n : symbols[k] = q[k].name
  BY <1>1 DEF NamesIn
<1>3. symbols \in [1..n -> names]
  BY <1>1, <1>2 DEF NamesIn
<1>4. ToSet(symbols) = names
  <2>1. \A s \in names : \E k \in 1..n : symbols[k] = s
    BY <1>2
  <2> HIDE DEF n
  <2> QED  BY <1>2, <1>3, <2>1 DEF ToSet
<1>5. f \in [N -> names] /\ \A x, y \in N : f[x] = f[y] => x = y
  OBVIOUS
<1>6. \A s \in names : \E m \in N : f[m] = s
  OBVIOUS
<1> HIDE DEF n, f
<1>7. Len(symbols) = n
  <2>1. symbols \in Seq(names)
    BY <1>1, <1>3
  <2> QED  BY <1>1, <1>3, <2>1, LenProperties
<1>8. f \in Bijection(N, names)
  BY <1>5, <1>6 DEF Bijection, Injection, Surjection, IsInjective
<1>9. Cardinality(names) = n
  BY <1>8, FS_Bijection DEF n, ExistsBijection
<1> QED  BY <1>4, <1>7, <1>9

(* The ranked symbols are those the cycles trade.                           *)
LEMMA SymbolsOK ==
    ASSUME NEW S, MarketsOK(S), \A x, y \in S : x.name = y.name => x = y,
           NEW given, NEW D \in SUBSET Triangles(S, given),
           NEW N \in SUBSET S, \A m \in S : m \in N <=> m.name \in Required(D),
           NEW q, IsRanking(q, N, given),
           NEW symbols, symbols = NamesIn(q)
    PROVE  ToSet(symbols) = Required(D) /\ Len(symbols) = Cardinality(Required(D))
<1>1. IsFiniteSet(N) /\ N \in SUBSET MarketType
  BY FS_Subset DEF MarketsOK
<1>2. \A x, y \in N : x.name = y.name => x = y
  OBVIOUS
<1>3. /\ Cardinality(N) \in Nat /\ q \in Seq(N) /\ Len(q) = Cardinality(N)
      /\ {q[k] : k \in 1..Cardinality(N)} = N
  BY <1>1, <1>2, MarketsRanked
<1>4. \A m \in N : \E k \in 1..Cardinality(N) : q[k] = m
  BY <1>3
<1>5. ASSUME NEW s \in Required(D) PROVE \E m \in N : s = m.name
  <2>1. PICK c \in D, i \in 1..3 : s = c.legs[i].symbol
    BY DEF Required
  <2>2. c \in Triangles(S, given)
    OBVIOUS
  <2>3. \E m \in S : s = m.name
    BY <2>1, <2>2, SymbolsTraded
  <2> QED  BY <2>3
<1>6. \A m \in N : m.name \in Required(D)
  OBVIOUS
<1> QED  BY <1>1, <1>2, <1>3, <1>4, <1>5, <1>6, NamesOfAll

\* The cycles are those chosen of C, in whole pairs and within both caps; the
\* symbols are those they trade; nothing that fits was left out.
WholeChoice(cycles, symbols, C, given) ==
    LET chosen == {cycles[k] : k \in DOMAIN cycles}
    IN  /\ Len(cycles) <= given.maxCycles /\ Len(symbols) <= given.maxSymbols
        /\ ToSet(symbols) = Required(chosen)
        /\ Len(symbols) = Cardinality(Required(chosen))
        /\ \A c \in chosen : \E d \in chosen : Mirrors(c, d)
        /\ \A c \in C : c \notin chosen => ~Fits(Better(chosen, c), GroupOf(C, c), given)

TrianglesOf(m, given) == Triangles(Eligible(Combined(m.listing, m.tickers), given), given)

(* What a discovery leaves is a whole choice.                               *)
LEMMA DiscoveryOK ==
    ASSUME NEW m \in Markets, NEW given \in SettingsChoices
    PROVE  WholeChoice(Discovery(m, given).cycles, Discovery(m, given).symbols,
                       TrianglesOf(m, given), given)
<1>0. PICK C, cycles, symbols : /\ C = TrianglesOf(m, given)
                                /\ cycles = Discovery(m, given).cycles
                                /\ symbols = Discovery(m, given).symbols
  OBVIOUS
<1> DEFINE S == Eligible(Combined(m.listing, m.tickers), given)
           chosen == Bounded(C, given)
           N == {x \in S : x.name \in Required(chosen)}
           q == Ranked(N, LAMBDA x : SymbolKey(given, x))
<1>1. MarketsOK(S) /\ \A x, y \in S : x.name = y.name => x = y
  BY EligibleOK
<1>2. GivenOK(given)
  BY StartupAssumption DEF GivenOK
<1>3. C = Triangles(S, given)
  BY <1>0 DEF TrianglesOf
<1>4. cycles = RankCycles(chosen)
  BY <1>0 DEF Discovery, TrianglesOf
<1>5. IsRanking(q, N, given) /\ symbols = NamesIn(q)
  <2>1. IsRanking(q, N, given)
    BY DEF Ranked, IsRanking
  <2>2. symbols = NamesIn(q)
    BY <1>0 DEF Discovery, TrianglesOf, NamesIn
  <2> QED  BY <2>1, <2>2
<1>6. N \in SUBSET S /\ \A x \in S : x \in N <=> x.name \in Required(chosen)
  OBVIOUS
<1> HIDE DEF S, chosen, N, q
<1>7. SelectionOK(chosen, Cardinality(C), C, RankCycles(C), given) /\ IsFiniteSet(C)
  BY <1>1, <1>2, <1>3, BoundedOK DEF chosen
<1>8. /\ chosen \in SUBSET Triangles(S, given) /\ Cardinality(chosen) <= given.maxCycles
      /\ Cardinality(Required(chosen)) <= given.maxSymbols
  BY <1>3, <1>7 DEF SelectionOK
<1>9. /\ Cardinality(chosen) \in Nat /\ cycles \in Seq(chosen)
      /\ Len(cycles) = Cardinality(chosen)
      /\ {cycles[k] : k \in 1..Cardinality(chosen)} = chosen
  <2>1. /\ Cardinality(chosen) \in Nat /\ RankCycles(chosen) \in Seq(chosen)
        /\ Len(RankCycles(chosen)) = Cardinality(chosen)
        /\ {RankCycles(chosen)[k] : k \in 1..Cardinality(chosen)} = chosen
    BY <1>1, <1>8, RankedOK
  <2> QED  BY <1>4, <2>1, Zenon
<1>10. {cycles[k] : k \in DOMAIN cycles} = chosen
  <2>1. DOMAIN cycles = 1..Cardinality(chosen)
    BY <1>9
  <2> QED  BY <1>9, <2>1
<1>11. ToSet(symbols) = Required(chosen) /\ Len(symbols) = Cardinality(Required(chosen))
  BY <1>1, <1>5, <1>6, <1>8, SymbolsOK
<1>12. \A c \in chosen : \E d \in chosen : Mirrors(c, d)
  BY <1>1, <1>2, <1>3, MirrorsChosen DEF chosen
<1>13. \A c \in C : c \notin chosen => ~Fits(Better(chosen, c), GroupOf(C, c), given)
  BY <1>1, <1>2, <1>3, LeftOutOK DEF chosen
<1>14. WholeChoice(cycles, symbols, C, given)
  BY <1>8, <1>9, <1>10, <1>11, <1>12, <1>13 DEF WholeChoice
<1> QED  BY <1>0, <1>14

-----------------------------------------------------------------------------
(* Greatest fees, and what a schedule made of fees charges.                *)

(* A nonempty set of naturals below a bound has a greatest element: take    *)
(* the one that is the least far from the bound.                            *)
LEMMA GreatestFee ==
    ASSUME NEW S \in SUBSET Nat, NEW bound \in Nat, S # {}, \A x \in S : x < bound
    PROVE  Max(S) \in S /\ \A y \in S : Max(S) >= y
<1> DEFINE Distances == {bound - x : x \in S}
<1>1. Distances \in SUBSET Nat /\ Distances # {}
  <2>1. \A x \in S : bound - x \in Nat
    OBVIOUS
  <2> QED  BY <2>1
<1>2. PICK d \in Distances : \A e \in Distances : d <= e
  <2> HIDE DEF Distances
  <2> QED  BY <1>1, LeastNatural
<1>3. PICK x \in S : d = bound - x
  BY <1>2
<1>4. ASSUME NEW y \in S PROVE x >= y
  <2>1. d <= bound - y
    BY <1>2
  <2> QED  BY <2>1, <1>3
<1>5. \E z \in S : \A y \in S : z >= y
  BY <1>4
<1> QED  BY <1>5 DEF Max

\* Fees as normalize_mexc_fee_response lets them through.
TakersOK(fees) == \A fee \in fees : fee.taker \in Nat /\ fee.taker < Whole

(* The fee charged for a symbol: not below any named for it, or, if none    *)
(* was, not below any at all.                                               *)
LEMMA ChargesEnough ==
    ASSUME NEW fees, TakersOK(fees), fees # {}, NEW at, NEW s
    PROVE  \A taker \in (IF TakersOf(fees, s) = {} THEN {fee.taker : fee \in fees}
                         ELSE TakersOf(fees, s)) :
               FeeForSymbol(Loaded(FromFees(fees, at)), s) >= taker
<1> DEFINE all == {fee.taker : fee \in fees}
           file == FromFees(fees, at)
           takers == {file.takers[t] : t \in DOMAIN file.takers}
<1>1. Whole \in Nat
  BY FeesAssumption
<1>2. /\ all \in SUBSET Nat /\ all # {} /\ \A x \in all : x < Whole
      /\ \A t : TakersOf(fees, t) \subseteq all
  BY DEF TakersOK, TakersOf
<1>3. Max(all) \in all /\ \A y \in all : Max(all) >= y
  <2> HIDE DEF all
  <2> QED  BY <1>1, <1>2, GreatestFee
<1>4. ASSUME NEW t, TakersOf(fees, t) # {}
      PROVE  /\ Max(TakersOf(fees, t)) \in all
             /\ \A y \in TakersOf(fees, t) : Max(TakersOf(fees, t)) >= y
  <2>1. /\ TakersOf(fees, t) \in SUBSET Nat
        /\ \A x \in TakersOf(fees, t) : x < Whole
    BY <1>2
  <2>2. /\ Max(TakersOf(fees, t)) \in TakersOf(fees, t)
        /\ \A y \in TakersOf(fees, t) : Max(TakersOf(fees, t)) >= y
    BY <1>1, <1>4, <2>1, GreatestFee
  <2> QED  BY <1>2, <2>2
<1>5. \A t : t \in Named(fees) <=> TakersOf(fees, t) # {}
  BY DEF Named, TakersOf
<1>6. /\ DOMAIN file.takers = Named(fees) /\ file.fallback = Max(all)
      /\ \A t \in Named(fees) : file.takers[t] = Max(TakersOf(fees, t))
  BY DEF FromFees
<1>7. /\ Loaded(file).takers = file.takers
      /\ Loaded(file).fallback = Max({file.fallback} \cup takers)
  BY DEF Loaded, FromFees
<1>8. CASE TakersOf(fees, s) # {}
  <2>1. FeeForSymbol(Loaded(file), s) = Max(TakersOf(fees, s))
    BY <1>5, <1>6, <1>7, <1>8 DEF FeeForSymbol
  <2> QED  BY <2>1, <1>4, <1>8
<1>9. CASE TakersOf(fees, s) = {}
  <2>1. FeeForSymbol(Loaded(file), s) = Max({file.fallback} \cup takers)
    BY <1>5, <1>6, <1>7, <1>9 DEF FeeForSymbol
  <2>2. takers \subseteq all
    BY <1>4, <1>5, <1>6
  <2>3. /\ {file.fallback} \cup takers \in SUBSET Nat
        /\ \A x \in {file.fallback} \cup takers : x < Whole
    <3> HIDE DEF all, takers
    <3> QED  BY <1>2, <1>3, <1>6, <2>2
  <2>4. \A y \in {file.fallback} \cup takers : Max({file.fallback} \cup takers) >= y
    <3> HIDE DEF takers
    <3> QED  BY <1>1, <2>3, GreatestFee
  <2>5. Max({file.fallback} \cup takers) \in {file.fallback} \cup takers
    <3> HIDE DEF takers
    <3> QED  BY <1>1, <2>3, GreatestFee
  <2>6. ASSUME NEW taker \in all PROVE Max({file.fallback} \cup takers) >= taker
    <3>1. Max(all) >= taker /\ Max({file.fallback} \cup takers) >= Max(all)
      BY <1>3, <1>6, <2>4
    <3>2. Max({file.fallback} \cup takers) \in Nat /\ Max(all) \in Nat /\ taker \in Nat
      <4> HIDE DEF all, takers
      <4> QED  BY <1>2, <1>3, <2>3, <2>5, <2>6
    <3> HIDE DEF all, takers
    <3> QED  BY <3>1, <3>2
  <2> QED  BY <2>1, <2>6, <1>9
<1> QED  BY <1>8, <1>9

-----------------------------------------------------------------------------
(* Sequences of anything.                                                  *)

IsSequence(s) == s \in Seq(ToSet(s))

LEMMA SeqIsSequence ==
    ASSUME NEW T, NEW s \in Seq(T)
    PROVE  IsSequence(s)
<1>1. PICK n \in Nat : s \in [1..n -> T]
  BY SeqDef
<1>2. s \in [1..n -> ToSet(s)]
  BY <1>1 DEF ToSet
<1> QED  BY <1>2, SeqDef DEF IsSequence

LEMMA AppendIsSequence ==
    ASSUME NEW s, IsSequence(s), NEW e
    PROVE  /\ IsSequence(Append(s, e)) /\ Len(s) \in Nat /\ DOMAIN s = 1..Len(s)
           /\ Len(Append(s, e)) = Len(s) + 1 /\ DOMAIN Append(s, e) = 1..(Len(s) + 1)
           /\ \A i \in 1..Len(s) : Append(s, e)[i] = s[i]
           /\ Append(s, e)[Len(s) + 1] = e
<1> DEFINE T == ToSet(s) \cup {e}
<1>1. s \in Seq(ToSet(s)) /\ ToSet(s) \subseteq T
  BY DEF IsSequence
<1>2. s \in Seq(T)
  <2> HIDE DEF T
  <2> QED  BY <1>1
<1>3. e \in T
  OBVIOUS
<1>4. /\ Append(s, e) \in Seq(T) /\ Len(s) \in Nat /\ DOMAIN s = 1..Len(s)
      /\ Len(Append(s, e)) = Len(s) + 1 /\ DOMAIN Append(s, e) = 1..(Len(s) + 1)
      /\ \A i \in 1..Len(s) : Append(s, e)[i] = s[i]
      /\ Append(s, e)[Len(s) + 1] = e
  <2> HIDE DEF T
  <2> QED  BY <1>2, <1>3
<1>5. IsSequence(Append(s, e))
  <2> HIDE DEF T
  <2> QED  BY <1>4, SeqIsSequence
<1> QED  BY <1>4, <1>5

LEMMA FunctionIsSequence ==
    ASSUME NEW f, NEW n \in Nat, f = [k \in 1..n |-> f[k]]
    PROVE  IsSequence(f)
<1>1. f \in [1..n -> ToSet(f)]
  BY DEF ToSet
<1> QED  BY <1>1, SeqDef DEF IsSequence

(* The symbols of a discovery are a sequence, as finitely many are listed.  *)
LEMMA DiscoveredSymbols ==
    ASSUME NEW m \in Markets, NEW given
    PROVE  IsSequence(Discovery(m, given).symbols)
<1> DEFINE eligible == Eligible(Combined(m.listing, m.tickers), given)
           needed == {x \in eligible :
                         x.name \in Required(Bounded(Triangles(eligible, given), given))}
           symbols == Discovery(m, given).symbols
<1>1. IsFiniteSet(eligible)
  BY EligibleOK DEF MarketsOK
<1>2. Cardinality(needed) \in Nat
  <2>1. needed \in SUBSET eligible
    OBVIOUS
  <2> HIDE DEF needed, eligible
  <2> QED  BY <1>1, <2>1, FS_Subset, FS_CardinalityType
<1>3. DOMAIN symbols = 1..Cardinality(needed) /\ symbols = [k \in DOMAIN symbols |-> symbols[k]]
  <2> DEFINE ranked == Ranked(needed, LAMBDA x : SymbolKey(given, x))
  <2>1. symbols = [k \in DOMAIN ranked |-> ranked[k].name]
    BY Zenon DEF Discovery
  <2>2. DOMAIN ranked = 1..Cardinality(needed)
    BY Zenon DEF Ranked
  <2> HIDE DEF symbols, ranked
  <2> QED  BY <2>1, <2>2
<1> QED
  <2> HIDE DEF symbols, needed
  <2>1. symbols = [k \in 1..Cardinality(needed) |-> symbols[k]]
    BY <1>3
  <2>2. IsSequence(symbols)
    BY <1>2, <2>1, FunctionIsSequence
  <2> QED  BY <2>2 DEF symbols

-----------------------------------------------------------------------------
(* The invariant.                                                          *)

\* A raw file holds what was asked for, answered.
RawOK(raw) ==
    /\ raw.symbols \subseteq raw.answered
    /\ raw.fees # {} /\ TakersOK(raw.fees)

CheckType ==
    check \in [pc : {"none", "asking", "backoff", "answered", "saved"},
               symbols : {check.symbols}, next : Nat \ {0}, attempt : {check.attempt},
               fees : {check.fees}, answered : {check.answered}]

\* What was asked before the next symbol is answered, and at the end all is.
CheckOK ==
    /\ CheckType /\ IsSequence(check.symbols) /\ TakersOK(check.fees)
    /\ \A k \in DOMAIN check.symbols : k < check.next => check.symbols[k] \in check.answered
    /\ check.next > 1 => check.fees # {}
    /\ check.pc \in {"answered", "saved"} =>
        check.next > Len(check.symbols) /\ check.next > 1

RawsOK ==
    /\ IsSequence(raws)
    /\ \A i \in DOMAIN raws : RawOK(raws[i])

\* Between its two files a check's answers are the last raw file.
SavedOK ==
    check.pc = "saved" => Len(raws) \in DOMAIN raws /\ raws[Len(raws)].fees = check.fees

ConfigOK ==
    config # NoSchedule =>
        config.at \in DOMAIN raws /\ config = FromFees(raws[config.at].fees, config.at)

\* A run's fees stem from a raw file, or from the configuration.
RunOK ==
    /\ run.pc \in {"none", "resolved", "watching"}
    /\ run.pc # "none" /\ run.fees.at > 0 =>
        /\ run.fees.at \in DOMAIN raws
        /\ run.fees = Loaded(FromFees(raws[run.fees.at].fees, run.fees.at))

\* A run watches what the discovery selected on the market it saw.
SelectedOK ==
    /\ settings \in SettingsChoices
    /\ Watching => /\ run.saw \in Markets
                   /\ run.cycles = Discovery(run.saw, settings).cycles
                   /\ run.symbols = Discovery(run.saw, settings).symbols

Inv ==
    /\ CheckOK /\ RawsOK /\ SavedOK /\ ConfigOK /\ RunOK /\ SelectedOK
    /\ market \in Markets /\ IsSequence(selection)

LEMMA InitInv == Init => Inv
<1> SUFFICES ASSUME Init PROVE Inv
  OBVIOUS
<1> USE DEF Init, FeesInit, NoCheck, NoRun
<1>1. IsSequence(<<>>)
  BY DEF IsSequence
<1>2. CheckOK
  BY <1>1 DEF CheckOK, CheckType, TakersOK
<1>3. RawsOK
  BY <1>1 DEF RawsOK
<1>4. SavedOK /\ ConfigOK /\ RunOK /\ SelectedOK
  BY DEF SavedOK, ConfigOK, RunOK, SelectedOK, Watching
<1> QED  BY <1>1, <1>2, <1>3, <1>4 DEF Inv

-----------------------------------------------------------------------------
(* The steps of a check.                                                   *)

(* A new or an abandoned check is in order.                                 *)
LEMMA FreshCheck ==
    ASSUME NEW symbols, IsSequence(symbols), NEW pc \in {"none", "asking"},
           check' = [pc |-> pc, symbols |-> symbols, next |-> 1, attempt |-> 0,
                     fees |-> {}, answered |-> {}]
    PROVE  CheckOK' /\ check'.pc = pc
<1>1. /\ check'.pc = pc /\ check'.symbols = symbols /\ check'.next = 1 /\ check'.attempt = 0
  OBVIOUS
<1>2. check'.fees = {} /\ check'.answered = {}
  OBVIOUS
<1>3. CheckType'
  <2>1. check' \in [pc : {"none", "asking", "backoff", "answered", "saved"},
                    symbols : {symbols}, next : Nat \ {0}, attempt : {0},
                    fees : {{}}, answered : {{}}]
    OBVIOUS
  <2> QED  BY <2>1, <1>1, <1>2 DEF CheckType
<1>4. TakersOK(check'.fees)
  BY <1>2 DEF TakersOK
<1>5. \A k \in DOMAIN symbols : ~(k < 1)
  <2>1. symbols \in Seq(ToSet(symbols))
    BY DEF IsSequence
  <2> QED  BY <2>1
<1> QED  BY <1>1, <1>3, <1>4, <1>5 DEF CheckOK

LEMMA AbandonedCheck ==
    ASSUME check' = NoCheck
    PROVE  CheckOK' /\ check'.pc = "none"
<1>1. IsSequence(<<>>)
  BY DEF IsSequence
<1>2. check' = [pc |-> "none", symbols |-> <<>>, next |-> 1, attempt |-> 0,
                fees |-> {}, answered |-> {}]
  BY DEF NoCheck
<1>3. "none" \in {"none", "asking"}
  OBVIOUS
<1> QED  BY <1>1, <1>2, <1>3, FreshCheck, Zenon

(* A usable answer.                                                         *)
LEMMA AnsweredOK ==
    ASSUME CheckOK, NEW rows \in RowSets, Answered(rows)
    PROVE  CheckOK' /\ check'.pc \in {"asking", "answered"}
<1> USE DEF Answered, AnsweredBy, CheckOK, CheckType
<1> DEFINE new == Normalized(rows, Requested)
<1>1. TakersOK(new) /\ new # {}
  <2>1. \A row \in rows : row.taker \in Nat
    BY FeesAssumption DEF Rows
  <2> QED  BY <2>1 DEF Acceptable, Normalized, TakersOK
<1>2. /\ check'.fees = check.fees \cup new /\ check'.symbols = check.symbols
      /\ check'.answered = check.answered \cup {Requested} /\ check'.next = check.next + 1
      /\ check'.pc = IF check.next < Len(check.symbols) THEN "asking" ELSE "answered"
  <2> HIDE DEF new
  <2> QED  BY DEF new
<1>3. CheckType'
  <2>1. check' = [pc |-> check'.pc, symbols |-> check.symbols, next |-> check.next + 1,
                  attempt |-> 0, fees |-> check'.fees, answered |-> check'.answered]
    <3> HIDE DEF new
    <3> QED  BY <1>2
  <2>2. check'.pc \in {"asking", "answered"} /\ check.next + 1 \in Nat \ {0}
    BY <1>2
  <2> QED  BY <2>1, <2>2
<1>4. TakersOK(check'.fees) /\ check'.fees # {}
  <2> HIDE DEF new
  <2> QED  BY <1>1, <1>2 DEF TakersOK
<1>5. Len(check.symbols) \in Nat /\ DOMAIN check.symbols = 1..Len(check.symbols)
  <2>1. check.symbols \in Seq(ToSet(check.symbols))
    BY DEF IsSequence
  <2> QED  BY <2>1
<1>6. \A k \in DOMAIN check.symbols :
          k < check.next + 1 => check.symbols[k] \in check.answered \cup {Requested}
  <2> SUFFICES ASSUME NEW k \in DOMAIN check.symbols, k < check.next + 1
               PROVE  check.symbols[k] \in check.answered \cup {Requested}
    OBVIOUS
  <2>1. CASE k < check.next
    BY <2>1
  <2>2. CASE ~(k < check.next)
    <3>1. k = check.next /\ check.symbols # <<>>
      BY <1>5, <2>2
    <3> QED  BY <3>1 DEF Requested
  <2> QED  BY <2>1, <2>2
<1>7. check'.pc = "answered" => check.next + 1 > Len(check.symbols)
  BY <1>2, <1>5
<1> QED
  <2> HIDE DEF new
  <2>1. /\ CheckType' /\ IsSequence(check'.symbols) /\ TakersOK(check'.fees)
        /\ check'.pc \in {"asking", "answered"}
    BY <1>2, <1>3, <1>4
  <2>2. \A k \in DOMAIN check'.symbols : k < check'.next => check'.symbols[k] \in check'.answered
    BY <1>2, <1>6
  <2>3. check.next \in Nat \ {0}
    OBVIOUS
  <2>4. check'.pc \in {"answered", "saved"} =>
            check'.next > Len(check'.symbols) /\ check'.next > 1
    BY <1>2, <1>7, <2>3
  <2> HIDE DEF Answered, AnsweredBy, CheckType
  <2> QED  BY <2>1, <2>2, <2>4, <1>4

(* A step of the check that writes no file leaves runs and files as they    *)
(* were; what it must show is CheckOK, and that it is not at the files.     *)
LEMMA NoFileWritten ==
    ASSUME Inv, CheckOK', check'.pc # "saved", UNCHANGED <<raws, config>>, UNCHANGED StartupVars
    PROVE  Inv'
BY DEF Inv, StartupVars, RawsOK, SavedOK, ConfigOK, RunOK, SelectedOK, Watching

LEMMA WaitsOK ==
    ASSUME CheckOK, check.pc # "saved",
           check' = [check EXCEPT !.pc = "backoff", !.attempt = @ + 1]
              \/ check' = [check EXCEPT !.pc = "asking"]
    PROVE  CheckOK' /\ check'.pc \in {"asking", "backoff"}
<1> USE DEF CheckOK, CheckType
<1>1. /\ check'.symbols = check.symbols /\ check'.next = check.next
      /\ check'.fees = check.fees /\ check'.answered = check.answered
      /\ check'.pc \in {"asking", "backoff"}
  OBVIOUS
<1>2. CheckType'
  <2>1. check' = [pc |-> check'.pc, symbols |-> check.symbols, next |-> check.next,
                  attempt |-> check'.attempt, fees |-> check.fees,
                  answered |-> check.answered]
    OBVIOUS
  <2> QED  BY <1>1, <2>1
<1> QED
  <2> HIDE DEF CheckType
  <2> QED  BY <1>1, <1>2

(* The raw file: what a whole check has got.                                *)
LEMMA SaveRawOK ==
    ASSUME Inv, SaveRawFeeResponse, UNCHANGED StartupVars
    PROVE  Inv'
<1> USE DEF SaveRawFeeResponse
<1> DEFINE raw == [symbols |-> ToSet(check.symbols), answered |-> check.answered,
                   fees |-> check.fees]
<1>1. IsSequence(raws) /\ \A i \in DOMAIN raws : RawOK(raws[i])
  BY DEF Inv, RawsOK
<1>2. /\ check.pc = "answered" /\ check' = [check EXCEPT !.pc = "saved"]
      /\ raws' = Append(raws, raw)
  OBVIOUS
<1>3. /\ IsSequence(raws') /\ Len(raws) \in Nat /\ DOMAIN raws = 1..Len(raws)
      /\ Len(raws') = Len(raws) + 1 /\ DOMAIN raws' = 1..(Len(raws) + 1)
      /\ \A i \in DOMAIN raws : raws'[i] = raws[i]
      /\ raws'[Len(raws) + 1] = raw
  <2> HIDE DEF raw
  <2> QED  BY <1>1, <1>2, AppendIsSequence
<1>4. RawOK(raw)
  <2>1. \A k \in DOMAIN check.symbols : check.symbols[k] \in check.answered
    <3>1. check.symbols \in Seq(ToSet(check.symbols))
      BY DEF Inv, CheckOK, IsSequence
    <3>2. DOMAIN check.symbols = 1..Len(check.symbols) /\ Len(check.symbols) \in Nat
      BY <3>1
    <3>3. check.next \in Nat /\ check.next > Len(check.symbols)
      BY <1>2 DEF Inv, CheckOK, CheckType
    <3> QED  BY <3>2, <3>3 DEF Inv, CheckOK
  <2>2. check.fees # {} /\ TakersOK(check.fees)
    BY <1>2 DEF Inv, CheckOK
  <2> QED  BY <2>1, <2>2 DEF RawOK, ToSet
<1>5. RawsOK'
  <2> HIDE DEF raw
  <2>1. ASSUME NEW i \in DOMAIN raws' PROVE RawOK(raws'[i])
    <3>1. CASE i \in DOMAIN raws
      BY <3>1, <1>1, <1>3
    <3>2. CASE i = Len(raws) + 1
      BY <3>2, <1>3, <1>4
    <3> QED  BY <3>1, <3>2, <1>3
  <2> QED  BY <2>1, <1>3 DEF RawsOK
<1>6. CheckOK' /\ check'.fees = check.fees
  <2>1. CheckType
    BY DEF Inv, CheckOK
  <2>2. /\ check'.symbols = check.symbols /\ check'.next = check.next
        /\ check'.attempt = check.attempt
        /\ check'.fees = check.fees /\ check'.answered = check.answered /\ check'.pc = "saved"
    BY <1>2, <2>1 DEF CheckType
  <2>3. CheckType'
    <3>1. check' = [pc |-> "saved", symbols |-> check.symbols, next |-> check.next,
                    attempt |-> check.attempt, fees |-> check.fees,
                    answered |-> check.answered]
      BY <1>2, <2>1 DEF CheckType
    <3>2. check.next \in Nat \ {0}
      BY <2>1 DEF CheckType
    <3> QED  BY <2>2, <3>1, <3>2 DEF CheckType
  <2> QED  BY <1>2, <2>2, <2>3 DEF Inv, CheckOK
<1>7. SavedOK'
  BY <1>3, <1>6 DEF SavedOK
<1>8. ConfigOK'
  BY <1>3 DEF Inv, ConfigOK
<1>9. RunOK' /\ SelectedOK' /\ market' \in Markets /\ IsSequence(selection')
  BY <1>3 DEF Inv, RunOK, SelectedOK, Watching, StartupVars
<1> QED  BY <1>5, <1>6, <1>7, <1>8, <1>9 DEF Inv

(* The schedule: derived from the last raw file.                            *)
LEMMA SaveScheduleOK ==
    ASSUME Inv, SaveFeeSchedule, UNCHANGED StartupVars
    PROVE  Inv'
<1> USE DEF SaveFeeSchedule
<1>1. CheckOK' /\ check'.pc = "none"
  BY AbandonedCheck
<1>2. ConfigOK'
  <2>1. /\ config' = FromFees(check.fees, Len(raws)) /\ raws' = raws
        /\ Len(raws) \in DOMAIN raws /\ raws[Len(raws)].fees = check.fees
    BY DEF Inv, SavedOK
  <2>2. config'.at = Len(raws)
    BY <2>1 DEF FromFees
  <2> QED  BY <2>1, <2>2 DEF ConfigOK
<1> QED  BY <1>1, <1>2 DEF Inv, StartupVars, RawsOK, SavedOK, RunOK, SelectedOK, Watching

LEMMA CheckStepOK ==
    ASSUME Inv, CheckStep \/ Interrupted, UNCHANGED StartupVars
    PROVE  Inv'
<1>1. ASSUME NEW rows \in RowSets, Answered(rows) PROVE Inv'
  BY <1>1, AnsweredOK, NoFileWritten DEF Inv, Answered
<1>2. ASSUME NEW rows \in RowSets, Malformed(rows) PROVE Inv'
  BY <1>2, AbandonedCheck, NoFileWritten DEF Malformed, GivenUp
<1>3. ASSUME NEW long \in BOOLEAN, Refused(long) PROVE Inv'
  <2>1. CASE check' = RetryLater
    BY <1>3, <2>1, WaitsOK, NoFileWritten DEF Inv, Refused, RetryLater
  <2>2. CASE check' = NoCheck
    BY <1>3, <2>2, AbandonedCheck, NoFileWritten DEF Refused
  <2> QED  BY <1>3, <2>1, <2>2 DEF Refused, GivenUp
<1>4. ASSUME BackoffOver PROVE Inv'
  BY <1>4, WaitsOK, NoFileWritten DEF Inv, BackoffOver
<1>5. ASSUME RequestFails \/ Interrupted PROVE Inv'
  BY <1>5, AbandonedCheck, NoFileWritten DEF RequestFails, Interrupted, GivenUp
<1> QED  BY <1>1, <1>2, <1>3, <1>4, <1>5, SaveRawOK, SaveScheduleOK DEF CheckStep

LEMMA StartCheckOK ==
    ASSUME Inv, StartCheck, UNCHANGED StartupVars
    PROVE  Inv'
<1>1. PICK symbols : IsSequence(symbols) /\ BeginCheck(symbols)
  <2>1. IsSequence(<<>>) /\ IsSequence(selection)
    BY DEF IsSequence, Inv
  <2> QED  BY <2>1 DEF StartCheck
<1>2. check' = [pc |-> "asking", symbols |-> symbols, next |-> 1, attempt |-> 0,
                fees |-> {}, answered |-> {}]
  BY <1>1 DEF BeginCheck, NoCheck
<1>3. "asking" \in {"none", "asking"}
  OBVIOUS
<1>4. CheckOK' /\ check'.pc = "asking"
  BY <1>1, <1>2, <1>3, FreshCheck
<1> QED  BY <1>1, <1>4, NoFileWritten DEF BeginCheck

-----------------------------------------------------------------------------
(* The steps of a run.                                                     *)

\* A step that leaves check and files alone: the run and its inputs are left.
LEMMA RunStep ==
    ASSUME Inv, UNCHANGED feeVars, RunOK', SelectedOK', market' \in Markets,
           IsSequence(selection')
    PROVE  Inv'
BY DEF Inv, feeVars, CheckOK, CheckType, RawsOK, SavedOK, ConfigOK

LEMMA ResolveOK ==
    ASSUME Inv, NEW account \in BOOLEAN, ResolveFeeSchedule(account)
    PROVE  Inv'
<1> USE DEF ResolveFeeSchedule
<1>1. RunOK'
  <2>1. CASE account
    <3>1. config # NoSchedule /\ run' = [pc |-> "resolved", fees |-> Loaded(config)]
      BY <2>1
    <3>2. config.at \in DOMAIN raws /\ config = FromFees(raws[config.at].fees, config.at)
      BY <3>1 DEF Inv, ConfigOK
    <3>3. run'.fees.at = config.at
      BY <3>1, <3>2 DEF Loaded, FromFees
    <3> QED  BY <3>1, <3>2, <3>3 DEF RunOK, feeVars
  <2>2. CASE ~account
    <3>1. run' = [pc |-> "resolved", fees |-> ConfigFee(FeeRate)]
      BY <2>2
    <3>2. run'.fees.at = 0
      BY <3>1 DEF ConfigFee
    <3> QED  BY <3>1, <3>2 DEF RunOK
  <2> QED  BY <2>1, <2>2
<1>2. SelectedOK'
  BY DEF Inv, SelectedOK, Watching
<1> QED  BY <1>1, <1>2, RunStep DEF Inv

LEMMA DiscoverOK ==
    ASSUME Inv, Discover
    PROVE  Inv'
<1>1. RunOK'
  BY DEF Discover, Inv, RunOK, feeVars
<1>2. IsSequence(selection') /\ market' \in Markets
  BY DiscoveredSymbols DEF Discover, Inv
<1>3. SelectedOK'
  BY DEF Discover, Inv, SelectedOK, Watching
<1> QED  BY <1>1, <1>2, <1>3, RunStep DEF Discover

LEMMA NextInv == Inv /\ [Next]_vars => Inv'
<1> SUFFICES ASSUME Inv, [Next]_vars PROVE Inv'
  OBVIOUS
<1>1. CASE MarketMoves
  <2>1. RunOK' /\ SelectedOK'
    BY <1>1 DEF MarketMoves, Inv, RunOK, SelectedOK, Watching, feeVars
  <2> QED  BY <1>1, <2>1, RunStep DEF MarketMoves, Inv
<1>2. CASE \E account \in BOOLEAN : ResolveFeeSchedule(account)
  BY <1>2, ResolveOK
<1>3. CASE Discover
  BY <1>3, DiscoverOK
<1>4. CASE RunEnds
  <2>1. RunOK' /\ SelectedOK'
    BY <1>4 DEF RunEnds, NoRun, Inv, RunOK, SelectedOK, Watching
  <2> QED  BY <1>4, <2>1, RunStep DEF RunEnds, Inv
<1>5. CASE StartCheck /\ UNCHANGED StartupVars
  BY <1>5, StartCheckOK
<1>6. CASE (CheckStep \/ Interrupted) /\ UNCHANGED StartupVars
  BY <1>6, CheckStepOK
<1>7. CASE UNCHANGED vars
  <2>1. RunOK' /\ SelectedOK'
    BY <1>7 DEF vars, feeVars, Inv, RunOK, SelectedOK, Watching
  <2> QED  BY <1>7, <2>1, RunStep DEF vars, Inv
<1> QED  BY <1>1, <1>2, <1>3, <1>4, <1>5, <1>6, <1>7 DEF Next

LEMMA SpecInv == Spec => []Inv
BY InitInv, NextInv, PTL DEF Spec

(* The schedule a run could load always comes from a saved raw file in      *)
(* which every symbol asked for was answered: a check that fails, is        *)
(* refused or interrupted half-way leaves the old one (account_fees.py:806).*)
THEOREM StartupOnlyWholeChecksCount == Spec => []OnlyWholeChecksCount
<1>1. Inv => OnlyWholeChecksCount
  BY DEF Inv, ConfigOK, RawsOK, RawOK, OnlyWholeChecksCount
<1> QED  BY <1>1, SpecInv, PTL

(* Whatever symbols a later run watches, none is charged less than a fee    *)
(* the exchange named for it, or, when it named none, than any fee it named *)
(* (account_fees.py:218-331, 366).                                          *)
THEOREM StartupFeesConservative == Spec => []FeesConservative
<1>1. Inv => FeesConservative
  <2> SUFFICES ASSUME Inv, Watching, run.fees.at > 0, NEW s \in Required(Chosen)
               PROVE  \A taker \in (IF TakersOf(raws[run.fees.at].fees, s) = {}
                                    THEN {fee.taker : fee \in raws[run.fees.at].fees}
                                    ELSE TakersOf(raws[run.fees.at].fees, s)) :
                          FeeForSymbol(run.fees, s) >= taker
    BY DEF FeesConservative
  <2>1. /\ run.fees.at \in DOMAIN raws
        /\ run.fees = Loaded(FromFees(raws[run.fees.at].fees, run.fees.at))
    BY DEF Inv, RunOK, Watching
  <2>2. raws[run.fees.at].fees # {} /\ TakersOK(raws[run.fees.at].fees)
    BY <2>1 DEF Inv, RawsOK, RawOK
  <2> QED  BY <2>1, <2>2, ChargesEnough
<1> QED  BY <1>1, SpecInv, PTL

(* What is watched is what was selected.                                    *)
LEMMA WatchedOK ==
    ASSUME Inv, Watching
    PROVE  WholeChoice(run.cycles, run.symbols, Candidates, settings)
<1>1. /\ run.saw \in Markets /\ settings \in SettingsChoices
      /\ run.cycles = Discovery(run.saw, settings).cycles
      /\ run.symbols = Discovery(run.saw, settings).symbols
  BY DEF Inv, SelectedOK
<1>2. Candidates = TrianglesOf(run.saw, settings)
  BY DEF Candidates, TrianglesOf
<1>3. WholeChoice(Discovery(run.saw, settings).cycles, Discovery(run.saw, settings).symbols,
                  TrianglesOf(run.saw, settings), settings)
  BY <1>1, DiscoveryOK
<1> QED  BY <1>1, <1>2, <1>3

(* Watched are whole direction pairs within both caps, and the books opened *)
(* are exactly those their cycles trade, one each (discovery.py:647-678).   *)
THEOREM StartupSelectionWhole == Spec => []SelectionWhole
<1>1. Inv => SelectionWhole
  BY WatchedOK DEF SelectionWhole, WholeChoice, Chosen
<1> QED  BY <1>1, SpecInv, PTL

(* Each triangle not watched would break a cap even beside only the watched *)
(* pairs one direction of which is ranked above it (discovery.py:660-677).  *)
THEOREM StartupNoPairLeftOut == Spec => []NoPairLeftOut
<1>1. Inv => NoPairLeftOut
  <2> SUFFICES ASSUME Inv, Watching, NEW c \in Candidates, c \notin Chosen
               PROVE  ~Fits(Better(Chosen, c), GroupOf(Candidates, c), settings)
    BY DEF NoPairLeftOut, Better
  <2> QED  BY WatchedOK DEF WholeChoice, Chosen
<1> QED  BY <1>1, SpecInv, PTL
=============================================================================

