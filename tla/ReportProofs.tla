---------------------------- MODULE ReportProofs ----------------------------
(***************************************************************************)
(* The live report is exact and its verdicts are earned, for every set of  *)
(* signals, checks and health lines, every sample and heap size and every  *)
(* threshold.                                                              *)
(*                                                                         *)
(* The invariant says of each total of the accumulator that it is that of  *)
(* the files, as a count or statistics over places or lines; a line more   *)
(* then changes both sides alike.  For sums this needs that SumOver does   *)
(* not depend on the order in which CHOOSE takes the elements (SumsAdd, by *)
(* least counterexample), for the best edges that the heap is the set of   *)
(* places that fewer than TopLimit others are better than (PushedOK), and  *)
(* for the coverage that every latency line is of a signal of its own.     *)
(* The sample and the median taken from it are in no total.                *)
(***************************************************************************)
EXTENDS Report, FiniteSetTheorems, SequenceTheorems, WellFoundedInduction, TLAPS

-----------------------------------------------------------------------------
\* Least and greatest numbers

Smaller == {pair \in Nat \X Nat : pair[1] < pair[2]}

(* A nonempty set of naturals has a least element.                          *)
LEMMA LeastNatural ==
    ASSUME NEW S \in SUBSET Nat, S # {}
    PROVE  \E n \in S : \A m \in S : n <= m
<1>1. OpToRel(<, Nat) = Smaller
  BY DEF OpToRel, Smaller
<1>2. IsWellFoundedOn(Smaller, Nat)
  BY <1>1, NatLessThanWellFounded, Zenon
<1>3. PICK x \in S : \A y \in S : ~(<<y, x>> \in Smaller)
  BY <1>2, WFMin, Zenon
<1>4. ASSUME NEW y \in S PROVE x <= y
  <2>1. <<y, x>> \notin Smaller /\ <<y, x>> \in Nat \X Nat
    BY <1>3
  <2> QED  BY <2>1 DEF Smaller
<1> QED  BY <1>4

(* Of the finite sets with a property, given as a set of sets, one is least.*)
LEMMA LeastSet ==
    ASSUME NEW Sets, \A S \in Sets : IsFiniteSet(S), Sets # {}
    PROVE  \E S \in Sets : \A T \in Sets : Cardinality(S) <= Cardinality(T)
<1> DEFINE sizes == {Cardinality(S) : S \in Sets}
<1>1. sizes \in SUBSET Nat /\ sizes # {}
  BY FS_CardinalityType
<1>2. PICK n \in sizes : \A m \in sizes : n <= m
  BY <1>1, LeastNatural
<1> QED  BY <1>2

(* A finite nonempty set of integers has a greatest and a least element.    *)
LEMMA Extremes ==
    ASSUME NEW S \in SUBSET Int, IsFiniteSet(S), S # {}
    PROVE  /\ \E x \in S : \A y \in S : x >= y
           /\ \E x \in S : \A y \in S : x <= y
<1> DEFINE Fine(T) == /\ \E x \in T : \A y \in T : x >= y
                      /\ \E x \in T : \A y \in T : x <= y
           Bad == {T \in SUBSET S : T # {} /\ ~Fine(T)}
<1>1. SUFFICES ASSUME Bad # {} PROVE FALSE
  BY Zenon
<1>2. \A T \in Bad : IsFiniteSet(T)
  BY FS_Subset
<1>3. PICK T \in Bad : \A U \in Bad : Cardinality(T) <= Cardinality(U)
  <2> HIDE DEF Bad
  <2> QED  BY <1>1, <1>2, LeastSet
<1>4. PICK x \in T : TRUE
  OBVIOUS
<1>5. /\ IsFiniteSet(T \ {x})
      /\ Cardinality(T \ {x}) = Cardinality(T) - 1
      /\ Cardinality(T) \in Nat
  BY <1>2, <1>4, FS_RemoveElement, FS_CardinalityType
<1>6. T \ {x} = {} \/ Fine(T \ {x})
  <2>1. T \ {x} \notin Bad
    <3> HIDE DEF Bad
    <3> QED  BY <1>3, <1>5
  <2> QED  BY <2>1
<1>7. CASE T \ {x} = {}
  <2>1. T = {x} /\ x \in Int
    BY <1>4, <1>7
  <2> QED  BY <2>1, <1>3
<1>8. CASE Fine(T \ {x})
  <2>1. PICK big \in T \ {x} : \A y \in T \ {x} : big >= y
    BY <1>8
  <2>2. PICK small \in T \ {x} : \A y \in T \ {x} : small <= y
    BY <1>8
  <2>3. T \subseteq Int
    BY <1>3
  <2>4. \E z \in T : \A y \in T : z >= y
    <3>1. CASE x >= big
      BY <3>1, <2>1, <2>3, <1>4
    <3>2. CASE ~(x >= big)
      BY <3>2, <2>1, <2>3, <1>4
    <3> QED  BY <3>1, <3>2
  <2>5. \E z \in T : \A y \in T : z <= y
    <3>1. CASE x <= small
      BY <3>1, <2>2, <2>3, <1>4
    <3>2. CASE ~(x <= small)
      BY <3>2, <2>2, <2>3, <1>4
    <3> QED  BY <3>1, <3>2
  <2> QED  BY <2>4, <2>5, <1>3
<1> QED  BY <1>6, <1>7, <1>8

(* So that Max and Min are what they are called, and how they grow.         *)
LEMMA MaxMin ==
    ASSUME NEW S \in SUBSET Int, IsFiniteSet(S), S # {}
    PROVE  /\ Max(S) \in S /\ \A y \in S : Max(S) >= y
           /\ Min(S) \in S /\ \A y \in S : Min(S) <= y
BY Extremes DEF Max, Min

(* The extrema of one number and of two.                                    *)
LEMMA MaxMinFew ==
    ASSUME NEW m \in Int, NEW n \in Int
    PROVE  /\ Max({m}) = m /\ Min({m}) = m
           /\ n <= m => Min({m, n}) = n
<1>1. IsFiniteSet({m}) /\ IsFiniteSet({m} \cup {n}) /\ {m} \cup {n} = {m, n}
  <2>1. IsFiniteSet({m})
    BY FS_Singleton
  <2> QED  BY <2>1, FS_AddElement
<1>2. Max({m}) = m /\ Min({m}) = m
  BY <1>1, MaxMin
<1>3. ASSUME n <= m PROVE Min({m, n}) = n
  <2>1. PICK least : least = Min({m, n})
    OBVIOUS
  <2>2. least \in {m, n} /\ \A y \in {m, n} : least <= y
    BY <1>1, <2>1, MaxMin
  <2> QED  BY <1>3, <2>1, <2>2
<1> QED  BY <1>2, <1>3

(* The extrema of a set with one more are those of two.                     *)
LEMMA MaxMinGrow ==
    ASSUME NEW S \in SUBSET Int, IsFiniteSet(S), S # {}, NEW v \in Int
    PROVE  /\ Max(S \cup {v}) = Max({Max(S), v})
           /\ Min(S \cup {v}) = Min({Min(S), v})
<1> DEFINE U == S \cup {v}
<1>1. IsFiniteSet(U) /\ U \in SUBSET Int /\ U # {}
  BY FS_AddElement
<1> HIDE DEF U
<1>2. PICK a \in Int : a = Max(S) /\ a \in S /\ \A y \in S : a >= y
  BY MaxMin
<1>3. PICK b \in Int : b = Min(S) /\ b \in S /\ \A y \in S : b <= y
  BY MaxMin
<1>4. PICK c \in Int : c = Max(U) /\ c \in U /\ \A y \in U : c >= y
  BY <1>1, MaxMin
<1>5. PICK d \in Int : d = Min(U) /\ d \in U /\ \A y \in U : d <= y
  BY <1>1, MaxMin
<1>6. ASSUME NEW x \in Int PROVE IsFiniteSet({x, v}) /\ {x, v} \in SUBSET Int /\ {x, v} # {}
  <2>1. IsFiniteSet({x})
    BY FS_Singleton
  <2>2. IsFiniteSet({x} \cup {v})
    BY <2>1, FS_AddElement
  <2>3. {x} \cup {v} = {x, v}
    OBVIOUS
  <2> QED  BY <2>2, <2>3
<1>7. PICK m \in Int : m = Max({a, v}) /\ m \in {a, v} /\ \A y \in {a, v} : m >= y
  BY <1>6, MaxMin
<1>8. PICK n \in Int : n = Min({b, v}) /\ n \in {b, v} /\ \A y \in {b, v} : n <= y
  BY <1>6, MaxMin
<1>9. c = m
  <2>1. c >= a /\ c >= v /\ m >= a /\ m >= v
    BY <1>2, <1>4, <1>7 DEF U
  <2>2. c = v \/ a >= c
    BY <1>2, <1>4 DEF U
  <2>3. m = v \/ m = a
    BY <1>7
  <2> QED  BY <2>1, <2>2, <2>3
<1>10. d = n
  <2>1. d <= b /\ d <= v /\ n <= b /\ n <= v
    BY <1>3, <1>5, <1>8 DEF U
  <2>2. d = v \/ b <= d
    BY <1>3, <1>5 DEF U
  <2>3. n = v \/ n = b
    BY <1>8
  <2> QED  BY <2>1, <2>2, <2>3
<1> QED  BY <1>2, <1>3, <1>4, <1>5, <1>7, <1>8, <1>9, <1>10 DEF U

-----------------------------------------------------------------------------
\* Sums

AnyOf(S) == CHOOSE x \in S : TRUE

\* table gives the sum of f over every set of Sets, as MapThenSumSet computes it.
SumsTo(table, f, Sets) ==
    table = [S \in Sets |-> IF S = {} THEN 0 ELSE f[AnyOf(S)] + table[S \ {AnyOf(S)}]]

UpTo(D, n) == {S \in SUBSET D : Cardinality(S) <= n}

(* The recursion of MapThenSumSet has a solution on a finite set.           *)
LEMMA SumsExist ==
    ASSUME NEW D, IsFiniteSet(D), NEW f
    PROVE  \E table : SumsTo(table, f, SUBSET D)
<1>1. Cardinality(D) \in Nat /\ \A S \in SUBSET D : IsFiniteSet(S)
      /\ Cardinality(S) \in 0..Cardinality(D)
  BY FS_CardinalityType, FS_Subset
<1> DEFINE Bad == {n \in Nat : ~ \E table : SumsTo(table, f, UpTo(D, n))}
<1>2. Bad = {}
  <2>1. SUFFICES ASSUME Bad # {} PROVE FALSE
    OBVIOUS
  <2>2. PICK n \in Bad : \A m \in Bad : n <= m
    <3>1. Bad \in SUBSET Nat
      OBVIOUS
    <3> QED  BY <3>1, <2>1, LeastNatural
  <2>3. n # 0
    <3>1. UpTo(D, 0) = {{}}
      BY <1>1, FS_EmptySet DEF UpTo
    <3> DEFINE table == [S \in {{}} |-> 0]
    <3>2. SumsTo(table, f, UpTo(D, 0))
      BY <3>1 DEF SumsTo
    <3> QED  BY <3>2, <2>2
  <2>4. n \in Nat \ {0} /\ n - 1 \in Nat /\ n - 1 \notin Bad
    <3>1. n \in Nat \ {0}
      BY <2>2, <2>3
    <3>2. n - 1 \in Nat /\ ~(n <= n - 1)
      BY <3>1
    <3> HIDE DEF Bad
    <3> QED  BY <3>1, <3>2, <2>2
  <2>5. PICK table : SumsTo(table, f, UpTo(D, n - 1))
    BY <2>4
  <2> DEFINE longer == [S \in UpTo(D, n) |->
                           IF S = {} THEN 0 ELSE f[AnyOf(S)] + table[S \ {AnyOf(S)}]]
  <2>6. ASSUME NEW S \in UpTo(D, n), S # {}
        PROVE  longer[S \ {AnyOf(S)}] = table[S \ {AnyOf(S)}]
    <3> DEFINE T == S \ {AnyOf(S)}
    <3>1. AnyOf(S) \in S /\ S \subseteq D /\ Cardinality(S) <= n
      BY <2>6 DEF AnyOf, UpTo
    <3>2. Cardinality(T) = Cardinality(S) - 1
      BY <3>1, <1>1, FS_RemoveElement
    <3>3. T \in SUBSET D /\ Cardinality(S) \in Nat
      BY <3>1, <1>1
    <3>4. T \in UpTo(D, n - 1) /\ T \in UpTo(D, n)
      BY <3>1, <3>2, <3>3, <2>4 DEF UpTo
    <3> HIDE DEF T
    <3>5. longer[T] = IF T = {} THEN 0 ELSE f[AnyOf(T)] + table[T \ {AnyOf(T)}]
      BY <3>4
    <3>6. table[T] = IF T = {} THEN 0 ELSE f[AnyOf(T)] + table[T \ {AnyOf(T)}]
      BY <3>4, <2>5 DEF SumsTo
    <3> QED  BY <3>5, <3>6 DEF T
  <2>7. ASSUME NEW S \in UpTo(D, n)
        PROVE  longer[S] = IF S = {} THEN 0 ELSE f[AnyOf(S)] + longer[S \ {AnyOf(S)}]
    <3>1. longer[S] = IF S = {} THEN 0 ELSE f[AnyOf(S)] + table[S \ {AnyOf(S)}]
      OBVIOUS
    <3> HIDE DEF longer
    <3> QED  BY <3>1, <2>6
  <2>8. SumsTo(longer, f, UpTo(D, n))
    BY <2>7 DEF SumsTo
  <2> QED  BY <2>8, <2>2
<1>3. UpTo(D, Cardinality(D)) = SUBSET D
  BY <1>1 DEF UpTo
<1>4. Cardinality(D) \notin Bad
  BY <1>2
<1> QED  BY <1>1, <1>3, <1>4

(* SumOver is the last entry of such a table.                               *)
LEMMA SumIsEntry ==
    ASSUME NEW f, IsFiniteSet(DOMAIN f)
    PROVE  \E table : /\ SumsTo(table, f, SUBSET DOMAIN f)
                      /\ SumOver(f) = table[DOMAIN f]
<1>1. \E table : SumsTo(table, f, SUBSET DOMAIN f)
  BY SumsExist
<1> QED  BY <1>1, Zenon DEF SumOver, MapThenSumSet, MapThenFoldSet, SumsTo, AnyOf

TablesAgree(t, u, D) == \A S \in SUBSET D : t[S] = u[S]
AddsIn(t, f, D) ==
    \A S \in SUBSET D : t[S] \in Int /\ \A x \in D \ S : t[S \cup {x}] = t[S] + f[x]

(* Two tables agree on the sets on which their functions do.                *)
LEMMA SumsAgree ==
    ASSUME NEW D, NEW E, IsFiniteSet(E), D \subseteq E, NEW f, NEW h, \A x \in D : f[x] = h[x],
           NEW t, SumsTo(t, f, SUBSET D), NEW u, SumsTo(u, h, SUBSET E)
    PROVE  TablesAgree(t, u, D)
<1> DEFINE Bad == {S \in SUBSET D : t[S] # u[S]}
<1>1. SUFFICES ASSUME Bad # {} PROVE FALSE
  BY DEF TablesAgree
<1>2. \A S \in SUBSET D : IsFiniteSet(S)
  BY FS_Subset
<1>3. PICK S \in Bad : \A T \in Bad : Cardinality(S) <= Cardinality(T)
  <2>1. \A S \in Bad : IsFiniteSet(S)
    BY <1>2
  <2> HIDE DEF Bad
  <2> QED  BY <1>1, <2>1, LeastSet
<1>4. t[S] = (IF S = {} THEN 0 ELSE f[AnyOf(S)] + t[S \ {AnyOf(S)}])
  BY <1>3 DEF SumsTo
<1>5. u[S] = (IF S = {} THEN 0 ELSE h[AnyOf(S)] + u[S \ {AnyOf(S)}])
  BY <1>3 DEF SumsTo
<1>6. S # {}
  BY <1>3, <1>4, <1>5
<1>7. AnyOf(S) \in S /\ S \in SUBSET D
  BY <1>3, <1>6 DEF AnyOf
<1>8. Cardinality(S \ {AnyOf(S)}) = Cardinality(S) - 1 /\ Cardinality(S) \in Nat
  BY <1>2, <1>7, FS_RemoveElement, FS_CardinalityType
<1>9. S \ {AnyOf(S)} \notin Bad
  <2> HIDE DEF Bad
  <2> QED  BY <1>3, <1>8
<1>10. t[S \ {AnyOf(S)}] = u[S \ {AnyOf(S)}]
  BY <1>7, <1>9
<1> QED  BY <1>3, <1>4, <1>5, <1>7, <1>10

(* The order in which elements are taken does not matter.                   *)
LEMMA SumsAdd ==
    ASSUME NEW D, IsFiniteSet(D), NEW f, \A x \in D : f[x] \in Int,
           NEW t, SumsTo(t, f, SUBSET D)
    PROVE  AddsIn(t, f, D)
<1> DEFINE Good(S) == t[S] \in Int /\ \A x \in D \ S : t[S \cup {x}] = t[S] + f[x]
           Bad == {S \in SUBSET D : ~Good(S)}
<1>1. SUFFICES ASSUME Bad # {} PROVE FALSE
  BY DEF AddsIn
<1>2. \A S \in SUBSET D : IsFiniteSet(S)
  BY FS_Subset
<1>3. PICK S \in Bad : \A T \in Bad : Cardinality(S) <= Cardinality(T)
  <2>1. \A S \in Bad : IsFiniteSet(S)
    BY <1>2
  <2> HIDE DEF Bad
  <2> QED  BY <1>1, <2>1, LeastSet
<1>4. S \in SUBSET D /\ ~Good(S)
  BY <1>3
<1>5. ASSUME NEW x \in S PROVE Good(S \ {x})
  <2>1. Cardinality(S \ {x}) = Cardinality(S) - 1 /\ Cardinality(S) \in Nat
    BY <1>2, <1>4, FS_RemoveElement, FS_CardinalityType
  <2>2. S \ {x} \notin Bad
    <3> HIDE DEF Bad
    <3> QED  BY <1>3, <2>1
  <2> QED  BY <2>2, <1>4
<1>6. ASSUME NEW T \in SUBSET D
      PROVE  t[T] = IF T = {} THEN 0 ELSE f[AnyOf(T)] + t[T \ {AnyOf(T)}]
  BY DEF SumsTo
<1>7. t[S] \in Int
  <2>1. CASE S = {}
    <3>1. t[S] = IF S = {} THEN 0 ELSE f[AnyOf(S)] + t[S \ {AnyOf(S)}]
      BY <1>4, <1>6
    <3> QED  BY <2>1, <3>1
  <2>2. CASE S # {}
    <3>1. AnyOf(S) \in S
      BY <2>2 DEF AnyOf
    <3>2. t[S \ {AnyOf(S)}] \in Int
      BY <3>1, <1>5
    <3>3. t[S] = f[AnyOf(S)] + t[S \ {AnyOf(S)}] /\ f[AnyOf(S)] \in Int
      BY <2>2, <3>1, <1>4, <1>6
    <3> QED  BY <3>2, <3>3
  <2> QED  BY <2>1, <2>2
<1>8. PICK x \in D \ S : t[S \cup {x}] # t[S] + f[x]
  BY <1>4, <1>7
<1> DEFINE y == AnyOf(S \cup {x})
<1>9. y \in S \cup {x} /\ t[S \cup {x}] = f[y] + t[(S \cup {x}) \ {y}]
  <2>1. S \cup {x} # {} /\ S \cup {x} \in SUBSET D
    BY <1>4
  <2>2. y \in S \cup {x}
    BY <2>1 DEF AnyOf
  <2> QED  BY <2>1, <2>2, <1>6
<1> HIDE DEF y
<1>10. CASE y = x
  <2>1. (S \cup {x}) \ {y} = S
    BY <1>10
  <2>2. t[S \cup {x}] = f[x] + t[S] /\ f[x] \in Int
    BY <1>8, <1>9, <1>10, <2>1
  <2> QED  BY <1>7, <1>8, <2>2
<1>11. CASE y \in S
  <2>1. Good(S \ {y})
    BY <1>5, <1>11
  <2>2. (S \cup {x}) \ {y} = (S \ {y}) \cup {x} /\ (S \ {y}) \cup {y} = S
        /\ x \in D \ (S \ {y}) /\ y \in D \ (S \ {y})
    BY <1>4, <1>8, <1>11
  <2>3. t[(S \ {y}) \cup {x}] = t[S \ {y}] + f[x]
    BY <2>1, <2>2
  <2>4. t[S] = t[S \ {y}] + f[y]
    BY <2>1, <2>2
  <2>5. t[S \ {y}] \in Int /\ f[x] \in Int /\ f[y] \in Int
    BY <2>1, <1>4, <1>8, <1>11
  <2>6. t[S \cup {x}] = f[y] + (t[S \ {y}] + f[x])
    BY <2>2, <2>3, <1>9
  <2> QED  BY <2>4, <2>5, <2>6, <1>8
<1> QED  BY <1>9, <1>10, <1>11

(* A sum of integers grows by the value added.                              *)
LEMMA SumGrows ==
    ASSUME NEW D, IsFiniteSet(D), NEW f \in [D -> Int], NEW x, x \notin D,
           NEW E, E = D \cup {x}, NEW h \in [E -> Int], \A y \in D : f[y] = h[y]
    PROVE  SumOver(f) \in Int /\ SumOver(h) = SumOver(f) + h[x]
<1>1. IsFiniteSet(E) /\ DOMAIN f = D /\ DOMAIN h = E /\ D \subseteq E
  BY FS_AddElement
<1>2. PICK t : SumsTo(t, f, SUBSET D) /\ SumOver(f) = t[D]
  <2>1. \E t : SumsTo(t, f, SUBSET DOMAIN f) /\ SumOver(f) = t[DOMAIN f]
    BY <1>1, SumIsEntry
  <2> QED  BY <1>1, <2>1
<1>3. PICK u : SumsTo(u, h, SUBSET E) /\ SumOver(h) = u[E]
  <2>1. \E u : SumsTo(u, h, SUBSET DOMAIN h) /\ SumOver(h) = u[DOMAIN h]
    BY <1>1, SumIsEntry
  <2> QED  BY <1>1, <2>1
<1>4. TablesAgree(t, u, D)
  BY <1>1, <1>2, <1>3, SumsAgree
<1>5. AddsIn(u, h, E)
  <2>1. \A y \in E : h[y] \in Int
    OBVIOUS
  <2> QED  BY <1>1, <1>3, <2>1, SumsAdd
<1>6. u[D] \in Int /\ u[D \cup {x}] = u[D] + h[x]
  BY <1>1, <1>5 DEF AddsIn
<1>7. t[D] = u[D]
  BY <1>4 DEF TablesAgree
<1> QED  BY <1>2, <1>3, <1>6, <1>7

(* Nothing sums to zero.                                                    *)
LEMMA SumOfNone ==
    ASSUME NEW f, DOMAIN f = {}
    PROVE  SumOver(f) = 0
<1>1. PICK t : SumsTo(t, f, SUBSET DOMAIN f) /\ SumOver(f) = t[DOMAIN f]
  BY FS_EmptySet, SumIsEntry
<1> QED  BY <1>1 DEF SumsTo

-----------------------------------------------------------------------------
\* Statistics

StatsSet == [count : Nat, sum : Int, min : Int, max : Int]

(* There is one function on no values, the empty sequence.                  *)
LEMMA NoValues ==
    ASSUME NEW f, f \in [{} -> Int]
    PROVE  f = <<>>
BY SeqDef, EmptySeq

\* h is f with one value more, at x.
OneValueMore(D, E, f, h, x) ==
    /\ IsFiniteSet(D) /\ f \in [D -> Int] /\ x \notin D
    /\ E = D \cup {x} /\ h \in [E -> Int] /\ \A y \in D : f[y] = h[y]

(* What a Seen value does to the statistics of others.                      *)
LEMMA StatsGrow ==
    ASSUME NEW D, NEW E, NEW f, NEW h, NEW x, OneValueMore(D, E, f, h, x)
    PROVE  StatsOf(h) = Seen(StatsOf(f), h[x])
<1>0. /\ IsFiniteSet(D) /\ f \in [D -> Int] /\ x \notin D
      /\ E = D \cup {x} /\ h \in [E -> Int] /\ \A y \in D : f[y] = h[y]
  BY DEF OneValueMore
<1>1. IsFiniteSet(E) /\ Cardinality(E) = Cardinality(D) + 1
      /\ Cardinality(D) \in Nat
  BY <1>0, FS_AddElement, FS_CardinalityType
<1>2. h # <<>>
  <2>1. DOMAIN h # {}
    BY <1>0
  <2>2. DOMAIN <<>> = {}
    OBVIOUS
  <2> QED  BY <2>1, <2>2
<1>3. SumOver(f) \in Int /\ SumOver(h) = SumOver(f) + h[x]
  BY <1>0, SumGrows
<1>4. {h[y] : y \in DOMAIN h} = {f[y] : y \in DOMAIN f} \cup {h[x]}
  BY <1>0
<1>5. StatsOf(h) = [count |-> Cardinality(D) + 1, sum |-> SumOver(f) + h[x],
                    min |-> Min({f[y] : y \in DOMAIN f} \cup {h[x]}),
                    max |-> Max({f[y] : y \in DOMAIN f} \cup {h[x]})]
  BY <1>0, <1>1, <1>2, <1>3, <1>4 DEF StatsOf
<1>6. CASE D = {}
  <2>1. f = <<>> /\ SumOver(f) = 0 /\ Cardinality(D) = 0
    BY <1>0, <1>6, NoValues, SumOfNone, FS_EmptySet
  <2>2. StatsOf(f) = NoStats
    BY <2>1 DEF StatsOf
  <2>3. {f[y] : y \in DOMAIN f} \cup {h[x]} = {h[x]}
    BY <1>0, <1>6
  <2>4. h[x] \in Int /\ Min({h[x]}) = h[x] /\ Max({h[x]}) = h[x]
    BY <1>0, MaxMinFew
  <2>5. StatsOf(h) = [count |-> 0 + 1, sum |-> 0 + h[x], min |-> h[x], max |-> h[x]]
    BY <1>5, <2>1, <2>3, <2>4
  <2>6. Seen(NoStats, h[x]) = [count |-> 0 + 1, sum |-> 0 + h[x], min |-> h[x], max |-> h[x]]
    BY DEF Seen, NoStats
  <2> QED  BY <2>2, <2>5, <2>6
<1>7. CASE D # {}
  <2> DEFINE vals == {f[y] : y \in DOMAIN f}
  <2>1. vals \in SUBSET Int /\ vals # {} /\ IsFiniteSet(vals)
    <3>1. f \in Surjection(D, vals)
      BY <1>0 DEF Surjection
    <3> QED  BY <3>1, <1>0, <1>7, FS_Surjection
  <2>2. f # <<>>
    BY <1>0, <1>7
  <2> HIDE DEF vals
  <2>3. /\ Max(vals \cup {h[x]}) = Max({Max(vals), h[x]})
        /\ Min(vals \cup {h[x]}) = Min({Min(vals), h[x]})
    <3>1. h[x] \in Int
      BY <1>0
    <3> QED  BY <2>1, <3>1, MaxMinGrow
  <2>4. StatsOf(f) = [count |-> Cardinality(D), sum |-> SumOver(f),
                      min |-> Min(vals), max |-> Max(vals)]
    BY <1>0, <2>2 DEF StatsOf, vals
  <2>5. Cardinality(D) # 0
    BY <1>0, <1>7, FS_EmptySet
  <2>6. StatsOf(h) = [count |-> Cardinality(D) + 1, sum |-> SumOver(f) + h[x],
                      min |-> Min({Min(vals), h[x]}), max |-> Max({Max(vals), h[x]})]
    <3>1. StatsOf(h) = [count |-> Cardinality(D) + 1, sum |-> SumOver(f) + h[x],
                        min |-> Min(vals \cup {h[x]}), max |-> Max(vals \cup {h[x]})]
      BY <1>5 DEF vals
    <3> QED  BY <3>1, <2>3
  <2>7. Seen(StatsOf(f), h[x]) =
            [count |-> Cardinality(D) + 1, sum |-> SumOver(f) + h[x],
             min |-> Min({Min(vals), h[x]}), max |-> Max({Max(vals), h[x]})]
    BY <2>4, <2>5 DEF Seen
  <2> QED  BY <2>6, <2>7
<1> QED  BY <1>6, <1>7

(* A statistic's own type.                                                  *)
LEMMA SeenType ==
    ASSUME NEW stats \in StatsSet, NEW v \in Int
    PROVE  Seen(stats, v) \in StatsSet
<1>1. ASSUME NEW x \in Int
      PROVE  Min({x, v}) \in Int /\ Max({x, v}) \in Int
  <2>1. IsFiniteSet({x} \cup {v})
    BY FS_Singleton, FS_AddElement
  <2>2. {x} \cup {v} = {x, v}
    OBVIOUS
  <2>3. IsFiniteSet({x, v}) /\ {x, v} \in SUBSET Int /\ {x, v} # {}
    BY <2>1, <2>2
  <2> QED  BY <2>3, MaxMin
<1>2. stats.min \in Int /\ stats.max \in Int /\ stats.sum \in Int /\ stats.count \in Nat
  BY DEF StatsSet
<1> QED  BY <1>1, <1>2 DEF Seen, StatsSet

(* What an optional value is worth to the statistics.                       *)
LEMMA SeenAnyParts ==
    ASSUME NEW stats, NEW v
    PROVE  SeenAny(stats, {v}) = Seen(stats, v) /\ SeenAny(stats, {}) = stats
<1>1. (CHOOSE w \in {v} : TRUE) = v
  OBVIOUS
<1>2. {v} # {}
  OBVIOUS
<1> QED  BY <1>1, <1>2 DEF SeenAny

-----------------------------------------------------------------------------
\* Counts and statistics of the signals of a file

(* Adding an element to a finite set, seen through a filter.                *)
LEMMA FilterGrows ==
    ASSUME NEW S, IsFiniteSet(S), NEW x, x \notin S, NEW A, NEW B,
           A \subseteq S, B = IF x \in B THEN A \cup {x} ELSE A
    PROVE  /\ IsFiniteSet(A) /\ Cardinality(A) \in Nat
           /\ Cardinality(B) = Cardinality(A) + Bit(x \in B)
<1>1. IsFiniteSet(A) /\ x \notin A
  BY FS_Subset
<1>2. Cardinality(A) \in Nat
  BY <1>1, FS_CardinalityType
<1>3. CASE x \in B
  <2>1. Cardinality(A \cup {x}) = Cardinality(A) + 1
    BY <1>1, FS_AddElement
  <2> QED  BY <1>1, <1>2, <1>3, <2>1 DEF Bit
<1>4. CASE x \notin B
  BY <1>1, <1>2, <1>4 DEF Bit
<1> QED  BY <1>3, <1>4

\* The places of a file whose signals belong to P.
Holding(sig, P) == {i \in DOMAIN sig : sig[i] \in P}

\* The values that the signals of P among them have.
Values(sig, value, P) ==
    [i \in {p \in DOMAIN sig : sig[p] \in P /\ value[sig[p]] # {}} |->
        CHOOSE v \in value[sig[i]] : TRUE]

\* A value is optional.
Optional(value) ==
    \A s \in Signals : value[s] = {} \/ \E v \in Int : value[s] = {v}

\* more is sig with s behind it, at n.
OneSignalMore(sig, s, n, more) ==
    /\ DOMAIN more = DOMAIN sig \cup {n} /\ n \notin DOMAIN sig
    /\ IsFiniteSet(DOMAIN sig)
    /\ more[n] = s /\ \A i \in DOMAIN sig : more[i] = sig[i]
    /\ \A i \in DOMAIN sig : sig[i] \in Signals

(* Append is one signal more, at the next place.                            *)
LEMMA Appended ==
    ASSUME NEW sig \in Seq(Signals), NEW s \in Signals, NEW n, n = Len(sig) + 1,
           NEW more, more = Append(sig, s)
    PROVE  more \in Seq(Signals) /\ n \in Nat /\ OneSignalMore(sig, s, n, more)
<1>1. more \in Seq(Signals) /\ Len(more) = n /\ Len(sig) \in Nat /\ n \in Nat
  OBVIOUS
<1>2. DOMAIN sig = 1..Len(sig) /\ DOMAIN more = 1..n
  BY <1>1
<1>3. more[n] = s /\ \A i \in 1..Len(sig) : more[i] = sig[i]
  OBVIOUS
<1>4. IsFiniteSet(1..Len(sig))
  BY <1>1, FS_Interval
<1>5. 1..n = 1..Len(sig) \cup {n} /\ n \notin 1..Len(sig)
  BY <1>1
<1> QED  BY <1>1, <1>2, <1>3, <1>4, <1>5 DEF OneSignalMore

(* A count grows by the signal appended, if it is counted.                  *)
LEMMA HoldingGrows ==
    ASSUME NEW sig \in Seq(Signals), NEW s \in Signals, NEW P
    PROVE  Cardinality(Holding(Append(sig, s), P)) = Cardinality(Holding(sig, P)) + Bit(s \in P)
<1>1. PICK n : n = Len(sig) + 1
  OBVIOUS
<1>2. PICK more : more = Append(sig, s)
  OBVIOUS
<1>3. OneSignalMore(sig, s, n, more)
  BY <1>1, <1>2, Appended
<1> DEFINE A == Holding(sig, P)
           B == Holding(more, P)
<1>4. A \subseteq DOMAIN sig /\ (n \in B <=> s \in P) /\ B = IF n \in B THEN A \cup {n} ELSE A
  BY <1>3 DEF Holding, OneSignalMore
<1> HIDE DEF A, B
<1>5. Cardinality(B) = Cardinality(A) + Bit(n \in B)
  BY <1>3, <1>4, FilterGrows DEF OneSignalMore
<1>6. Bit(n \in B) = Bit(s \in P)
  BY <1>4 DEF Bit
<1> QED  BY <1>2, <1>5, <1>6 DEF A, B

(* Statistics see the signal appended, if it has a value.                   *)
LEMMA ValuesGrow ==
    ASSUME NEW sig \in Seq(Signals), NEW s \in Signals, NEW P,
           NEW value, Optional(value)
    PROVE  StatsOf(Values(Append(sig, s), value, P)) =
               IF s \in P THEN SeenAny(StatsOf(Values(sig, value, P)), value[s])
               ELSE StatsOf(Values(sig, value, P))
<1>1. PICK n : n = Len(sig) + 1
  OBVIOUS
<1>2. PICK more : more = Append(sig, s)
  OBVIOUS
<1>0. OneSignalMore(sig, s, n, more)
  BY <1>1, <1>2, Appended
<1>3. /\ DOMAIN more = DOMAIN sig \cup {n} /\ n \notin DOMAIN sig
      /\ IsFiniteSet(DOMAIN sig)
      /\ more[n] = s /\ \A i \in DOMAIN sig : more[i] = sig[i]
      /\ \A i \in DOMAIN sig : sig[i] \in Signals
  BY <1>0 DEF OneSignalMore
<1> DEFINE D == {p \in DOMAIN sig : sig[p] \in P /\ value[sig[p]] # {}}
           E == {p \in DOMAIN more : more[p] \in P /\ value[more[p]] # {}}
           f == Values(sig, value, P)
           h == Values(more, value, P)
           Of(x) == CHOOSE v \in value[x] : TRUE
<1>4. IsFiniteSet(D) /\ n \notin D
  BY <1>3, FS_Subset
<1>5. f = [i \in D |-> Of(sig[i])] /\ h = [i \in E |-> Of(more[i])]
  BY Zenon DEF Values
<1>10. \A x, w : value[x] = {w} => Of(x) = w
  OBVIOUS
<1> HIDE DEF Of
<1>6. \A i \in D : sig[i] \in Signals /\ Of(sig[i]) \in Int
  <2> TAKE i \in D
  <2>1. sig[i] \in Signals /\ value[sig[i]] # {}
    BY <1>3
  <2>2. PICK w \in Int : value[sig[i]] = {w}
    BY <2>1 DEF Optional
  <2> QED  BY <2>1, <2>2, <1>10
<1>7. f \in [D -> Int]
  <2> HIDE DEF D, f
  <2> QED  BY <1>5, <1>6
<1>8. CASE s \in P /\ value[s] # {}
  <2>1. PICK w \in Int : value[s] = {w}
    BY <1>8 DEF Optional
  <2>2. E = D \cup {n}
    BY <1>3, <1>8
  <2>3. Of(more[n]) = w
    BY <1>3, <1>10, <2>1
  <2>4. \A i \in D : more[i] = sig[i]
    BY <1>3
  <2> HIDE DEF D, E, f, h
  <2>5. h[n] = w /\ \A i \in D : f[i] = h[i]
    BY <1>5, <2>2, <2>3, <2>4
  <2>6. h \in [E -> Int]
    <3>1. \A i \in E : h[i] \in Int
      BY <1>7, <2>1, <2>2, <2>5
    <3>2. h = [i \in E |-> h[i]]
      BY <1>5
    <3> QED  BY <3>1, <3>2
  <2>7. StatsOf(h) = Seen(StatsOf(f), h[n])
    <3>1. OneValueMore(D, E, f, h, n)
      BY <1>4, <1>7, <2>2, <2>5, <2>6 DEF OneValueMore
    <3> QED  BY <3>1, StatsGrow
  <2>8. StatsOf(h) = SeenAny(StatsOf(f), value[s])
    BY <2>1, <2>5, <2>7, SeenAnyParts
  <2> QED  BY <1>2, <1>8, <2>8 DEF f, h
<1>9. CASE ~(s \in P /\ value[s] # {})
  <2>1. E = D
    BY <1>3, <1>9
  <2>2. \A i \in D : more[i] = sig[i]
    BY <1>3
  <2>3. h = f
    <3> HIDE DEF D, E, f, h
    <3> QED  BY <1>5, <2>1, <2>2
  <2>4. SeenAny(StatsOf(f), {}) = StatsOf(f)
    BY SeenAnyParts
  <2> HIDE DEF D, E
  <2> QED  BY <1>2, <1>9, <2>3, <2>4
<1> QED  BY <1>8, <1>9

-----------------------------------------------------------------------------
\* The best opportunities

Tag(raw, p) == <<raw[p], p>>
Tagged(raw, S) == {Tag(raw, p) : p \in S}
Better(raw, S, p) == {q \in S : Worse(Tag(raw, p), Tag(raw, q))}

\* The places of S that fewer than TopLimit others are better than.
BestOf(raw, S) == {p \in S : Cardinality(Better(raw, S, p)) < TopLimit}

(* The order of the heap is strict and total.                               *)
LEMMA WorseOrder ==
    ASSUME NEW S \in SUBSET Nat, NEW raw, \A p \in S : raw[p] \in Int
    PROVE  /\ \A p, q \in S : p # q => Worse(Tag(raw, p), Tag(raw, q))
                                       \/ Worse(Tag(raw, q), Tag(raw, p))
           /\ \A p, q \in S : ~(Worse(Tag(raw, p), Tag(raw, q))
                                /\ Worse(Tag(raw, q), Tag(raw, p)))
           /\ \A p, q, r \in S :
                Worse(Tag(raw, p), Tag(raw, q)) /\ Worse(Tag(raw, q), Tag(raw, r))
                    => Worse(Tag(raw, p), Tag(raw, r))
BY DEF Worse, Tag

(* So the better of a better one are fewer.                                 *)
LEMMA BetterOrder ==
    ASSUME NEW S \in SUBSET Nat, IsFiniteSet(S), NEW raw, \A p \in S : raw[p] \in Int,
           NEW p \in S
    PROVE  /\ IsFiniteSet(Better(raw, S, p)) /\ Cardinality(Better(raw, S, p)) \in Nat
           /\ p \notin Better(raw, S, p)
           /\ \A q \in Better(raw, S, p) :
                /\ Better(raw, S, q) \subseteq Better(raw, S, p) \ {q}
                /\ Cardinality(Better(raw, S, q)) < Cardinality(Better(raw, S, p))
<1>1. Better(raw, S, p) \subseteq S /\ p \notin Better(raw, S, p)
  BY WorseOrder DEF Better
<1>2. IsFiniteSet(Better(raw, S, p)) /\ Cardinality(Better(raw, S, p)) \in Nat
  BY <1>1, FS_Subset, FS_CardinalityType
<1>3. ASSUME NEW q \in Better(raw, S, p)
      PROVE  /\ Better(raw, S, q) \subseteq Better(raw, S, p) \ {q}
             /\ Cardinality(Better(raw, S, q)) < Cardinality(Better(raw, S, p))
  <2>1. Better(raw, S, q) \subseteq Better(raw, S, p) \ {q}
    <3>1. q \in S /\ Worse(Tag(raw, p), Tag(raw, q))
      BY DEF Better
    <3> QED  BY <3>1, WorseOrder DEF Better
  <2>2. /\ IsFiniteSet(Better(raw, S, p) \ {q})
        /\ Cardinality(Better(raw, S, p) \ {q}) = Cardinality(Better(raw, S, p)) - 1
    BY <1>2, FS_RemoveElement
  <2>3. Cardinality(Better(raw, S, q)) <= Cardinality(Better(raw, S, p) \ {q})
        /\ IsFiniteSet(Better(raw, S, q))
    BY <2>1, <2>2, FS_Subset
  <2>4. Cardinality(Better(raw, S, q)) \in Nat
    BY <2>3, FS_CardinalityType
  <2> QED  BY <1>2, <2>1, <2>2, <2>3, <2>4
<1> QED  BY <1>1, <1>2, <1>3

(* While the heap is not full, it has them all.                             *)
LEMMA BestOfFew ==
    ASSUME NEW S \in SUBSET Nat, IsFiniteSet(S), NEW raw, \A p \in S : raw[p] \in Int,
           Cardinality(BestOf(raw, S)) < TopLimit
    PROVE  BestOf(raw, S) = S
<1> DEFINE Bad == {p \in S : ~(Cardinality(Better(raw, S, p)) < TopLimit)}
           sizes == {Cardinality(Better(raw, S, p)) : p \in Bad}
<1>1. SUFFICES ASSUME Bad # {} PROVE FALSE
  BY DEF BestOf
<1>2. sizes \in SUBSET Nat /\ sizes # {}
  <2>1. \A p \in S : Cardinality(Better(raw, S, p)) \in Nat
    BY BetterOrder
  <2> QED  BY <1>1, <2>1
<1>3. PICK n \in sizes : \A m \in sizes : n <= m
  <2> HIDE DEF sizes
  <2> QED  BY <1>2, LeastNatural
<1>4. PICK p \in Bad : \A q \in Bad : Cardinality(Better(raw, S, p)) <= Cardinality(Better(raw, S, q))
  BY <1>3
<1>5. Better(raw, S, p) \subseteq BestOf(raw, S)
  <2> SUFFICES ASSUME NEW q \in Better(raw, S, p) PROVE q \in BestOf(raw, S)
    OBVIOUS
  <2>1. q \in S /\ Cardinality(Better(raw, S, q)) < Cardinality(Better(raw, S, p))
    BY BetterOrder DEF Better
  <2>2. Cardinality(Better(raw, S, q)) \in Nat /\ Cardinality(Better(raw, S, p)) \in Nat
    BY <2>1, BetterOrder
  <2>3. q \notin Bad
    BY <1>4, <2>1, <2>2
  <2> QED  BY <2>1, <2>3 DEF BestOf
<1>6. IsFiniteSet(BestOf(raw, S)) /\ Cardinality(BestOf(raw, S)) \in Nat
  BY FS_Subset, FS_CardinalityType DEF BestOf
<1>7. Cardinality(Better(raw, S, p)) <= Cardinality(BestOf(raw, S))
  BY <1>5, <1>6, FS_Subset
<1>8. Cardinality(Better(raw, S, p)) \in Nat /\ TopLimit \in Nat
  BY BetterOrder, ReportAssumption
<1> QED  BY <1>4, <1>6, <1>7, <1>8

(* A full heap has exactly TopLimit, and its worst one is where it ends.    *)
LEMMA BestOfMany ==
    ASSUME NEW S \in SUBSET Nat, IsFiniteSet(S), NEW raw, \A p \in S : raw[p] \in Int,
           ~(Cardinality(BestOf(raw, S)) < TopLimit)
    PROVE  \E w \in BestOf(raw, S) :
               /\ Better(raw, S, w) = BestOf(raw, S) \ {w}
               /\ Cardinality(Better(raw, S, w)) = TopLimit - 1
<1> DEFINE best == BestOf(raw, S)
           left == {TopLimit - Cardinality(Better(raw, S, p)) : p \in best}
<1>1. best \subseteq S /\ IsFiniteSet(best) /\ Cardinality(best) \in Nat
  BY FS_Subset, FS_CardinalityType DEF BestOf
<1>2. TopLimit \in Nat \ {0}
  BY ReportAssumption
<1>3. best # {}
  BY <1>2, FS_EmptySet
<1>4. \A p \in best : /\ Cardinality(Better(raw, S, p)) \in Nat
                      /\ Cardinality(Better(raw, S, p)) < TopLimit
  BY BetterOrder DEF BestOf
<1>5. left \in SUBSET Nat /\ left # {}
  <2> HIDE DEF best
  <2> QED  BY <1>2, <1>3, <1>4
<1>6. PICK n \in left : \A m \in left : n <= m
  <2> HIDE DEF left
  <2> QED  BY <1>5, LeastNatural
<1> HIDE DEF best
<1>7. PICK w \in best : n = TopLimit - Cardinality(Better(raw, S, w))
  BY <1>6
<1>8. ASSUME NEW p \in best
      PROVE  Cardinality(Better(raw, S, p)) <= Cardinality(Better(raw, S, w))
  <2>1. n <= TopLimit - Cardinality(Better(raw, S, p))
    BY <1>6
  <2> QED  BY <2>1, <1>2, <1>4, <1>7
<1>9. best \ {w} \subseteq Better(raw, S, w)
  <2> SUFFICES ASSUME NEW p \in best \ {w}, p \notin Better(raw, S, w) PROVE FALSE
    OBVIOUS
  <2>1. p \in S /\ w \in S /\ p # w
    BY <1>1, <1>7
  <2>2. w \in Better(raw, S, p)
    BY <2>1, WorseOrder DEF Better
  <2>3. Cardinality(Better(raw, S, w)) < Cardinality(Better(raw, S, p))
    BY <2>1, <2>2, BetterOrder
  <2> QED  BY <2>3, <1>4, <1>8
<1>10. /\ IsFiniteSet(best \ {w}) /\ Cardinality(best \ {w}) = Cardinality(best) - 1
       /\ Cardinality(best \ {w}) \in Nat
  BY <1>1, FS_RemoveElement, FS_CardinalityType
<1>11. IsFiniteSet(Better(raw, S, w)) /\ Cardinality(best \ {w}) <= Cardinality(Better(raw, S, w))
  <2>1. IsFiniteSet(Better(raw, S, w))
    BY <1>1, BetterOrder
  <2> QED  BY <2>1, <1>9, FS_Subset
<1>12. /\ Cardinality(Better(raw, S, w)) = TopLimit - 1
       /\ Cardinality(best \ {w}) = Cardinality(Better(raw, S, w))
  <2>1. Cardinality(Better(raw, S, w)) < TopLimit /\ Cardinality(Better(raw, S, w)) \in Nat
    BY <1>4
  <2>2. Cardinality(best) >= TopLimit
    BY <1>1, <1>2 DEF best
  <2> QED  BY <1>1, <1>2, <1>10, <1>11, <2>1, <2>2
<1>13. best \ {w} = Better(raw, S, w)
  BY <1>9, <1>11, <1>12, FS_Subset
<1> QED  BY <1>12, <1>13 DEF best

\* A signal more, at place n.
Newcomer(raw, S, n, T) ==
    /\ S \in SUBSET Nat /\ IsFiniteSet(S) /\ n \in Nat /\ n \notin S /\ T = S \cup {n}
    /\ \A p \in T : raw[p] \in Int

(* A newcomer n: who is better than whom afterwards.                        *)
LEMMA BetterGrows ==
    ASSUME NEW raw, NEW S, NEW n, NEW T, Newcomer(raw, S, n, T),
           NEW p \in S
    PROVE  /\ Better(raw, T, p) = IF Worse(Tag(raw, p), Tag(raw, n))
                                  THEN Better(raw, S, p) \cup {n} ELSE Better(raw, S, p)
           /\ Cardinality(Better(raw, T, p)) =
                  Cardinality(Better(raw, S, p)) + Bit(Worse(Tag(raw, p), Tag(raw, n)))
<1>0. /\ S \in SUBSET Nat /\ IsFiniteSet(S) /\ n \in Nat /\ n \notin S /\ T = S \cup {n}
      /\ (\A q \in T : raw[q] \in Int) /\ \A q \in S : raw[q] \in Int
  BY DEF Newcomer
<1> USE <1>0
<1>1. Better(raw, T, p) = IF Worse(Tag(raw, p), Tag(raw, n))
                          THEN Better(raw, S, p) \cup {n} ELSE Better(raw, S, p)
  BY DEF Better
<1>2. IsFiniteSet(Better(raw, S, p)) /\ Cardinality(Better(raw, S, p)) \in Nat
  BY BetterOrder
<1>3. n \notin Better(raw, S, p)
  BY DEF Better
<1>4. Cardinality(Better(raw, S, p) \cup {n}) = Cardinality(Better(raw, S, p)) + 1
  BY <1>2, <1>3, FS_AddElement
<1> QED  BY <1>1, <1>2, <1>4 DEF Bit

(* A heap that is not full takes the newcomer.                              *)
LEMMA BestGrowsFew ==
    ASSUME NEW raw, NEW S, NEW n, NEW T, Newcomer(raw, S, n, T),
           Cardinality(BestOf(raw, S)) < TopLimit
    PROVE  BestOf(raw, T) = BestOf(raw, S) \cup {n}
<1>0. /\ S \in SUBSET Nat /\ IsFiniteSet(S) /\ n \in Nat /\ n \notin S /\ T = S \cup {n}
      /\ (\A q \in T : raw[q] \in Int) /\ \A q \in S : raw[q] \in Int
  BY DEF Newcomer
<1> USE <1>0
<1>1. BestOf(raw, S) = S
  BY BestOfFew
<1>2. T \in SUBSET Nat /\ IsFiniteSet(T) /\ Cardinality(T) = Cardinality(S) + 1
      /\ Cardinality(S) \in Nat /\ TopLimit \in Nat
  BY FS_AddElement, FS_CardinalityType, ReportAssumption
<1>3. ASSUME NEW p \in T PROVE Cardinality(Better(raw, T, p)) < TopLimit
  <2>0. \A q \in T : raw[q] \in Int
    OBVIOUS
  <2>1. Better(raw, T, p) \subseteq T \ {p}
    <3>1. p \notin Better(raw, T, p)
      BY <1>2, <2>0, BetterOrder
    <3> QED  BY <3>1 DEF Better
  <2>2. IsFiniteSet(T \ {p}) /\ Cardinality(T \ {p}) = Cardinality(S)
    <3>1. IsFiniteSet(T \ {p}) /\ Cardinality(T \ {p}) = Cardinality(T) - 1
      BY <1>2, FS_RemoveElement
    <3> QED  BY <3>1, <1>2
  <2>3. Cardinality(Better(raw, T, p)) <= Cardinality(S)
        /\ IsFiniteSet(Better(raw, T, p))
    BY <2>1, <2>2, FS_Subset
  <2>4. Cardinality(Better(raw, T, p)) \in Nat
    BY <2>3, FS_CardinalityType
  <2> QED  BY <1>1, <1>2, <2>3, <2>4
<1> QED  BY <1>1, <1>3 DEF BestOf

\* w is the last of a full heap.
LastOf(raw, S, w) ==
    /\ w \in BestOf(raw, S)
    /\ Better(raw, S, w) = BestOf(raw, S) \ {w}
    /\ Cardinality(Better(raw, S, w)) = TopLimit - 1

(* A full one takes it for its last, if that one is worse.                  *)
LEMMA BestGrowsMany ==
    ASSUME NEW raw, NEW S, NEW n, NEW T, Newcomer(raw, S, n, T),
           NEW w, LastOf(raw, S, w)
    PROVE  BestOf(raw, T) = IF Worse(Tag(raw, w), Tag(raw, n))
                            THEN (BestOf(raw, S) \ {w}) \cup {n} ELSE BestOf(raw, S)
<1>0. /\ S \in SUBSET Nat /\ IsFiniteSet(S) /\ n \in Nat /\ n \notin S /\ T = S \cup {n}
      /\ (\A q \in T : raw[q] \in Int) /\ \A q \in S : raw[q] \in Int
  BY DEF Newcomer
<1> USE <1>0
<1> USE DEF LastOf
<1> DEFINE best == BestOf(raw, S)
<1>1. T \in SUBSET Nat /\ IsFiniteSet(T) /\ w \in S /\ TopLimit \in Nat \ {0}
      /\ \A p \in T : raw[p] \in Int
  BY FS_AddElement, ReportAssumption DEF BestOf
<1>2. ASSUME NEW p \in S
      PROVE  /\ Cardinality(Better(raw, S, p)) \in Nat
             /\ Cardinality(Better(raw, T, p)) =
                    Cardinality(Better(raw, S, p)) + Bit(Worse(Tag(raw, p), Tag(raw, n)))
  <2>1. Cardinality(Better(raw, S, p)) \in Nat
    <3>1. \A q \in S : raw[q] \in Int
      OBVIOUS
    <3> QED  BY <3>1, BetterOrder
  <2>2. Cardinality(Better(raw, T, p)) =
            Cardinality(Better(raw, S, p)) + Bit(Worse(Tag(raw, p), Tag(raw, n)))
    BY BetterGrows
  <2> QED  BY <2>1, <2>2
<1>3. /\ \A p, q \in T : p # q => Worse(Tag(raw, p), Tag(raw, q))
                                  \/ Worse(Tag(raw, q), Tag(raw, p))
      /\ \A p, q \in T : ~(Worse(Tag(raw, p), Tag(raw, q))
                           /\ Worse(Tag(raw, q), Tag(raw, p)))
      /\ \A p, q, r \in T :
                Worse(Tag(raw, p), Tag(raw, q)) /\ Worse(Tag(raw, q), Tag(raw, r))
                    => Worse(Tag(raw, p), Tag(raw, r))
  BY <1>1, WorseOrder
<1>4. ASSUME NEW p \in S \ best PROVE p \notin BestOf(raw, T)
  <2>1. ~(Cardinality(Better(raw, S, p)) < TopLimit)
    BY DEF BestOf
  <2>2. ~(Cardinality(Better(raw, T, p)) < TopLimit)
    <3>1. Cardinality(Better(raw, S, p)) \in Nat
          /\ Cardinality(Better(raw, T, p)) =
                 Cardinality(Better(raw, S, p)) + Bit(Worse(Tag(raw, p), Tag(raw, n)))
      BY <1>2
    <3>2. Bit(Worse(Tag(raw, p), Tag(raw, n))) \in Nat
      BY DEF Bit
    <3> QED  BY <1>1, <2>1, <3>1, <3>2
  <2> QED  BY <2>2 DEF BestOf
<1>5. CASE Worse(Tag(raw, w), Tag(raw, n))
  <2>1. w \notin BestOf(raw, T)
    <3>1. Cardinality(Better(raw, T, w)) =
              Cardinality(Better(raw, S, w)) + Bit(Worse(Tag(raw, w), Tag(raw, n)))
      BY <1>1, <1>2
    <3>2. Cardinality(Better(raw, T, w)) = TopLimit
      BY <1>1, <1>5, <3>1 DEF Bit
    <3> QED  BY <1>1, <3>2 DEF BestOf
  <2>2. ASSUME NEW p \in best \ {w} PROVE p \in BestOf(raw, T)
    <3>1. p \in Better(raw, S, w) /\ p \in S
      BY DEF BestOf
    <3>2. Cardinality(Better(raw, S, p)) < Cardinality(Better(raw, S, w))
      BY <1>1, <3>1, BetterOrder
    <3>3. Cardinality(Better(raw, T, p)) < TopLimit
      <4>1. /\ Cardinality(Better(raw, S, p)) \in Nat
            /\ Cardinality(Better(raw, T, p)) =
                   Cardinality(Better(raw, S, p)) + Bit(Worse(Tag(raw, p), Tag(raw, n)))
        BY <1>2, <3>1
      <4>2. Bit(Worse(Tag(raw, p), Tag(raw, n))) \in {0, 1}
        BY DEF Bit
      <4> QED  BY <1>1, <3>2, <4>1, <4>2
    <3> QED  BY <3>1, <3>3 DEF BestOf
  <2>3. n \in BestOf(raw, T)
    <3>1. Better(raw, T, n) \subseteq Better(raw, S, w)
      BY <1>1, <1>3, <1>5 DEF Better
    <3>2. IsFiniteSet(Better(raw, S, w))
      BY <1>1, BetterOrder
    <3>3. Cardinality(Better(raw, T, n)) <= Cardinality(Better(raw, S, w))
          /\ IsFiniteSet(Better(raw, T, n))
      BY <3>1, <3>2, FS_Subset
    <3>4. Cardinality(Better(raw, T, n)) \in Nat
      BY <3>3, FS_CardinalityType
    <3>5. Cardinality(Better(raw, T, n)) < TopLimit
      BY <1>1, <3>3, <3>4
    <3> QED  BY <3>5 DEF BestOf
  <2>4. BestOf(raw, T) \subseteq T /\ best \subseteq S
    BY DEF BestOf
  <2> QED  BY <1>4, <1>5, <2>1, <2>2, <2>3, <2>4
<1>6. CASE ~Worse(Tag(raw, w), Tag(raw, n))
  <2>1. Worse(Tag(raw, n), Tag(raw, w))
    BY <1>1, <1>3, <1>6
  <2>2. ASSUME NEW p \in best PROVE ~Worse(Tag(raw, p), Tag(raw, n))
                                    /\ Worse(Tag(raw, n), Tag(raw, p))
    <3>1. CASE p = w
      BY <3>1, <1>6, <2>1
    <3>2. CASE p # w
      <4>1. p \in S /\ Worse(Tag(raw, w), Tag(raw, p))
        BY <3>2 DEF Better
      <4> QED  BY <4>1, <1>1, <1>3, <2>1
    <3> QED  BY <3>1, <3>2
  <2>3. ASSUME NEW p \in best PROVE p \in BestOf(raw, T)
    <3>1. p \in S /\ Cardinality(Better(raw, S, p)) < TopLimit
      BY DEF BestOf
    <3>2. Cardinality(Better(raw, T, p)) < TopLimit
      <4>1. /\ Cardinality(Better(raw, S, p)) \in Nat
            /\ Cardinality(Better(raw, T, p)) =
                   Cardinality(Better(raw, S, p)) + Bit(Worse(Tag(raw, p), Tag(raw, n)))
        BY <1>2, <3>1
      <4>2. Bit(Worse(Tag(raw, p), Tag(raw, n))) = 0
        BY <2>2 DEF Bit
      <4> QED  BY <1>1, <3>1, <4>1, <4>2
    <3> QED  BY <3>1, <3>2 DEF BestOf
  <2>4. n \notin BestOf(raw, T)
    <3>1. best \subseteq Better(raw, T, n)
      BY <2>2 DEF Better, BestOf
    <3>2. IsFiniteSet(Better(raw, T, n)) /\ Cardinality(Better(raw, T, n)) \in Nat
      BY <1>1, BetterOrder
    <3>3. Cardinality(best) <= Cardinality(Better(raw, T, n)) /\ IsFiniteSet(best)
      BY <3>1, <3>2, FS_Subset
    <3>4. Cardinality(best \ {w}) = Cardinality(best) - 1 /\ Cardinality(best) \in Nat
      BY <3>3, FS_RemoveElement, FS_CardinalityType
    <3>5. ~(Cardinality(Better(raw, T, n)) < TopLimit)
      BY <1>1, <3>2, <3>3, <3>4
    <3> QED  BY <3>5 DEF BestOf
  <2>5. BestOf(raw, T) \subseteq T /\ best \subseteq S
    BY DEF BestOf
  <2> QED  BY <1>4, <1>6, <2>3, <2>4, <2>5
<1> QED  BY <1>5, <1>6

(* Places tell edges apart, so that none is lost in the heap.               *)
LEMMA TaggedSize ==
    ASSUME NEW S, IsFiniteSet(S), NEW raw
    PROVE  Cardinality(Tagged(raw, S)) = Cardinality(S)
<1> DEFINE f == [p \in S |-> Tag(raw, p)]
<1>1. f \in Bijection(S, Tagged(raw, S))
  <2>1. f \in [S -> Tagged(raw, S)]
    BY DEF Tagged
  <2>2. \A p, q \in S : f[p] = f[q] => p = q
    BY DEF Tag
  <2>3. \A t \in Tagged(raw, S) : \E p \in S : f[p] = t
    BY DEF Tagged
  <2> HIDE DEF f
  <2>4. f \in Injection(S, Tagged(raw, S))
    BY <2>1, <2>2 DEF Injection, IsInjective
  <2>5. f \in Surjection(S, Tagged(raw, S))
    BY <2>1, <2>3 DEF Surjection
  <2> QED  BY <2>4, <2>5 DEF Bijection
<1>2. ExistsBijection(S, Tagged(raw, S))
  BY <1>1 DEF ExistsBijection
<1> QED  BY <1>2, FS_Bijection

(* Pushing a new signal keeps the heap the best of all.                     *)
LEMMA PushedOK ==
    ASSUME NEW raw, NEW S, NEW n, NEW T, Newcomer(raw, S, n, T)
    PROVE  Pushed(Tagged(raw, BestOf(raw, S)), Tag(raw, n)) = Tagged(raw, BestOf(raw, T))
<1>0. /\ S \in SUBSET Nat /\ IsFiniteSet(S) /\ n \in Nat /\ n \notin S /\ T = S \cup {n}
      /\ (\A q \in T : raw[q] \in Int) /\ \A q \in S : raw[q] \in Int
  BY DEF Newcomer
<1> USE <1>0
<1> DEFINE best == BestOf(raw, S)
           top == Tagged(raw, best)
<1>1. best \subseteq S /\ IsFiniteSet(best)
  BY FS_Subset DEF BestOf
<1>2. Cardinality(top) = Cardinality(best)
  BY <1>1, TaggedSize
<1>3. CASE Cardinality(best) < TopLimit
  <2>1. BestOf(raw, T) = best \cup {n}
    BY <1>3, BestGrowsFew
  <2>2. Pushed(top, Tag(raw, n)) = top \cup {Tag(raw, n)}
    BY <1>2, <1>3 DEF Pushed
  <2>3. Tagged(raw, best \cup {n}) = Tagged(raw, best) \cup {Tag(raw, n)}
    BY DEF Tagged
  <2> QED  BY <2>1, <2>2, <2>3
<1>4. CASE ~(Cardinality(best) < TopLimit)
  <2>1. PICK w \in best : /\ Better(raw, S, w) = best \ {w}
                          /\ Cardinality(Better(raw, S, w)) = TopLimit - 1
    BY <1>4, BestOfMany
  <2>2. BestOf(raw, T) = IF Worse(Tag(raw, w), Tag(raw, n))
                         THEN (best \ {w}) \cup {n} ELSE best
    <3>1. LastOf(raw, S, w)
      BY <2>1 DEF LastOf
    <3> QED  BY <3>1, BestGrowsMany
  <2>3. ASSUME NEW x \in top PROVE (\A y \in top \ {x} : Worse(x, y)) <=> x = Tag(raw, w)
    <3>1. \A p \in best \ {w} : Worse(Tag(raw, w), Tag(raw, p))
      BY <2>1 DEF Better
    <3>2. \A p \in best : ~(Worse(Tag(raw, w), Tag(raw, p)) /\ Worse(Tag(raw, p), Tag(raw, w)))
      BY <1>1, <2>1, WorseOrder
    <3>3. PICK p \in best : x = Tag(raw, p)
      BY DEF Tagged
    <3>4. CASE p = w
      <4>1. \A y \in top \ {x} : Worse(x, y)
        BY <3>1, <3>3, <3>4 DEF Tagged
      <4> QED  BY <4>1, <3>3, <3>4
    <3>5. CASE p # w
      <4>1. Tag(raw, w) \in top /\ Tag(raw, w) # x
        BY <3>3, <3>5, <2>1 DEF Tagged, Tag
      <4>2. ~Worse(x, Tag(raw, w))
        BY <3>1, <3>2, <3>3, <3>5
      <4> QED  BY <4>1, <4>2
    <3> QED  BY <3>4, <3>5
  <2>4. Tag(raw, w) \in top
    BY <2>1 DEF Tagged
  <2>5. (CHOOSE x \in top : \A y \in top \ {x} : Worse(x, y)) = Tag(raw, w)
    <3> HIDE DEF top
    <3>1. \E x \in top : \A y \in top \ {x} : Worse(x, y)
      BY <2>3, <2>4
    <3> QED  BY <3>1, <2>3
  <2>6. Pushed(top, Tag(raw, n)) =
            IF Worse(Tag(raw, w), Tag(raw, n)) THEN (top \ {Tag(raw, w)}) \cup {Tag(raw, n)}
            ELSE top
    <3> HIDE DEF top, best
    <3> QED  BY <1>2, <1>4, <2>5 DEF Pushed
  <2>7. Tagged(raw, (best \ {w}) \cup {n}) = (top \ {Tag(raw, w)}) \cup {Tag(raw, n)}
    BY DEF Tagged, Tag
  <2> QED  BY <2>2, <2>6, <2>7
<1> QED  BY <1>3, <1>4

-----------------------------------------------------------------------------
\* The accumulator's type

CycleSet == [signals : Nat, pnl : StatsSet, raw : StatsSet, net : StatsSet,
             ghosts : Nat, followUps : Nat, positive : Nat]

BucketSet == [samples : Nat, profitable : Nat, late : Nat, lateness : StatsSet]

AccSet ==
    [records : Nat, signals : Nat, latency : Nat,
     feeProfitable : Nat, depthProfitable : Nat, pessimistic : Nat,
     nonExecutable : Nat, rejected : Nat, ghosts : Nat,
     raw : StatsSet, net : StatsSet, realistic : StatsSet, pnl : StatsSet,
     breakEven : StatsSet, staleness : StatsSet, lifetime : StatsSet,
     sensitivity : [FeeCosts -> Nat],
     buckets : [Buckets -> BucketSet],
     cycles : [Cycles -> CycleSet],
     top : SUBSET (Int \X Nat),
     resyncs : Nat, gaps : Nat,
     sample : Seq(Signals),
     checkpoints : Nat, positive : Nat]

(* The accumulator starts typed.                                            *)
LEMMA EmptyType == Empty \in AccSet
<1>1. NoStats \in StatsSet
  BY DEF NoStats, StatsSet
<1>2. NoCycle \in CycleSet /\ NoBucket \in BucketSet
  BY <1>1 DEF NoCycle, NoBucket, CycleSet, BucketSet
<1>3. <<>> \in Seq(Signals)
  OBVIOUS
<1> QED  BY <1>1, <1>2, <1>3 DEF Empty, AccSet

(* A condition counts as a natural number.                                  *)
LEMMA BitType == \A c : Bit(c) \in Nat
BY DEF Bit

\* b is a with a signal more.
SignalStep(a, s, sample, b) ==
    a \in AccSet /\ s \in Signals /\ b = SignalObserved(a, s, sample)

SignalCounted(a, s, sample, b) ==
    /\ b.records = a.records + 1 /\ b.signals = a.signals + 1 /\ b.latency = a.latency
    /\ b.raw = Seen(a.raw, s.raw) /\ b.net = Seen(a.net, s.net)
    /\ b.realistic = SeenAny(a.realistic, RealisticEdge(s))
    /\ b.pnl = SeenAny(a.pnl, Gain(s))
    /\ b.breakEven = SeenAny(a.breakEven, BreakEven(s))
    /\ b.staleness = Seen(a.staleness, s.age)
    /\ b.lifetime = a.lifetime
    /\ b.feeProfitable = a.feeProfitable + Bit(s.net > 0)
    /\ b.depthProfitable = a.depthProfitable + Bit(Positive(RealisticEdge(s)))
    /\ b.pessimistic = a.pessimistic + Bit(s.pessimistic)
    /\ b.nonExecutable = a.nonExecutable + Bit(~Executable(s))
    /\ b.rejected = a.rejected + Bit(s.rejected)
    /\ b.ghosts = a.ghosts
    /\ b.sensitivity = [c \in FeeCosts |-> a.sensitivity[c] + Bit(s.raw > c)]
    /\ b.buckets = a.buckets
    /\ b.top = Pushed(a.top, <<s.raw, a.signals + 1>>)
    /\ b.cycles = [a.cycles EXCEPT ![s.cycle] = CycleSeen(@, s)]
    /\ b.resyncs = a.resyncs /\ b.gaps = a.gaps /\ b.sample = sample
    /\ b.checkpoints = a.checkpoints /\ b.positive = a.positive

(* SignalObserved field by field.                                           *)
LEMMA SignalFields ==
    ASSUME NEW a, NEW s, NEW sample, NEW b, SignalStep(a, s, sample, b)
    PROVE  SignalCounted(a, s, sample, b)
BY DEF SignalCounted, SignalStep, AccSet, SignalObserved

(* The parts of a signal.                                                   *)
LEMMA SignalType ==
    ASSUME NEW s \in Signals
    PROVE  /\ s \in [cycle : Cycles, raw : Int, net : Int, depth : Int, pnl : SUBSET Int,
                     pessimistic : BOOLEAN, executable : BOOLEAN, rejected : BOOLEAN, age : Int]
           /\ s.cycle \in Cycles /\ s.raw \in Int /\ s.net \in Int /\ s.depth \in Int
           /\ s.age \in Int
           /\ IsFiniteSet(s.pnl) /\ s.pnl \subseteq Int /\ Cardinality(s.pnl) <= 1
BY ReportAssumption

(* The optional values of a signal are optional.                            *)
OptionalInt == {{}} \cup {{v} : v \in Int}

LEMMA OptionalValues ==
    ASSUME NEW s \in Signals
    PROVE  RealisticEdge(s) \in OptionalInt /\ Gain(s) \in OptionalInt
           /\ BreakEven(s) \in OptionalInt
<1>1. s.pnl = {} \/ \E v \in Int : s.pnl = {v}
  <2>1. Cardinality(s.pnl) \in Nat /\ Cardinality(s.pnl) <= 1
    BY SignalType, FS_CardinalityType
  <2>2. CASE Cardinality(s.pnl) = 0
    BY <2>2, SignalType, FS_EmptySet
  <2>3. CASE Cardinality(s.pnl) = 1
    <3>1. \E v : s.pnl = {v}
      BY <2>3, SignalType, FS_Singleton
    <3> QED  BY <3>1, SignalType
  <2> QED  BY <2>1, <2>2, <2>3
<1> QED  BY <1>1, SignalType DEF RealisticEdge, Gain, BreakEven, OptionalInt

(* Optional values keep statistics typed.                                   *)
LEMMA SeenAnyType ==
    ASSUME NEW stats \in StatsSet, NEW value \in OptionalInt
    PROVE  SeenAny(stats, value) \in StatsSet
<1>1. CASE value = {}
  BY <1>1, SeenAnyParts
<1>2. CASE \E v \in Int : value = {v}
  <2>1. PICK v \in Int : value = {v}
    BY <1>2
  <2>2. SeenAny(stats, value) = Seen(stats, v)
    BY <2>1, SeenAnyParts
  <2> QED  BY <2>2, SeenType
<1> QED  BY <1>1, <1>2 DEF OptionalInt

(* The reservoir keeps signals only.                                        *)
LEMMA SamplesType ==
    ASSUME NEW old \in Seq(Signals), NEW s \in Signals, NEW sample \in Samples(old, s)
    PROVE  sample \in Seq(Signals)
<1>1. CASE sample = Append(old, s)
  BY <1>1
<1>2. CASE \E i \in 1..SampleLimit : sample = [old EXCEPT ![i] = s]
  <2>1. PICK i \in 1..SampleLimit : sample = [old EXCEPT ![i] = s]
    BY <1>2
  <2>2. CASE i \in 1..Len(old)
    BY <2>1, <2>2, ExceptSeq
  <2>3. CASE i \notin 1..Len(old)
    <3>1. sample = old
      BY <2>1, <2>3
    <3> QED  BY <3>1
  <2> QED  BY <2>2, <2>3
<1>3. CASE sample = old
  BY <1>3
<1> QED  BY <1>1, <1>2, <1>3 DEF Samples

(* CycleSeen field by field.                                                *)
LEMMA CycleSeenFields ==
    ASSUME NEW c \in CycleSet, NEW s \in Signals
    PROVE  /\ CycleSeen(c, s) \in CycleSet
           /\ CycleSeen(c, s).signals = c.signals + 1
           /\ CycleSeen(c, s).pnl = SeenAny(c.pnl, Gain(s))
           /\ CycleSeen(c, s).raw = Seen(c.raw, s.raw)
           /\ CycleSeen(c, s).net = Seen(c.net, s.net)
           /\ CycleSeen(c, s).positive = c.positive + Bit(PositiveRealistic(s))
           /\ CycleSeen(c, s).ghosts = c.ghosts /\ CycleSeen(c, s).followUps = c.followUps
<1>1. /\ SeenAny(c.pnl, Gain(s)) \in StatsSet
      /\ Seen(c.raw, s.raw) \in StatsSet /\ Seen(c.net, s.net) \in StatsSet
      /\ Bit(PositiveRealistic(s)) \in Nat
  BY SeenAnyType, SeenType, OptionalValues, SignalType, BitType DEF CycleSet
<1> DEFINE d == CycleSeen(c, s)
<1>2. d = [c EXCEPT !.signals = @ + 1, !.pnl = SeenAny(@, Gain(s)), !.raw = Seen(@, s.raw),
                    !.net = Seen(@, s.net), !.positive = @ + Bit(PositiveRealistic(s))]
  BY DEF CycleSeen
<1> HIDE DEF d
<1>3. /\ d.signals = c.signals + 1
      /\ d.pnl = SeenAny(c.pnl, Gain(s))
      /\ d.raw = Seen(c.raw, s.raw)
      /\ d.net = Seen(c.net, s.net)
      /\ d.positive = c.positive + Bit(PositiveRealistic(s))
      /\ d.ghosts = c.ghosts /\ d.followUps = c.followUps
  BY <1>2 DEF CycleSet
<1>4. d \in CycleSet
  <2>1. c.signals + 1 \in Nat /\ c.positive + Bit(PositiveRealistic(s)) \in Nat
    BY <1>1 DEF CycleSet
  <2> QED  BY <1>1, <1>2, <2>1 DEF CycleSet
<1> QED  BY <1>3, <1>4 DEF d

(* The heap keeps pairs of an edge and a place.                             *)
LEMMA PushedType ==
    ASSUME NEW top \in SUBSET (Int \X Nat), NEW item \in Int \X Nat
    PROVE  Pushed(top, item) \in SUBSET (Int \X Nat)
BY DEF Pushed

(* A signal leaves the accumulator typed.                                   *)
LEMMA SignalObservedType ==
    ASSUME NEW a \in AccSet, NEW s \in Signals, NEW sample \in Samples(a.sample, s)
    PROVE  SignalObserved(a, s, sample) \in AccSet
<1>1. /\ a.raw \in StatsSet /\ a.net \in StatsSet /\ a.realistic \in StatsSet
      /\ a.pnl \in StatsSet /\ a.breakEven \in StatsSet /\ a.staleness \in StatsSet
      /\ a.cycles \in [Cycles -> CycleSet] /\ a.top \in SUBSET (Int \X Nat)
      /\ a.sample \in Seq(Signals) /\ a.sensitivity \in [FeeCosts -> Nat] /\ a.signals \in Nat
  BY DEF AccSet
<1>2. /\ Seen(a.raw, s.raw) \in StatsSet /\ Seen(a.net, s.net) \in StatsSet
      /\ Seen(a.staleness, s.age) \in StatsSet
  BY <1>1, SignalType, SeenType
<1>3. /\ SeenAny(a.realistic, RealisticEdge(s)) \in StatsSet
      /\ SeenAny(a.pnl, Gain(s)) \in StatsSet
      /\ SeenAny(a.breakEven, BreakEven(s)) \in StatsSet
  BY <1>1, OptionalValues, SeenAnyType
<1>4. sample \in Seq(Signals)
  BY <1>1, SamplesType
<1>5. [c \in FeeCosts |-> a.sensitivity[c] + Bit(s.raw > c)] \in [FeeCosts -> Nat]
  BY <1>1, BitType
<1>6. Pushed(a.top, <<s.raw, a.signals + 1>>) \in SUBSET (Int \X Nat)
  <2>1. <<s.raw, a.signals + 1>> \in Int \X Nat
    BY <1>1, SignalType
  <2> QED  BY <1>1, <2>1, PushedType
<1>7. [a.cycles EXCEPT ![s.cycle] = CycleSeen(@, s)] \in [Cycles -> CycleSet]
  BY <1>1, SignalType, CycleSeenFields
<1>8. /\ a.feeProfitable + Bit(s.net > 0) \in Nat
      /\ a.depthProfitable + Bit(Positive(RealisticEdge(s))) \in Nat
      /\ a.pessimistic + Bit(s.pessimistic) \in Nat
      /\ a.nonExecutable + Bit(~Executable(s)) \in Nat
      /\ a.rejected + Bit(s.rejected) \in Nat
      /\ a.records + 1 \in Nat /\ a.signals + 1 \in Nat
  <2>1. /\ a.feeProfitable \in Nat /\ a.depthProfitable \in Nat /\ a.pessimistic \in Nat
        /\ a.nonExecutable \in Nat /\ a.rejected \in Nat /\ a.records \in Nat
    BY DEF AccSet
  <2>2. \A n \in Nat, m \in Nat : n + m \in Nat
    OBVIOUS
  <2>3. /\ Bit(s.net > 0) \in Nat /\ Bit(Positive(RealisticEdge(s))) \in Nat
        /\ Bit(s.pessimistic) \in Nat /\ Bit(~Executable(s)) \in Nat
        /\ Bit(s.rejected) \in Nat
    BY DEF Bit
  <2> HIDE DEF Bit
  <2> QED  BY <1>1, <2>1, <2>2, <2>3
<1> QED  BY <1>2, <1>3, <1>4, <1>5, <1>6, <1>7, <1>8, ZenonT(40) DEF AccSet, SignalObserved

-----------------------------------------------------------------------------
\* Latency lines

LineSet == [id : Ids, signal : Signals, cycle : Cycles, checks : Checks,
            ghost : BOOLEAN, lifetime : Int]

(* The parts of a latency line.                                             *)
LEMMA LineParts ==
    ASSUME NEW line \in LineSet
    PROVE  /\ line.cycle \in Cycles /\ line.lifetime \in Int /\ line.id \in Ids
           /\ \A b \in Buckets : Lateness(line, b) \in Int
<1>1. line.checks \in [Buckets -> [profitable : BOOLEAN, elapsed : Int]]
  BY ReportAssumption DEF LineSet
<1>2. \A b \in Buckets : b \in Int
  BY ReportAssumption
<1> QED  BY <1>1, <1>2 DEF LineSet, Lateness

(* What a follow-up writes is a latency line.                               *)
LEMMA FollowUpType ==
    ASSUME NEW id \in Ids, NEW s \in Signals, NEW checks \in Checks
    PROVE  FollowUp(id, s, checks) \in LineSet
<1> DEFINE dead == {b \in Buckets : ~checks[b].profitable}
<1>1. Max(Buckets) \in Buckets /\ Buckets \subseteq Int
  BY ReportAssumption, MaxMin
<1>2. /\ dead \cup {Max(Buckets)} \in SUBSET Int /\ dead \cup {Max(Buckets)} # {}
      /\ IsFiniteSet(dead \cup {Max(Buckets)})
  <2>1. IsFiniteSet(dead \cup {Max(Buckets)})
    <3>1. dead \cup {Max(Buckets)} \in SUBSET Buckets
      BY <1>1
    <3> QED  BY <3>1, ReportAssumption, FS_Subset
  <2> QED  BY <1>1, <2>1
<1>3. Min(dead \cup {Max(Buckets)}) \in Int
  <2> HIDE DEF dead
  <2> QED  BY <1>2, MaxMin
<1>4. (~DepthProfitable(s) \/ Min(Buckets) \in dead) \in BOOLEAN
  OBVIOUS
<1> QED  BY <1>3, <1>4, SignalType DEF FollowUp, LineSet

-----------------------------------------------------------------------------
\* What the accumulator has of the signals is what the file of signals has

FeeProfitable == {s \in Signals : s.net > 0}
DeepProfitable == {s \in Signals : Executable(s) /\ s.depth > 0}
Pessimistic == {s \in Signals : s.pessimistic}
NonExecutable == {s \in Signals : ~Executable(s)}
RejectedOnes == {s \in Signals : s.rejected}
Above(c) == {s \in Signals : s.raw > c}
InCycle(c) == {s \in Signals : s.cycle = c}
PositiveIn(c) == {s \in Signals : s.cycle = c /\ PositiveRealistic(s)}

RawOf == [s \in Signals |-> {s.raw}]
NetOf == [s \in Signals |-> {s.net}]
AgeOf == [s \in Signals |-> {s.age}]
EdgeOf == [s \in Signals |-> RealisticEdge(s)]
GainOf == [s \in Signals |-> Gain(s)]
BreakEvenOf == [s \in Signals |-> BreakEven(s)]

EdgesAt(sig) == [i \in DOMAIN sig |-> sig[i].raw]

CountsExact(a, sig) ==
    /\ a.signals = Len(sig)
    /\ a.feeProfitable = Cardinality(Holding(sig, FeeProfitable))
    /\ a.depthProfitable = Cardinality(Holding(sig, DeepProfitable))
    /\ a.pessimistic = Cardinality(Holding(sig, Pessimistic))
    /\ a.nonExecutable = Cardinality(Holding(sig, NonExecutable))
    /\ a.rejected = Cardinality(Holding(sig, RejectedOnes))
    /\ \A c \in FeeCosts : a.sensitivity[c] = Cardinality(Holding(sig, Above(c)))

ValuesExact(a, sig) ==
    /\ a.raw = StatsOf(Values(sig, RawOf, Signals))
    /\ a.net = StatsOf(Values(sig, NetOf, Signals))
    /\ a.realistic = StatsOf(Values(sig, EdgeOf, Signals))
    /\ a.pnl = StatsOf(Values(sig, GainOf, Signals))
    /\ a.breakEven = StatsOf(Values(sig, BreakEvenOf, Signals))
    /\ a.staleness = StatsOf(Values(sig, AgeOf, Signals))

TopExact(a, sig) == a.top = Tagged(EdgesAt(sig), BestOf(EdgesAt(sig), DOMAIN sig))

CycleExact(cycle, c, sig) ==
    /\ cycle.signals = Cardinality(Holding(sig, InCycle(c)))
    /\ cycle.positive = Cardinality(Holding(sig, PositiveIn(c)))
    /\ cycle.pnl = StatsOf(Values(sig, GainOf, InCycle(c)))
    /\ cycle.raw = StatsOf(Values(sig, RawOf, InCycle(c)))
    /\ cycle.net = StatsOf(Values(sig, NetOf, InCycle(c)))

CyclesExact(a, sig) == \A c \in Cycles : CycleExact(a.cycles[c], c, sig)

(* The values of a signal are optional integers.                            *)
LEMMA OptionalFunctions ==
    /\ Optional(RawOf) /\ Optional(NetOf) /\ Optional(AgeOf)
    /\ Optional(EdgeOf) /\ Optional(GainOf) /\ Optional(BreakEvenOf)
<1>1. Optional(RawOf) /\ Optional(NetOf) /\ Optional(AgeOf)
  BY SignalType DEF Optional, RawOf, NetOf, AgeOf
<1>2. Optional(EdgeOf) /\ Optional(GainOf) /\ Optional(BreakEvenOf)
  BY OptionalValues DEF Optional, EdgeOf, GainOf, BreakEvenOf, OptionalInt
<1> QED  BY <1>1, <1>2

\* b is a with the signal s more, more its file.
SignalRecorded(a, s, sample, b, sig, more) ==
    SignalStep(a, s, sample, b) /\ sig \in Seq(Signals) /\ more = Append(sig, s)

(* Counts stay exact when a signal is observed.                             *)
LEMMA CountsGrow ==
    ASSUME NEW a, NEW s, NEW sample, NEW b, NEW sig, NEW more,
           SignalRecorded(a, s, sample, b, sig, more), CountsExact(a, sig)
    PROVE  CountsExact(b, more)
<1>0. /\ SignalCounted(a, s, sample, b) /\ a \in AccSet /\ s \in Signals
      /\ sig \in Seq(Signals) /\ more = Append(sig, s)
  BY SignalFields DEF SignalRecorded, SignalStep
<1> USE <1>0
<1>1. /\ Len(more) = Len(sig) + 1
      /\ \A P : Cardinality(Holding(more, P)) = Cardinality(Holding(sig, P)) + Bit(s \in P)
  BY HoldingGrows
<1>2. /\ Bit(s.net > 0) = Bit(s \in FeeProfitable)
      /\ Bit(Positive(RealisticEdge(s))) = Bit(s \in DeepProfitable)
      /\ Bit(s.pessimistic) = Bit(s \in Pessimistic)
      /\ Bit(~Executable(s)) = Bit(s \in NonExecutable)
      /\ Bit(s.rejected) = Bit(s \in RejectedOnes)
      /\ \A c : Bit(s.raw > c) = Bit(s \in Above(c))
  <2>1. Positive(RealisticEdge(s)) <=> s \in DeepProfitable
    BY DEF Positive, RealisticEdge, DeepProfitable
  <2> QED  BY <2>1 DEF Bit, FeeProfitable, Pessimistic, NonExecutable, RejectedOnes, Above
<1>3. /\ b.signals = a.signals + 1
      /\ b.feeProfitable = a.feeProfitable + Bit(s.net > 0)
      /\ b.depthProfitable = a.depthProfitable + Bit(Positive(RealisticEdge(s)))
      /\ b.pessimistic = a.pessimistic + Bit(s.pessimistic)
      /\ b.nonExecutable = a.nonExecutable + Bit(~Executable(s))
      /\ b.rejected = a.rejected + Bit(s.rejected)
      /\ b.sensitivity = [c \in FeeCosts |-> a.sensitivity[c] + Bit(s.raw > c)]
  BY <1>0 DEF SignalCounted
<1>4. \A c \in FeeCosts : b.sensitivity[c] = a.sensitivity[c] + Bit(s.raw > c)
  BY <1>3
<1> QED  BY <1>1, <1>2, <1>3, <1>4 DEF CountsExact

(* A value that is there is seen.                                           *)
LEMMA SeenOne == \A stats, v : SeenAny(stats, {v}) = Seen(stats, v)
BY SeenAnyParts

(* So do statistics.                                                        *)
LEMMA ValuesGrowAll ==
    ASSUME NEW a, NEW s, NEW sample, NEW b, NEW sig, NEW more,
           SignalRecorded(a, s, sample, b, sig, more), ValuesExact(a, sig)
    PROVE  ValuesExact(b, more)
<1>0. /\ SignalCounted(a, s, sample, b) /\ a \in AccSet /\ s \in Signals
      /\ sig \in Seq(Signals) /\ more = Append(sig, s)
  BY SignalFields DEF SignalRecorded, SignalStep
<1> USE <1>0
<1>1. \A value : Optional(value) =>
         StatsOf(Values(more, value, Signals)) = SeenAny(StatsOf(Values(sig, value, Signals)), value[s])
  BY ValuesGrow
<1>2. /\ b.raw = SeenAny(a.raw, {s.raw}) /\ b.net = SeenAny(a.net, {s.net})
      /\ b.realistic = SeenAny(a.realistic, RealisticEdge(s))
      /\ b.pnl = SeenAny(a.pnl, Gain(s))
      /\ b.breakEven = SeenAny(a.breakEven, BreakEven(s))
      /\ b.staleness = SeenAny(a.staleness, {s.age})
  <2>1. /\ b.raw = Seen(a.raw, s.raw) /\ b.net = Seen(a.net, s.net)
        /\ b.realistic = SeenAny(a.realistic, RealisticEdge(s))
        /\ b.pnl = SeenAny(a.pnl, Gain(s))
        /\ b.breakEven = SeenAny(a.breakEven, BreakEven(s))
        /\ b.staleness = Seen(a.staleness, s.age)
    BY DEF SignalCounted
  <2> QED  BY <2>1, SeenOne
<1>3. /\ RawOf[s] = {s.raw} /\ NetOf[s] = {s.net} /\ AgeOf[s] = {s.age}
      /\ EdgeOf[s] = RealisticEdge(s) /\ GainOf[s] = Gain(s) /\ BreakEvenOf[s] = BreakEven(s)
  BY DEF RawOf, NetOf, AgeOf, EdgeOf, GainOf, BreakEvenOf
<1> QED  BY <1>1, <1>2, <1>3, OptionalFunctions DEF ValuesExact

(* So does what is known of a cycle, be it the signal's or not.             *)
LEMMA CycleGrows ==
    ASSUME NEW cycle \in CycleSet, NEW s \in Signals, NEW c,
           NEW sig \in Seq(Signals), NEW more, more = Append(sig, s), CycleExact(cycle, c, sig)
    PROVE  /\ s.cycle = c => CycleExact(CycleSeen(cycle, s), c, more)
           /\ s.cycle # c => CycleExact(cycle, c, more)
<1>1. \A P : Cardinality(Holding(more, P)) = Cardinality(Holding(sig, P)) + Bit(s \in P)
  BY HoldingGrows
<1>2. \A value : Optional(value) =>
         StatsOf(Values(more, value, InCycle(c))) =
             IF s \in InCycle(c) THEN SeenAny(StatsOf(Values(sig, value, InCycle(c))), value[s])
             ELSE StatsOf(Values(sig, value, InCycle(c)))
  BY ValuesGrow
<1>3. RawOf[s] = {s.raw} /\ NetOf[s] = {s.net} /\ GainOf[s] = Gain(s)
  BY DEF RawOf, NetOf, GainOf
<1>4. CASE s.cycle = c
  <2>1. s \in InCycle(c) /\ Bit(s \in InCycle(c)) = 1
        /\ Bit(s \in PositiveIn(c)) = Bit(PositiveRealistic(s))
    BY <1>4 DEF InCycle, PositiveIn, Bit
  <2>2. /\ CycleSeen(cycle, s).signals = cycle.signals + 1
        /\ CycleSeen(cycle, s).positive = cycle.positive + Bit(PositiveRealistic(s))
        /\ CycleSeen(cycle, s).pnl = SeenAny(cycle.pnl, Gain(s))
        /\ CycleSeen(cycle, s).raw = SeenAny(cycle.raw, {s.raw})
        /\ CycleSeen(cycle, s).net = SeenAny(cycle.net, {s.net})
    BY CycleSeenFields, SeenOne
  <2> QED  BY <1>1, <1>2, <1>3, <1>4, <2>1, <2>2, OptionalFunctions DEF CycleExact
<1>5. CASE s.cycle # c
  <2>1. s \notin InCycle(c) /\ Bit(s \in InCycle(c)) = 0 /\ Bit(s \in PositiveIn(c)) = 0
    BY <1>5 DEF InCycle, PositiveIn, Bit
  <2>2. cycle.signals \in Nat /\ cycle.positive \in Nat
    BY DEF CycleSet
  <2> QED  BY <1>1, <1>2, <1>5, <2>1, <2>2, OptionalFunctions DEF CycleExact
<1> QED  BY <1>4, <1>5

(* And of all cycles.                                                       *)
LEMMA CyclesGrow ==
    ASSUME NEW a, NEW s, NEW sample, NEW b, NEW sig, NEW more,
           SignalRecorded(a, s, sample, b, sig, more), CyclesExact(a, sig)
    PROVE  CyclesExact(b, more)
<1>0. /\ SignalCounted(a, s, sample, b) /\ a \in AccSet /\ s \in Signals
      /\ sig \in Seq(Signals) /\ more = Append(sig, s)
  BY SignalFields DEF SignalRecorded, SignalStep
<1> USE <1>0
<1> SUFFICES ASSUME NEW c \in Cycles PROVE CycleExact(b.cycles[c], c, more)
  BY DEF CyclesExact
<1>1. b.cycles = [a.cycles EXCEPT ![s.cycle] = CycleSeen(@, s)]
  BY <1>0 DEF SignalCounted
<1>2. a.cycles \in [Cycles -> CycleSet]
  BY DEF AccSet
<1>3. CycleExact(a.cycles[c], c, sig) /\ a.cycles[c] \in CycleSet
  BY <1>2 DEF CyclesExact
<1>4. b.cycles[c] = IF s.cycle = c THEN CycleSeen(a.cycles[c], s) ELSE a.cycles[c]
  BY <1>1, <1>2
<1>5. /\ s.cycle = c => CycleExact(CycleSeen(a.cycles[c], s), c, more)
      /\ s.cycle # c => CycleExact(a.cycles[c], c, more)
  BY <1>3, CycleGrows
<1> QED  BY <1>4, <1>5

(* What is best depends on the edges only.                                  *)
LEMMA BestSame ==
    ASSUME NEW raw, NEW edge, NEW S, \A p \in S : raw[p] = edge[p]
    PROVE  Tagged(raw, BestOf(raw, S)) = Tagged(edge, BestOf(edge, S))
<1>1. \A p \in S : Tag(raw, p) = Tag(edge, p)
  BY DEF Tag
<1>2. \A p \in S : Better(raw, S, p) = Better(edge, S, p)
  BY <1>1 DEF Better
<1>3. BestOf(raw, S) = BestOf(edge, S) /\ BestOf(raw, S) \subseteq S
  BY <1>2 DEF BestOf
<1> QED  BY <1>1, <1>3 DEF Tagged

(* And the heap is that of the best of all signals.                         *)
LEMMA TopGrows ==
    ASSUME NEW a, NEW s, NEW sample, NEW b, NEW sig, NEW more,
           SignalRecorded(a, s, sample, b, sig, more),
           CountsExact(a, sig), TopExact(a, sig)
    PROVE  TopExact(b, more)
<1>0. /\ SignalCounted(a, s, sample, b) /\ a \in AccSet /\ s \in Signals
      /\ sig \in Seq(Signals) /\ more = Append(sig, s)
  BY SignalFields DEF SignalRecorded, SignalStep
<1> USE <1>0
<1> DEFINE n == Len(sig) + 1
           raw == EdgesAt(more)
           S == DOMAIN sig
           T == DOMAIN more
<1>1. OneSignalMore(sig, s, n, more) /\ n \in Nat /\ more \in Seq(Signals)
  BY Appended
<1>2. Newcomer(raw, S, n, T)
  <2>1. S \in SUBSET Nat
    OBVIOUS
  <2>2. \A p \in T : raw[p] \in Int
    <3>1. \A p \in T : more[p] \in Signals
      BY <1>1
    <3> QED  BY <3>1, SignalType DEF EdgesAt
  <2> QED  BY <1>1, <2>1, <2>2 DEF OneSignalMore, Newcomer
<1>3. \A p \in S : EdgesAt(sig)[p] = raw[p]
  BY <1>1 DEF EdgesAt, OneSignalMore
<1>4. Tag(raw, n) = <<s.raw, a.signals + 1>>
  BY <1>1 DEF Tag, EdgesAt, OneSignalMore, CountsExact
<1>5. b.top = Pushed(a.top, <<s.raw, a.signals + 1>>)
  BY <1>0 DEF SignalCounted
<1> HIDE DEF raw, S, T, n
<1>6. Tagged(EdgesAt(sig), BestOf(EdgesAt(sig), S)) = Tagged(raw, BestOf(raw, S))
  BY <1>3, BestSame
<1>7. a.top = Tagged(raw, BestOf(raw, S))
  BY <1>6 DEF TopExact, S
<1>8. Pushed(Tagged(raw, BestOf(raw, S)), Tag(raw, n)) = Tagged(raw, BestOf(raw, T))
  BY <1>2, PushedOK
<1> QED  BY <1>4, <1>5, <1>7, <1>8 DEF TopExact, raw, T

-----------------------------------------------------------------------------
\* What the accumulator has of the latency lines is what their file has

Ghosts == {l \in LineSet : l.ghost}
LinesOf(c) == {l \in LineSet : l.cycle = c}
GhostsOf(c) == {l \in LineSet : l.cycle = c /\ l.ghost}
AliveAt(b) == {l \in LineSet : l.checks[b].profitable}
LateAtCheck(b) == {l \in LineSet : Lateness(l, b) > Tolerance}

BucketExact(bucket, b, lines) ==
    /\ bucket.samples = Cardinality(lines)
    /\ bucket.profitable = Cardinality(lines \cap AliveAt(b))
    /\ bucket.late = Cardinality(lines \cap LateAtCheck(b))
    /\ bucket.lateness = StatsOf([l \in lines |-> Lateness(l, b)])

LatencyExact(a, lines) ==
    /\ a.latency = Cardinality(lines)
    /\ a.ghosts = Cardinality(lines \cap Ghosts)
    /\ a.lifetime = StatsOf([l \in lines |-> l.lifetime])
    /\ \A b \in Buckets : BucketExact(a.buckets[b], b, lines)
    /\ \A c \in Cycles : /\ a.cycles[c].followUps = Cardinality(lines \cap LinesOf(c))
                         /\ a.cycles[c].ghosts = Cardinality(lines \cap GhostsOf(c))

LinesOK(lines) == IsFiniteSet(lines) /\ lines \subseteq LineSet

\* more is lines with a line more.
OneLineMore(lines, line, more) ==
    /\ LinesOK(lines) /\ line \in LineSet /\ line \notin lines /\ more = lines \cup {line}

(* A count of latency lines grows by the line, if it is counted.            *)
LEMMA LinesCount ==
    ASSUME NEW lines, NEW line, NEW more, OneLineMore(lines, line, more), NEW P
    PROVE  /\ Cardinality(more \cap P) = Cardinality(lines \cap P) + Bit(line \in P)
           /\ Cardinality(lines \cap P) \in Nat
<1> DEFINE A == lines \cap P
           B == more \cap P
<1>1. /\ A \subseteq lines /\ B = (IF line \in B THEN A \cup {line} ELSE A)
      /\ (line \in B <=> line \in P) /\ IsFiniteSet(lines) /\ line \notin lines
  BY DEF OneLineMore, LinesOK
<1> HIDE DEF A, B
<1>2. Cardinality(B) = Cardinality(A) + Bit(line \in B) /\ Cardinality(A) \in Nat
  BY <1>1, FilterGrows
<1>3. Bit(line \in B) = Bit(line \in P)
  BY <1>1 DEF Bit
<1> QED  BY <1>2, <1>3 DEF A, B

(* There is one line more.                                                  *)
LEMMA LinesNumber ==
    ASSUME NEW lines, NEW line, NEW more, OneLineMore(lines, line, more)
    PROVE  Cardinality(more) = Cardinality(lines) + 1 /\ Cardinality(lines) \in Nat
BY FS_AddElement, FS_CardinalityType DEF OneLineMore, LinesOK

(* Statistics of latency lines see the line's value.                        *)
LEMMA LineStats ==
    ASSUME NEW lines, NEW line, NEW more, OneLineMore(lines, line, more),
           NEW f, NEW h, f \in [lines -> Int], h \in [more -> Int],
           \A l \in lines : f[l] = h[l]
    PROVE  StatsOf(h) = Seen(StatsOf(f), h[line])
<1>1. OneValueMore(lines, more, f, h, line)
  BY DEF OneValueMore, OneLineMore, LinesOK
<1> QED  BY <1>1, StatsGrow

(* A bucket stays exact when a line is observed.                            *)
LEMMA BucketGrows ==
    ASSUME NEW bucket \in BucketSet, NEW b \in Buckets,
           NEW lines, NEW line, NEW more, OneLineMore(lines, line, more),
           BucketExact(bucket, b, lines)
    PROVE  BucketExact(BucketSeen(bucket, line, b), b, more)
<1> DEFINE new == BucketSeen(bucket, line, b)
           f == [l \in lines |-> Lateness(l, b)]
           h == [l \in more |-> Lateness(l, b)]
<1>1. /\ new.samples = bucket.samples + 1
      /\ new.profitable = bucket.profitable + Bit(line.checks[b].profitable)
      /\ new.late = bucket.late + Bit(Lateness(line, b) > Tolerance)
      /\ new.lateness = Seen(bucket.lateness, Lateness(line, b))
  BY DEF BucketSeen, BucketSet
<1>2. /\ Bit(line.checks[b].profitable) = Bit(line \in AliveAt(b))
      /\ Bit(Lateness(line, b) > Tolerance) = Bit(line \in LateAtCheck(b))
  BY DEF Bit, AliveAt, LateAtCheck, OneLineMore
<1>3. StatsOf(h) = Seen(StatsOf(f), h[line])
  <2>1. \A l \in more : Lateness(l, b) \in Int
    BY LineParts DEF OneLineMore, LinesOK
  <2>2. lines \subseteq more
    BY DEF OneLineMore
  <2>3. f \in [lines -> Int] /\ h \in [more -> Int] /\ \A l \in lines : f[l] = h[l]
    BY <2>1, <2>2
  <2> HIDE DEF f, h
  <2> QED  BY <2>3, LineStats
<1>4. h[line] = Lateness(line, b)
  BY DEF OneLineMore
<1> HIDE DEF new
<1>5. /\ Cardinality(more) = Cardinality(lines) + 1
      /\ Cardinality(more \cap AliveAt(b)) = Cardinality(lines \cap AliveAt(b)) + Bit(line \in AliveAt(b))
      /\ Cardinality(more \cap LateAtCheck(b)) =
             Cardinality(lines \cap LateAtCheck(b)) + Bit(line \in LateAtCheck(b))
  BY LinesNumber, LinesCount
<1>6. BucketExact(new, b, more)
  BY <1>1, <1>2, <1>3, <1>4, <1>5 DEF BucketExact
<1> QED  BY <1>6 DEF new

\* b is a with a latency line more.
LatencyStep(a, line, b) == a \in AccSet /\ line \in LineSet /\ b = LatencyObserved(a, line)

LatencyCounted(a, line, b) ==
    /\ b.records = a.records + 1 /\ b.latency = a.latency + 1
    /\ b.ghosts = a.ghosts + Bit(line.ghost)
    /\ b.lifetime = Seen(a.lifetime, line.lifetime)
    /\ b.buckets = [x \in Buckets |-> BucketSeen(a.buckets[x], line, x)]
    /\ b.cycles = [a.cycles EXCEPT ![line.cycle] = CycleFollowed(@, line)]

SignalsKept(a, b) ==
    /\ \A f \in {"signals", "feeProfitable", "depthProfitable", "pessimistic",
                 "nonExecutable", "rejected", "raw", "net", "realistic", "pnl",
                 "breakEven", "staleness", "sensitivity", "top"} : b[f] = a[f]
    /\ \A c \in Cycles : \A f \in {"signals", "pnl", "raw", "net", "positive"} :
           b.cycles[c][f] = a.cycles[c][f]

(* LatencyObserved field by field; signals' figures are kept.               *)
LEMMA LatencyFieldsOK ==
    ASSUME NEW a, NEW line, NEW b, LatencyStep(a, line, b)
    PROVE  LatencyCounted(a, line, b) /\ SignalsKept(a, b) /\ b \in AccSet
           /\ \A f \in {"resyncs", "gaps", "sample", "checkpoints", "positive"} : b[f] = a[f]
<1>1. LatencyCounted(a, line, b)
  BY DEF LatencyCounted, LatencyStep, AccSet, LatencyObserved
<1>2. \A f \in {"signals", "feeProfitable", "depthProfitable", "pessimistic",
                "nonExecutable", "rejected", "raw", "net", "realistic", "pnl",
                "breakEven", "staleness", "sensitivity", "top",
                "resyncs", "gaps", "sample", "checkpoints", "positive"} : b[f] = a[f]
  BY ZenonT(40) DEF LatencyStep, AccSet, LatencyObserved
<1>3. a.cycles \in [Cycles -> CycleSet] /\ a.buckets \in [Buckets -> BucketSet]
      /\ a.lifetime \in StatsSet /\ a.ghosts \in Nat /\ a.records \in Nat /\ a.latency \in Nat
  BY DEF LatencyStep, AccSet
<1> DEFINE new(c) == CycleFollowed(c, line)
<1>4. ASSUME NEW c \in CycleSet
      PROVE  /\ new(c) \in CycleSet
             /\ \A f \in {"signals", "pnl", "raw", "net", "positive"} : new(c)[f] = c[f]
  <2>1. c.followUps + 1 \in Nat /\ c.ghosts + Bit(line.ghost) \in Nat
    BY DEF CycleSet, Bit
  <2> QED  BY <2>1 DEF CycleSet, CycleFollowed
<1>5. b.cycles = [a.cycles EXCEPT ![line.cycle] = new(a.cycles[line.cycle])]
  BY <1>1, <1>3, LineParts DEF LatencyCounted, LatencyStep
<1>6. line.cycle \in Cycles /\ line.lifetime \in Int
  BY LineParts DEF LatencyStep
<1> HIDE DEF new
<1>7. /\ b.cycles \in [Cycles -> CycleSet]
      /\ \A c \in Cycles : \A f \in {"signals", "pnl", "raw", "net", "positive"} :
             b.cycles[c][f] = a.cycles[c][f]
  BY <1>3, <1>4, <1>5, <1>6
<1>8. b.buckets \in [Buckets -> BucketSet]
  <2>1. ASSUME NEW x \in Buckets PROVE BucketSeen(a.buckets[x], line, x) \in BucketSet
    <3> DEFINE old == a.buckets[x]
    <3>1. old \in BucketSet
      BY <1>3
    <3>2. Lateness(line, x) \in Int
      BY LineParts DEF LatencyStep
    <3> HIDE DEF old
    <3>3. Seen(old.lateness, Lateness(line, x)) \in StatsSet
      BY <3>1, <3>2, SeenType DEF BucketSet
    <3>4. /\ old.samples + 1 \in Nat
          /\ old.profitable + Bit(line.checks[x].profitable) \in Nat
          /\ old.late + Bit(Lateness(line, x) > Tolerance) \in Nat
      BY <3>1 DEF BucketSet, Bit
    <3>5. BucketSeen(old, line, x) \in BucketSet
      BY <3>1, <3>3, <3>4 DEF BucketSet, BucketSeen
    <3> QED  BY <3>5 DEF old
  <2> QED  BY <2>1, <1>1 DEF LatencyCounted
<1>9. b.records \in Nat /\ b.latency \in Nat /\ b.ghosts \in Nat /\ b.lifetime \in StatsSet
  <2>1. Seen(a.lifetime, line.lifetime) \in StatsSet
    BY <1>3, <1>6, SeenType
  <2>2. a.ghosts + Bit(line.ghost) \in Nat /\ a.records + 1 \in Nat /\ a.latency + 1 \in Nat
    BY <1>3 DEF Bit
  <2> QED  BY <1>1, <2>1, <2>2 DEF LatencyCounted
<1>10. b \in AccSet
  BY <1>1, <1>2, <1>7, <1>8, <1>9 DEF LatencyStep, AccSet, LatencyObserved
<1>11. SignalsKept(a, b)
  BY <1>2, <1>7 DEF SignalsKept
<1> QED  BY <1>1, <1>2, <1>10, <1>11

(* What is known of latency lines stays exact.                              *)
LEMMA LatencyGrows ==
    ASSUME NEW a, NEW line, NEW b, LatencyStep(a, line, b),
           NEW lines, NEW more, OneLineMore(lines, line, more), LatencyExact(a, lines)
    PROVE  LatencyExact(b, more)
<1>1. LatencyCounted(a, line, b)
  BY LatencyFieldsOK
<1>2. a.cycles \in [Cycles -> CycleSet] /\ a.buckets \in [Buckets -> BucketSet]
  BY DEF LatencyStep, AccSet
<1>3. b.latency = Cardinality(more)
  BY <1>1, LinesNumber DEF LatencyCounted, LatencyExact
<1>4. b.ghosts = Cardinality(more \cap Ghosts)
  <2>1. Cardinality(more \cap Ghosts) = Cardinality(lines \cap Ghosts) + Bit(line \in Ghosts)
    BY LinesCount
  <2>2. Bit(line \in Ghosts) = Bit(line.ghost)
    BY DEF Ghosts, Bit, OneLineMore
  <2> QED  BY <1>1, <2>1, <2>2 DEF LatencyCounted, LatencyExact
<1>5. b.lifetime = StatsOf([l \in more |-> l.lifetime])
  <2> DEFINE f == [l \in lines |-> l.lifetime]
             h == [l \in more |-> l.lifetime]
  <2>1. \A l \in more : l.lifetime \in Int
    BY LineParts DEF OneLineMore, LinesOK
  <2>2. lines \subseteq more /\ line \in more
    BY DEF OneLineMore
  <2>3. f \in [lines -> Int] /\ h \in [more -> Int] /\ (\A l \in lines : f[l] = h[l])
        /\ h[line] = line.lifetime
    BY <2>1, <2>2
  <2>4. b.lifetime = Seen(StatsOf(f), line.lifetime)
    BY <1>1 DEF LatencyCounted, LatencyExact
  <2> HIDE DEF f, h
  <2>5. StatsOf(h) = Seen(StatsOf(f), h[line])
    BY <2>3, LineStats
  <2> QED  BY <2>3, <2>4, <2>5 DEF h
<1>6. ASSUME NEW x \in Buckets PROVE BucketExact(b.buckets[x], x, more)
  <2>1. b.buckets[x] = BucketSeen(a.buckets[x], line, x)
    BY <1>1 DEF LatencyCounted
  <2>2. a.buckets[x] \in BucketSet /\ BucketExact(a.buckets[x], x, lines)
    BY <1>2 DEF LatencyExact
  <2> QED  BY <2>1, <2>2, BucketGrows
<1>7. ASSUME NEW c \in Cycles
      PROVE  /\ b.cycles[c].followUps = Cardinality(more \cap LinesOf(c))
             /\ b.cycles[c].ghosts = Cardinality(more \cap GhostsOf(c))
  <2>1. /\ Cardinality(more \cap LinesOf(c)) = Cardinality(lines \cap LinesOf(c)) + Bit(line \in LinesOf(c))
        /\ Cardinality(more \cap GhostsOf(c)) = Cardinality(lines \cap GhostsOf(c)) + Bit(line \in GhostsOf(c))
        /\ Cardinality(lines \cap LinesOf(c)) \in Nat /\ Cardinality(lines \cap GhostsOf(c)) \in Nat
    <3>1. \A P : /\ Cardinality(more \cap P) = Cardinality(lines \cap P) + Bit(line \in P)
                 /\ Cardinality(lines \cap P) \in Nat
      BY LinesCount
    <3> QED  BY <3>1
  <2>2. /\ a.cycles[c].followUps = Cardinality(lines \cap LinesOf(c))
        /\ a.cycles[c].ghosts = Cardinality(lines \cap GhostsOf(c))
        /\ a.cycles[c] \in CycleSet
    BY <1>2 DEF LatencyExact
  <2>3. line \in LineSet
    BY DEF OneLineMore
  <2>4. CASE line.cycle = c
    <3>1. /\ b.cycles[c].followUps = a.cycles[c].followUps + 1
          /\ b.cycles[c].ghosts = a.cycles[c].ghosts + Bit(line.ghost)
      <4>1. b.cycles[c] = CycleFollowed(a.cycles[c], line)
        BY <1>1, <1>2, <2>4 DEF LatencyCounted
      <4> QED  BY <4>1, <2>2 DEF CycleSet, CycleFollowed
    <3>2. Bit(line \in LinesOf(c)) = 1 /\ Bit(line \in GhostsOf(c)) = Bit(line.ghost)
      BY <2>3, <2>4 DEF Bit, LinesOf, GhostsOf
    <3> QED  BY <2>1, <2>2, <3>1, <3>2
  <2>5. CASE line.cycle # c
    <3>1. b.cycles[c] = a.cycles[c]
      BY <1>1, <1>2, <2>5 DEF LatencyCounted
    <3>2. Bit(line \in LinesOf(c)) = 0 /\ Bit(line \in GhostsOf(c)) = 0
      BY <2>5 DEF Bit, LinesOf, GhostsOf
    <3> QED  BY <2>1, <2>2, <3>1, <3>2
  <2> QED  BY <2>4, <2>5
<1> QED  BY <1>3, <1>4, <1>5, <1>6, <1>7 DEF LatencyExact

-----------------------------------------------------------------------------
\* Health lines, and the invariant

CountersOf(health, name) == {0} \cup {health[i][name] : i \in DOMAIN health}

HealthExact(a, health) ==
    /\ a.resyncs = Max(CountersOf(health, "resyncs"))
    /\ a.gaps = Max(CountersOf(health, "gaps"))

HealthOK(health) ==
    /\ health \in Seq(Healths)
    /\ \A name \in {"resyncs", "gaps"} :
        IsFiniteSet(CountersOf(health, name)) /\ CountersOf(health, name) \subseteq Nat

DiskSet == [signals : Seq(Signals), ids : Seq(Ids), latency : SUBSET LineSet,
            health : Seq(Healths)]

DiskOK(d) ==
    /\ d \in DiskSet /\ Len(d.ids) = Len(d.signals)
    /\ LinesOK(d.latency) /\ HealthOK(d.health)
    /\ \A i, j \in DOMAIN d.ids : d.ids[i] = d.ids[j] => i = j
    /\ \A l, m \in d.latency : l.id = m.id => l = m

SignalsExact(a, sig) ==
    CountsExact(a, sig) /\ ValuesExact(a, sig) /\ TopExact(a, sig) /\ CyclesExact(a, sig)

LinesExact(a, d) ==
    a.records = Len(d.signals) + Cardinality(d.latency) + Len(d.health)

Exact(a, d) ==
    /\ SignalsExact(a, d.signals) /\ LatencyExact(a, d.latency)
    /\ HealthExact(a, d.health) /\ LinesExact(a, d)

PublishedExact(a, p) ==
    p \in Seq(BOOLEAN) /\ a.positive = Cardinality({i \in DOMAIN p : p[i]})

ReportInv == acc \in AccSet /\ DiskOK(disk) /\ Exact(acc, disk) /\ PublishedExact(acc, published)

(* The greatest counter of health lines grows with the line.                *)
LEMMA CountersGrow ==
    ASSUME NEW health, HealthOK(health), NEW h \in Healths
    PROVE  /\ HealthOK(Append(health, h))
           /\ \A name \in {"resyncs", "gaps"} :
                Max(CountersOf(Append(health, h), name)) = Max({Max(CountersOf(health, name)), h[name]})
<1>1. /\ Append(health, h) \in Seq(Healths) /\ health \in Seq(Healths)
      /\ Len(Append(health, h)) = Len(health) + 1 /\ Len(health) \in Nat
  BY DEF HealthOK
<1>2. /\ DOMAIN Append(health, h) = DOMAIN health \cup {Len(health) + 1}
      /\ Append(health, h)[Len(health) + 1] = h
      /\ \A i \in DOMAIN health : Append(health, h)[i] = health[i]
  BY <1>1
<1> DEFINE more == Append(health, h)
<1> HIDE DEF more
<1>3. ASSUME NEW name \in {"resyncs", "gaps"}
      PROVE  /\ IsFiniteSet(CountersOf(more, name)) /\ CountersOf(more, name) \subseteq Nat
             /\ Max(CountersOf(more, name)) = Max({Max(CountersOf(health, name)), h[name]})
  <2> DEFINE old == CountersOf(health, name)
  <2>1. CountersOf(more, name) = old \cup {h[name]}
    BY <1>2 DEF CountersOf, more
  <2>2. IsFiniteSet(old) /\ old \in SUBSET Nat /\ 0 \in old
    BY DEF HealthOK, CountersOf
  <2>3. h[name] \in Nat
    BY ReportAssumption
  <2> HIDE DEF old
  <2>4. old \in SUBSET Int /\ old # {} /\ h[name] \in Int
    BY <2>2, <2>3
  <2>5. IsFiniteSet(old \cup {h[name]}) /\ old \cup {h[name]} \subseteq Nat
    BY <2>2, <2>3, FS_AddElement
  <2>6. Max(old \cup {h[name]}) = Max({Max(old), h[name]})
    BY <2>2, <2>4, MaxMinGrow
  <2> QED  BY <2>1, <2>5, <2>6 DEF old
<1> QED  BY <1>1, <1>3 DEF HealthOK, more

-----------------------------------------------------------------------------
\* The initial state

(* An empty file counts nothing and has no value.                           *)
LEMMA NothingHeld ==
    /\ \A P : Cardinality(Holding(<<>>, P)) = 0
    /\ \A value, P : StatsOf(Values(<<>>, value, P)) = NoStats
<1>1. DOMAIN <<>> = {}
  OBVIOUS
<1>2. ASSUME NEW P PROVE Cardinality(Holding(<<>>, P)) = 0
  <2>1. Holding(<<>>, P) = {}
    BY <1>1 DEF Holding
  <2> QED  BY <2>1, FS_EmptySet
<1>3. ASSUME NEW value, NEW P PROVE StatsOf(Values(<<>>, value, P)) = NoStats
  <2> DEFINE f == Values(<<>>, value, P)
  <2>1. f \in [{} -> Int]
    BY <1>1 DEF Values
  <2>2. f = <<>>
    <3> HIDE DEF f
    <3> QED  BY <2>1, NoValues
  <2> QED  BY <2>2 DEF StatsOf
<1> QED  BY <1>2, <1>3

(* The empty accumulator is exact of no signals,                            *)
LEMMA InitSignals == SignalsExact(Empty, <<>>)
<1>1. CountsExact(Empty, <<>>)
  BY NothingHeld DEF CountsExact, Empty
<1>2. ValuesExact(Empty, <<>>)
  BY NothingHeld DEF ValuesExact, Empty
<1>3. TopExact(Empty, <<>>)
  <2>1. BestOf(EdgesAt(<<>>), DOMAIN <<>>) = {}
    BY DEF BestOf
  <2> QED  BY <2>1 DEF TopExact, Empty, Tagged
<1>4. CyclesExact(Empty, <<>>)
  BY NothingHeld DEF CyclesExact, CycleExact, Empty, NoCycle
<1> QED  BY <1>1, <1>2, <1>3, <1>4 DEF SignalsExact

(* and of no latency lines.                                                 *)
LEMMA InitLatency == LatencyExact(Empty, {})
<1>1. ASSUME NEW P PROVE Cardinality({} \cap P) = 0 /\ Cardinality({}) = 0
  <2>1. {} \cap P = {}
    OBVIOUS
  <2> QED  BY <2>1, FS_EmptySet
<1>2. ASSUME NEW f, f \in [{} -> Int] PROVE StatsOf(f) = NoStats
  BY <1>2, NoValues DEF StatsOf
<1>3. /\ StatsOf([l \in {} |-> l.lifetime]) = NoStats
      /\ \A b : StatsOf([l \in {} |-> Lateness(l, b)]) = NoStats
  <2>1. [l \in {} |-> l.lifetime] \in [{} -> Int]
    OBVIOUS
  <2>2. \A b : [l \in {} |-> Lateness(l, b)] \in [{} -> Int]
    OBVIOUS
  <2> QED  BY <1>2, <2>1, <2>2
<1>4. \A b \in Buckets : BucketExact(Empty.buckets[b], b, {})
  BY <1>1, <1>3 DEF BucketExact, Empty, NoBucket
<1> QED  BY <1>1, <1>3, <1>4 DEF LatencyExact, Empty, NoCycle

(* A run starts exact.                                                      *)
LEMMA InitReport == Init => ReportInv
<1> SUFFICES ASSUME Init PROVE ReportInv
  OBVIOUS
<1>1. disk = [signals |-> <<>>, ids |-> <<>>, latency |-> {}, health |-> <<>>]
      /\ acc = Empty /\ published = <<>>
  BY DEF Init
<1>2. \A name : CountersOf(<<>>, name) = {0}
  BY DEF CountersOf
<1>3. IsFiniteSet({}) /\ Cardinality({}) = 0 /\ IsFiniteSet({0}) /\ Max({0}) = 0
  <2>1. IsFiniteSet({0})
    BY FS_Singleton
  <2>2. Max({0}) = 0
    BY MaxMinFew
  <2> QED  BY <2>1, <2>2, FS_EmptySet
<1>4. DiskOK(disk)
  <2>1. HealthOK(<<>>)
    <3>1. <<>> \in Seq(Healths)
      OBVIOUS
    <3>2. ASSUME NEW name \in {"resyncs", "gaps"}
          PROVE  IsFiniteSet(CountersOf(<<>>, name)) /\ CountersOf(<<>>, name) \subseteq Nat
      <4>1. CountersOf(<<>>, name) = {0}
        BY <1>2
      <4>2. IsFiniteSet({0}) /\ {0} \subseteq Nat
        BY <1>3
      <4> QED  BY <4>1, <4>2, Zenon
    <3> QED  BY <3>1, <3>2 DEF HealthOK
  <2>2. LinesOK({})
    BY <1>3 DEF LinesOK
  <2>3. <<>> \in Seq(Signals) /\ <<>> \in Seq(Ids) /\ <<>> \in Seq(Healths) /\ DOMAIN <<>> = {}
    OBVIOUS
  <2>4. disk \in DiskSet
    BY <1>1, <2>3 DEF DiskSet
  <2>5. \A i, j \in DOMAIN disk.ids : disk.ids[i] = disk.ids[j] => i = j
    BY <1>1, <2>3
  <2>6. disk.latency = {} /\ disk.health = <<>> /\ disk.signals = <<>> /\ disk.ids = <<>>
    BY <1>1
  <2> QED  BY <2>1, <2>2, <2>4, <2>5, <2>6 DEF DiskOK
<1>5. HealthExact(acc, disk.health) /\ LinesExact(acc, disk)
  <2>1. CountersOf(<<>>, "resyncs") = {0} /\ CountersOf(<<>>, "gaps") = {0}
    BY <1>2
  <2>2. acc.resyncs = 0 /\ acc.gaps = 0 /\ acc.records = 0
    BY <1>1 DEF Empty
  <2>3. disk.health = <<>> /\ disk.signals = <<>> /\ disk.latency = {} /\ Len(<<>>) = 0
    BY <1>1
  <2>4. HealthExact(acc, disk.health)
    BY <1>3, <2>1, <2>2, <2>3, Zenon DEF HealthExact
  <2>5. Len(disk.signals) = 0 /\ Cardinality(disk.latency) = 0 /\ Len(disk.health) = 0
    BY <1>3, <2>3
  <2>6. LinesExact(acc, disk)
    BY <2>2, <2>5 DEF LinesExact
  <2> QED  BY <2>4, <2>6
<1>6. PublishedExact(acc, published)
  <2>1. {i \in DOMAIN published : published[i]} = {}
    BY <1>1
  <2> QED  BY <1>1, <1>3, <2>1 DEF PublishedExact, Empty
<1> QED  BY <1>1, <1>4, <1>5, <1>6, EmptyType, InitSignals, InitLatency DEF ReportInv, Exact

-----------------------------------------------------------------------------
\* The steps

(* A signal leaves what is known of latency lines.                          *)
LEMMA SignalKeepsLines ==
    ASSUME NEW a, NEW s, NEW sample, NEW b, SignalStep(a, s, sample, b), NEW lines,
           LatencyExact(a, lines)
    PROVE  LatencyExact(b, lines)
<1>1. SignalCounted(a, s, sample, b) /\ a \in AccSet /\ s \in Signals
  BY SignalFields DEF SignalStep
<1>2. b.latency = a.latency /\ b.ghosts = a.ghosts /\ b.lifetime = a.lifetime
      /\ b.buckets = a.buckets /\ b.cycles = [a.cycles EXCEPT ![s.cycle] = CycleSeen(@, s)]
  BY <1>1 DEF SignalCounted
<1>3. a.cycles \in [Cycles -> CycleSet]
  BY <1>1 DEF AccSet
<1>4. ASSUME NEW c \in Cycles
      PROVE  b.cycles[c].ghosts = a.cycles[c].ghosts /\ b.cycles[c].followUps = a.cycles[c].followUps
  <2>1. CASE c = s.cycle
    <3>1. b.cycles[c] = CycleSeen(a.cycles[c], s) /\ a.cycles[c] \in CycleSet
      BY <1>2, <1>3, <2>1
    <3>2. /\ CycleSeen(a.cycles[c], s).ghosts = a.cycles[c].ghosts
          /\ CycleSeen(a.cycles[c], s).followUps = a.cycles[c].followUps
      BY <1>1, <3>1, CycleSeenFields
    <3> QED  BY <3>1, <3>2
  <2>2. CASE c # s.cycle
    BY <1>2, <1>3, <2>2
  <2> QED  BY <2>1, <2>2
<1> QED  BY <1>2, <1>4 DEF LatencyExact

(* Recording a signal keeps the invariant.                                  *)
LEMMA RecordSignalInv ==
    ASSUME ReportInv, NEW id \in Ids, NEW s \in Signals, RecordSignal(id, s)
    PROVE  ReportInv'
<1>1. PICK sample \in Samples(acc.sample, s) : acc' = SignalObserved(acc, s, sample)
  BY DEF RecordSignal
<1>2. /\ acc \in AccSet /\ DiskOK(disk) /\ Exact(acc, disk) /\ PublishedExact(acc, published)
      /\ disk' = [disk EXCEPT !.signals = Append(@, s), !.ids = Append(@, id)]
      /\ published' = published /\ \A i \in Places : disk.ids[i] # id
  BY DEF ReportInv, RecordSignal
<1>3. acc' \in AccSet
  BY <1>1, <1>2, SignalObservedType
<1>4. SignalStep(acc, s, sample, acc')
  BY <1>1, <1>2 DEF SignalStep
<1>5. SignalCounted(acc, s, sample, acc')
  BY <1>4, SignalFields
<1>6. /\ disk \in DiskSet
      /\ disk'.signals = Append(disk.signals, s) /\ disk'.ids = Append(disk.ids, id)
      /\ disk'.latency = disk.latency /\ disk'.health = disk.health
      /\ disk' \in DiskSet
  <2>1. disk \in DiskSet
    BY <1>2 DEF DiskOK
  <2>2. Append(disk.signals, s) \in Seq(Signals) /\ Append(disk.ids, id) \in Seq(Ids)
    BY <2>1 DEF DiskSet
  <2> QED  BY <1>2, <2>1, <2>2 DEF DiskSet
<1>7. DiskOK(disk')
  <2>1. disk.signals \in Seq(Signals) /\ disk.ids \in Seq(Ids) /\ Len(disk.ids) = Len(disk.signals)
    BY <1>2, <1>6 DEF DiskSet, DiskOK
  <2>2. DOMAIN disk.ids = Places
    BY <2>1 DEF Places
  <2>3. Len(disk'.ids) = Len(disk'.signals)
    BY <1>6, <2>1
  <2>4. ASSUME NEW i \in DOMAIN disk'.ids, NEW j \in DOMAIN disk'.ids, disk'.ids[i] = disk'.ids[j]
        PROVE  i = j
    <3>1. /\ DOMAIN disk'.ids = 1..(Len(disk.ids) + 1) /\ DOMAIN disk.ids = 1..Len(disk.ids)
          /\ \A k \in 1..Len(disk.ids) : disk'.ids[k] = disk.ids[k]
          /\ disk'.ids[Len(disk.ids) + 1] = id
      BY <1>6, <2>1
    <3>2. \A k, l \in DOMAIN disk.ids : disk.ids[k] = disk.ids[l] => k = l
      BY <1>2 DEF DiskOK
    <3>3. \A k \in DOMAIN disk.ids : disk.ids[k] # id
      BY <1>2, <2>2
    <3>4. i \in DOMAIN disk.ids \/ i = Len(disk.ids) + 1
      BY <3>1, <2>1
    <3>5. j \in DOMAIN disk.ids \/ j = Len(disk.ids) + 1
      BY <3>1, <2>1
    <3> QED  BY <2>4, <3>1, <3>2, <3>3, <3>4, <3>5
  <2>5. LinesOK(disk'.latency) /\ HealthOK(disk'.health)
        /\ \A l, m \in disk'.latency : l.id = m.id => l = m
    BY <1>2, <1>6 DEF DiskOK
  <2> QED  BY <1>6, <2>3, <2>4, <2>5 DEF DiskOK
<1>8. SignalsExact(acc', disk'.signals)
  <2>1. /\ CountsExact(acc, disk.signals) /\ ValuesExact(acc, disk.signals)
        /\ TopExact(acc, disk.signals) /\ CyclesExact(acc, disk.signals)
    BY <1>2 DEF Exact, SignalsExact
  <2>2. SignalRecorded(acc, s, sample, acc', disk.signals, disk'.signals)
    BY <1>4, <1>6 DEF SignalRecorded, DiskSet
  <2>3. CountsExact(acc', disk'.signals)
    BY <2>1, <2>2, CountsGrow
  <2>4. ValuesExact(acc', disk'.signals)
    BY <2>1, <2>2, ValuesGrowAll
  <2>5. TopExact(acc', disk'.signals)
    BY <2>1, <2>2, TopGrows
  <2>6. CyclesExact(acc', disk'.signals)
    BY <2>1, <2>2, CyclesGrow
  <2> QED  BY <2>3, <2>4, <2>5, <2>6 DEF SignalsExact
<1>9. LatencyExact(acc', disk'.latency)
  <2>1. LatencyExact(acc, disk.latency)
    BY <1>2 DEF Exact
  <2>2. LatencyExact(acc', disk.latency)
    BY <1>4, <2>1, SignalKeepsLines
  <2> QED  BY <2>2, <1>6
<1>10. HealthExact(acc', disk'.health)
  <2>1. acc'.resyncs = acc.resyncs /\ acc'.gaps = acc.gaps
    BY <1>5 DEF SignalCounted
  <2> QED  BY <1>2, <1>6, <2>1 DEF Exact, HealthExact
<1>11. LinesExact(acc', disk')
  <2>1. acc'.records = acc.records + 1
    BY <1>5 DEF SignalCounted
  <2>2. Len(disk'.signals) = Len(disk.signals) + 1 /\ Len(disk.signals) \in Nat
        /\ Len(disk.health) \in Nat
    BY <1>6 DEF DiskSet
  <2>3. Cardinality(disk.latency) \in Nat
    BY <1>2, FS_CardinalityType DEF DiskOK, LinesOK
  <2>4. acc.records = Len(disk.signals) + Cardinality(disk.latency) + Len(disk.health)
    BY <1>2 DEF Exact, LinesExact
  <2>5. acc'.records = Len(disk'.signals) + Cardinality(disk'.latency) + Len(disk'.health)
    BY <1>6, <2>1, <2>2, <2>3, <2>4
  <2> QED  BY <2>5 DEF LinesExact
<1>12. PublishedExact(acc', published')
  <2>1. acc'.positive = acc.positive
    BY <1>5 DEF SignalCounted
  <2> QED  BY <1>2, <2>1 DEF PublishedExact
<1>13. Exact(acc', disk')
  BY <1>8, <1>9, <1>10, <1>11 DEF Exact
<1> QED  BY <1>3, <1>7, <1>12, <1>13 DEF ReportInv

(* What is kept of the signals is exact as before.                          *)
LEMMA KeptSignals ==
    ASSUME NEW a, NEW b, SignalsKept(a, b), NEW sig, SignalsExact(a, sig)
    PROVE  SignalsExact(b, sig)
<1>1. /\ b.signals = a.signals /\ b.feeProfitable = a.feeProfitable
      /\ b.depthProfitable = a.depthProfitable /\ b.pessimistic = a.pessimistic
      /\ b.nonExecutable = a.nonExecutable /\ b.rejected = a.rejected
      /\ b.sensitivity = a.sensitivity /\ b.top = a.top
      /\ b.raw = a.raw /\ b.net = a.net /\ b.realistic = a.realistic /\ b.pnl = a.pnl
      /\ b.breakEven = a.breakEven /\ b.staleness = a.staleness
  BY DEF SignalsKept
<1>2. CountsExact(b, sig)
  BY <1>1 DEF SignalsExact, CountsExact
<1>3. ValuesExact(b, sig)
  BY <1>1 DEF SignalsExact, ValuesExact
<1>4. TopExact(b, sig)
  BY <1>1 DEF SignalsExact, TopExact
<1>5. CyclesExact(b, sig)
  <2> SUFFICES ASSUME NEW c \in Cycles PROVE CycleExact(b.cycles[c], c, sig)
    BY DEF CyclesExact
  <2>1. CycleExact(a.cycles[c], c, sig)
    BY DEF SignalsExact, CyclesExact
  <2>2. /\ b.cycles[c].signals = a.cycles[c].signals /\ b.cycles[c].pnl = a.cycles[c].pnl
        /\ b.cycles[c].raw = a.cycles[c].raw /\ b.cycles[c].net = a.cycles[c].net
        /\ b.cycles[c].positive = a.cycles[c].positive
    BY DEF SignalsKept
  <2> QED  BY <2>1, <2>2 DEF CycleExact
<1> QED  BY <1>2, <1>3, <1>4, <1>5 DEF SignalsExact

(* So does recording a latency line, which is of a signal of its own,       *)
LEMMA RecordLatencyInv ==
    ASSUME ReportInv, NEW id \in Ids, NEW s \in Signals, NEW checks \in Checks,
           RecordLatency(id, s, checks)
    PROVE  ReportInv'
<1> DEFINE line == FollowUp(id, s, checks)
<1>1. /\ acc \in AccSet /\ DiskOK(disk) /\ Exact(acc, disk) /\ PublishedExact(acc, published)
      /\ disk' = [disk EXCEPT !.latency = @ \cup {line}] /\ acc' = LatencyObserved(acc, line)
      /\ published' = published /\ \A l \in disk.latency : l.id # id
  BY DEF ReportInv, RecordLatency
<1>2. line \in LineSet /\ line.id = id
  <2>1. FollowUp(id, s, checks) \in LineSet
    BY FollowUpType
  <2> QED  BY <2>1 DEF FollowUp
<1> HIDE DEF line
<1>3. LatencyStep(acc, line, acc')
  BY <1>1, <1>2 DEF LatencyStep
<1>4. LatencyCounted(acc, line, acc') /\ SignalsKept(acc, acc') /\ acc' \in AccSet
      /\ \A f \in {"resyncs", "gaps", "sample", "checkpoints", "positive"} : acc'[f] = acc[f]
  BY <1>3, LatencyFieldsOK
<1>5. OneLineMore(disk.latency, line, disk.latency \cup {line})
  BY <1>1, <1>2 DEF OneLineMore, DiskOK, DiskSet
<1>6. /\ disk \in DiskSet
      /\ disk'.signals = disk.signals /\ disk'.ids = disk.ids
      /\ disk'.latency = disk.latency \cup {line} /\ disk'.health = disk.health
      /\ disk' \in DiskSet
  BY <1>1, <1>2 DEF DiskOK, DiskSet
<1>7. DiskOK(disk')
  <2>1. LinesOK(disk'.latency)
    BY <1>1, <1>2, <1>6, FS_AddElement DEF DiskOK, LinesOK
  <2>2. /\ Len(disk'.ids) = Len(disk'.signals) /\ HealthOK(disk'.health)
        /\ \A i, j \in DOMAIN disk'.ids : disk'.ids[i] = disk'.ids[j] => i = j
    BY <1>1, <1>6 DEF DiskOK
  <2>3. \A l, m \in disk'.latency : l.id = m.id => l = m
    BY <1>1, <1>2, <1>6 DEF DiskOK
  <2> QED  BY <1>6, <2>1, <2>2, <2>3 DEF DiskOK
<1>8. SignalsExact(acc', disk'.signals)
  <2>1. SignalsExact(acc, disk.signals)
    BY <1>1 DEF Exact
  <2> QED  BY <1>4, <1>6, <2>1, KeptSignals
<1>9. LatencyExact(acc', disk'.latency)
  <2>1. LatencyExact(acc, disk.latency)
    BY <1>1 DEF Exact
  <2> QED  BY <1>3, <1>5, <1>6, <2>1, LatencyGrows
<1>10. HealthExact(acc', disk'.health)
  BY <1>1, <1>4, <1>6 DEF Exact, HealthExact
<1>11. LinesExact(acc', disk')
  <2>1. acc'.records = acc.records + 1
    BY <1>4 DEF LatencyCounted
  <2>2. Len(disk.signals) \in Nat /\ Len(disk.health) \in Nat
    BY <1>6 DEF DiskSet
  <2>3. Cardinality(disk'.latency) = Cardinality(disk.latency) + 1 /\ Cardinality(disk.latency) \in Nat
    BY <1>5, <1>6, LinesNumber
  <2>4. acc.records = Len(disk.signals) + Cardinality(disk.latency) + Len(disk.health)
    BY <1>1 DEF Exact, LinesExact
  <2>5. acc'.records = Len(disk'.signals) + Cardinality(disk'.latency) + Len(disk'.health)
    BY <1>6, <2>1, <2>2, <2>3, <2>4
  <2> QED  BY <2>5 DEF LinesExact
<1>12. PublishedExact(acc', published')
  BY <1>1, <1>4 DEF PublishedExact
<1>13. Exact(acc', disk')
  BY <1>8, <1>9, <1>10, <1>11 DEF Exact
<1> QED  BY <1>4, <1>7, <1>12, <1>13 DEF ReportInv

(* and recording a health line.                                             *)
LEMMA RecordHealthInv ==
    ASSUME ReportInv, NEW h \in Healths, RecordHealth(h)
    PROVE  ReportInv'
<1>1. /\ acc \in AccSet /\ DiskOK(disk) /\ Exact(acc, disk) /\ PublishedExact(acc, published)
      /\ disk' = [disk EXCEPT !.health = Append(@, h)] /\ acc' = HealthObserved(acc, h)
      /\ published' = published
  BY DEF ReportInv, RecordHealth
<1>2. /\ acc'.records = acc.records + 1
      /\ acc'.resyncs = Max({acc.resyncs, h.resyncs})
      /\ acc'.gaps = Max({acc.gaps, h.gaps})
      /\ \A f \in {"signals", "feeProfitable", "depthProfitable", "pessimistic",
                   "nonExecutable", "rejected", "raw", "net", "realistic", "pnl",
                   "breakEven", "staleness", "sensitivity", "top", "latency", "ghosts",
                   "lifetime", "buckets", "cycles",
                   "sample", "checkpoints", "positive"} : acc'[f] = acc[f]
  BY <1>1 DEF AccSet, HealthObserved
<1>3. /\ disk \in DiskSet
      /\ disk'.signals = disk.signals /\ disk'.latency = disk.latency /\ disk'.ids = disk.ids
      /\ disk'.health = Append(disk.health, h)
      /\ disk' \in DiskSet
  <2>1. disk \in DiskSet
    BY <1>1 DEF DiskOK
  <2>2. Append(disk.health, h) \in Seq(Healths)
    BY <2>1 DEF DiskSet
  <2> QED  BY <1>1, <2>1, <2>2 DEF DiskSet
<1>4. /\ HealthOK(disk'.health)
      /\ \A name \in {"resyncs", "gaps"} :
           Max(CountersOf(disk'.health, name)) = Max({Max(CountersOf(disk.health, name)), h[name]})
  <2>1. HealthOK(disk.health)
    BY <1>1 DEF DiskOK
  <2> QED  BY <1>3, <2>1, CountersGrow
<1>5. HealthExact(acc', disk'.health)
  <2>1. /\ acc.resyncs = Max(CountersOf(disk.health, "resyncs"))
        /\ acc.gaps = Max(CountersOf(disk.health, "gaps"))
    BY <1>1 DEF Exact, HealthExact
  <2> QED  BY <1>2, <1>4, <2>1 DEF HealthExact
<1>6. acc' \in AccSet
  <2>1. acc.records \in Nat /\ acc.resyncs \in Nat /\ acc.gaps \in Nat
        /\ h.resyncs \in Nat /\ h.gaps \in Nat
    BY <1>1, ReportAssumption DEF AccSet
  <2>2. \A m, n \in Nat : Max({m, n}) \in Nat
    <3> SUFFICES ASSUME NEW m \in Nat, NEW n \in Nat PROVE Max({m, n}) \in Nat
      OBVIOUS
    <3>1. {m} \cup {n} = {m, n}
      OBVIOUS
    <3>2. IsFiniteSet({m} \cup {n})
      BY FS_Singleton, FS_AddElement
    <3>3. Max({m, n}) \in {m, n}
      BY <3>1, <3>2, MaxMin
    <3> QED  BY <3>3
  <2>3. Max({acc.resyncs, h.resyncs}) \in Nat /\ Max({acc.gaps, h.gaps}) \in Nat
        /\ acc.records + 1 \in Nat
    BY <2>1, <2>2
  <2> QED  BY <1>1, <2>3, ZenonT(40) DEF AccSet, HealthObserved
<1>7. DiskOK(disk')
  BY <1>1, <1>3, <1>4 DEF DiskOK
<1>8. SignalsExact(acc', disk'.signals)
  <2>1. SignalsKept(acc, acc')
    BY <1>2 DEF SignalsKept
  <2>2. SignalsExact(acc, disk.signals)
    BY <1>1 DEF Exact
  <2> QED  BY <1>3, <2>1, <2>2, KeptSignals
<1>9. LatencyExact(acc', disk'.latency)
  BY <1>1, <1>2, <1>3 DEF Exact, LatencyExact
<1>10. LinesExact(acc', disk')
  <2>1. Len(disk.signals) \in Nat /\ Len(disk.health) \in Nat
        /\ Len(disk'.health) = Len(disk.health) + 1
    BY <1>3 DEF DiskSet
  <2>2. Cardinality(disk.latency) \in Nat
    BY <1>1, FS_CardinalityType DEF DiskOK, LinesOK
  <2>3. acc.records = Len(disk.signals) + Cardinality(disk.latency) + Len(disk.health)
    BY <1>1 DEF Exact, LinesExact
  <2>4. acc'.records = Len(disk'.signals) + Cardinality(disk'.latency) + Len(disk'.health)
    <3>1. disk'.signals = disk.signals /\ disk'.latency = disk.latency
          /\ acc'.records = acc.records + 1
      BY <1>2, <1>3
    <3>2. /\ Len(disk'.signals) = Len(disk.signals)
          /\ Cardinality(disk'.latency) = Cardinality(disk.latency)
      BY <3>1
    <3> DEFINE n == Len(disk.signals)
               m == Cardinality(disk.latency)
               k == Len(disk.health)
    <3>3. n \in Nat /\ m \in Nat /\ k \in Nat /\ acc.records = n + m + k
          /\ Len(disk'.health) = k + 1
      BY <2>1, <2>2, <2>3
    <3> HIDE DEF n, m, k
    <3>4. acc'.records = n + m + (k + 1)
      BY <3>1, <3>3
    <3> QED  BY <3>2, <3>3, <3>4 DEF n, m
  <2> QED  BY <2>4 DEF LinesExact
<1>11. PublishedExact(acc', published')
  BY <1>1, <1>2 DEF PublishedExact
<1>12. Exact(acc', disk')
  BY <1>5, <1>8, <1>9, <1>10 DEF Exact
<1> QED  BY <1>6, <1>7, <1>11, <1>12 DEF ReportInv

-----------------------------------------------------------------------------
\* The figures are those of the files

(* The counts of the accumulator are those of calculate_metrics,            *)
LEMMA RecomputedSignals ==
    ASSUME DiskOK(disk), SignalsExact(acc, disk.signals)
    PROVE  /\ acc.signals = Len(disk.signals)
           /\ acc.feeProfitable = Count(LAMBDA s : s.net > 0)
           /\ acc.depthProfitable = Count(LAMBDA s : Executable(s) /\ s.depth > 0)
           /\ acc.pessimistic = Count(LAMBDA s : s.pessimistic)
           /\ acc.nonExecutable = Count(LAMBDA s : ~Executable(s))
           /\ acc.rejected = Count(LAMBDA s : s.rejected)
           /\ \A c \in FeeCosts : acc.sensitivity[c] = Count(LAMBDA s : s.raw > c)
<1>1. \A i \in Places : disk.signals[i] \in Signals
  BY DEF DiskOK, DiskSet, Places
<1>2. /\ Holding(disk.signals, FeeProfitable) = {i \in Places : disk.signals[i].net > 0}
      /\ Holding(disk.signals, DeepProfitable) =
            {i \in Places : Executable(disk.signals[i]) /\ disk.signals[i].depth > 0}
      /\ Holding(disk.signals, Pessimistic) = {i \in Places : disk.signals[i].pessimistic}
      /\ Holding(disk.signals, NonExecutable) = {i \in Places : ~Executable(disk.signals[i])}
      /\ Holding(disk.signals, RejectedOnes) = {i \in Places : disk.signals[i].rejected}
      /\ \A c : Holding(disk.signals, Above(c)) = {i \in Places : disk.signals[i].raw > c}
  BY <1>1 DEF Places, Holding, FeeProfitable, DeepProfitable, Pessimistic, NonExecutable,
              RejectedOnes, Above
<1>3. CountsExact(acc, disk.signals)
  BY DEF SignalsExact
<1> QED  BY <1>2, <1>3 DEF CountsExact, Count

(* the statistics of signals are statistics of Values,                      *)
LEMMA RecomputedValues ==
    ASSUME DiskOK(disk), NEW P,
           NEW places, places = {i \in Places : disk.signals[i] \in P}
    PROVE  /\ OfSignals(places, LAMBDA s : {s.raw}) = StatsOf(Values(disk.signals, RawOf, P))
           /\ OfSignals(places, LAMBDA s : {s.net}) = StatsOf(Values(disk.signals, NetOf, P))
           /\ OfSignals(places, LAMBDA s : {s.age}) = StatsOf(Values(disk.signals, AgeOf, P))
           /\ OfSignals(places, RealisticEdge) = StatsOf(Values(disk.signals, EdgeOf, P))
           /\ OfSignals(places, Gain) = StatsOf(Values(disk.signals, GainOf, P))
           /\ OfSignals(places, BreakEven) = StatsOf(Values(disk.signals, BreakEvenOf, P))
<1>1. \A i \in Places : disk.signals[i] \in Signals
  BY DEF DiskOK, DiskSet, Places
<1>2. OfSignals(places, LAMBDA s : {s.raw}) = StatsOf(Values(disk.signals, RawOf, P))
  BY <1>1 DEF OfSignals, Values, RawOf, Places
<1>3. OfSignals(places, LAMBDA s : {s.net}) = StatsOf(Values(disk.signals, NetOf, P))
  BY <1>1 DEF OfSignals, Values, NetOf, Places
<1>4. OfSignals(places, LAMBDA s : {s.age}) = StatsOf(Values(disk.signals, AgeOf, P))
  BY <1>1 DEF OfSignals, Values, AgeOf, Places
<1>5. OfSignals(places, RealisticEdge) = StatsOf(Values(disk.signals, EdgeOf, P))
  <2> DEFINE D == {i \in places : RealisticEdge(disk.signals[i]) # {}}
             E == {p \in DOMAIN disk.signals : disk.signals[p] \in P /\ EdgeOf[disk.signals[p]] # {}}
  <2>1. \A i \in Places : EdgeOf[disk.signals[i]] = RealisticEdge(disk.signals[i])
    BY <1>1 DEF EdgeOf
  <2>2. D = E /\ D \subseteq Places
    BY <2>1 DEF Places
  <2>3. OfSignals(places, RealisticEdge) = StatsOf([i \in D |-> AnyOf(RealisticEdge(disk.signals[i]))])
    BY DEF OfSignals, AnyOf
  <2>4. Values(disk.signals, EdgeOf, P) = [i \in E |-> AnyOf(EdgeOf[disk.signals[i]])]
    BY DEF Values, AnyOf
  <2> HIDE DEF D, E
  <2>5. [i \in D |-> AnyOf(RealisticEdge(disk.signals[i]))] = [i \in E |-> AnyOf(EdgeOf[disk.signals[i]])]
    BY <2>1, <2>2
  <2> QED  BY <2>3, <2>4, <2>5
<1>6. OfSignals(places, Gain) = StatsOf(Values(disk.signals, GainOf, P))
  <2> DEFINE D == {i \in places : Gain(disk.signals[i]) # {}}
             E == {p \in DOMAIN disk.signals : disk.signals[p] \in P /\ GainOf[disk.signals[p]] # {}}
  <2>1. \A i \in Places : GainOf[disk.signals[i]] = Gain(disk.signals[i])
    BY <1>1 DEF GainOf
  <2>2. D = E /\ D \subseteq Places
    BY <2>1 DEF Places
  <2>3. OfSignals(places, Gain) = StatsOf([i \in D |-> AnyOf(Gain(disk.signals[i]))])
    BY DEF OfSignals, AnyOf
  <2>4. Values(disk.signals, GainOf, P) = [i \in E |-> AnyOf(GainOf[disk.signals[i]])]
    BY DEF Values, AnyOf
  <2> HIDE DEF D, E
  <2>5. [i \in D |-> AnyOf(Gain(disk.signals[i]))] = [i \in E |-> AnyOf(GainOf[disk.signals[i]])]
    BY <2>1, <2>2
  <2> QED  BY <2>3, <2>4, <2>5
<1>7. OfSignals(places, BreakEven) = StatsOf(Values(disk.signals, BreakEvenOf, P))
  <2> DEFINE D == {i \in places : BreakEven(disk.signals[i]) # {}}
             E == {p \in DOMAIN disk.signals : disk.signals[p] \in P /\ BreakEvenOf[disk.signals[p]] # {}}
  <2>1. \A i \in Places : BreakEvenOf[disk.signals[i]] = BreakEven(disk.signals[i])
    BY <1>1 DEF BreakEvenOf
  <2>2. D = E /\ D \subseteq Places
    BY <2>1 DEF Places
  <2>3. OfSignals(places, BreakEven) = StatsOf([i \in D |-> AnyOf(BreakEven(disk.signals[i]))])
    BY DEF OfSignals, AnyOf
  <2>4. Values(disk.signals, BreakEvenOf, P) = [i \in E |-> AnyOf(BreakEvenOf[disk.signals[i]])]
    BY DEF Values, AnyOf
  <2> HIDE DEF D, E
  <2>5. [i \in D |-> AnyOf(BreakEven(disk.signals[i]))] = [i \in E |-> AnyOf(BreakEvenOf[disk.signals[i]])]
    BY <2>1, <2>2
  <2> QED  BY <2>3, <2>4, <2>5
<1> QED  BY <1>2, <1>3, <1>4, <1>5, <1>6, <1>7

(* and totals of cycles,                                                    *)
LEMMA RecomputedCycles ==
    ASSUME ReportInv
    PROVE  acc.cycles = [c \in Cycles |-> OfCycle(c)]
<1>1. /\ DiskOK(disk) /\ CyclesExact(acc, disk.signals) /\ LatencyExact(acc, disk.latency)
      /\ acc.cycles \in [Cycles -> CycleSet] /\ disk.latency \subseteq LineSet
      /\ \A i \in Places : disk.signals[i] \in Signals
  <2>1. /\ DiskOK(disk) /\ CyclesExact(acc, disk.signals) /\ LatencyExact(acc, disk.latency)
        /\ disk.latency \subseteq LineSet /\ disk.signals \in Seq(Signals)
    BY DEF ReportInv, Exact, SignalsExact, DiskOK, DiskSet, LinesOK
  <2>2. acc.cycles \in [Cycles -> CycleSet]
    BY DEF ReportInv, AccSet
  <2>3. \A i \in Places : disk.signals[i] \in Signals
    BY <2>1 DEF Places
  <2> QED  BY <2>1, <2>2, <2>3
<1>2. ASSUME NEW c \in Cycles PROVE acc.cycles[c] = OfCycle(c)
  <2> DEFINE places == {i \in Places : disk.signals[i].cycle = c}
             lines == {line \in disk.latency : line.cycle = c}
  <2>1. CycleExact(acc.cycles[c], c, disk.signals) /\ acc.cycles[c] \in CycleSet
    BY <1>1 DEF CyclesExact
  <2>2. places = {i \in Places : disk.signals[i] \in InCycle(c)}
        /\ Holding(disk.signals, InCycle(c)) = places
        /\ Holding(disk.signals, PositiveIn(c)) = {i \in places : PositiveRealistic(disk.signals[i])}
    BY <1>1 DEF InCycle, PositiveIn, Holding, Places
  <2>3. lines = disk.latency \cap LinesOf(c)
        /\ {line \in lines : line.ghost} = disk.latency \cap GhostsOf(c)
    BY <1>1 DEF LinesOf, GhostsOf
  <2> HIDE DEF places, lines
  <2>4. /\ OfSignals(places, LAMBDA s : {s.raw}) = StatsOf(Values(disk.signals, RawOf, InCycle(c)))
        /\ OfSignals(places, LAMBDA s : {s.net}) = StatsOf(Values(disk.signals, NetOf, InCycle(c)))
        /\ OfSignals(places, Gain) = StatsOf(Values(disk.signals, GainOf, InCycle(c)))
    BY <1>1, <2>2, RecomputedValues
  <2>5. /\ acc.cycles[c].signals = Cardinality(places)
        /\ acc.cycles[c].pnl = OfSignals(places, Gain)
        /\ acc.cycles[c].raw = OfSignals(places, LAMBDA s : {s.raw})
        /\ acc.cycles[c].net = OfSignals(places, LAMBDA s : {s.net})
        /\ acc.cycles[c].positive = Cardinality({i \in places : PositiveRealistic(disk.signals[i])})
    BY <2>1, <2>2, <2>4 DEF CycleExact
  <2>6. /\ acc.cycles[c].ghosts = Cardinality({line \in lines : line.ghost})
        /\ acc.cycles[c].followUps = Cardinality(lines)
    BY <1>1, <2>3 DEF LatencyExact
  <2>7. OfCycle(c) =
          [signals |-> Cardinality(places),
           pnl |-> OfSignals(places, Gain),
           raw |-> OfSignals(places, LAMBDA s : {s.raw}),
           net |-> OfSignals(places, LAMBDA s : {s.net}),
           ghosts |-> Cardinality({line \in lines : line.ghost}),
           followUps |-> Cardinality(lines),
           positive |-> Cardinality({i \in places : PositiveRealistic(disk.signals[i])})]
    BY DEF OfCycle, places, lines
  <2>8. acc.cycles[c] =
          [signals |-> acc.cycles[c].signals, pnl |-> acc.cycles[c].pnl,
           raw |-> acc.cycles[c].raw, net |-> acc.cycles[c].net,
           ghosts |-> acc.cycles[c].ghosts, followUps |-> acc.cycles[c].followUps,
           positive |-> acc.cycles[c].positive]
    BY <2>1 DEF CycleSet
  <2> QED  BY <2>5, <2>6, <2>7, <2>8
<1> QED  BY <1>1, <1>2

(* of buckets,                                                              *)
LEMMA RecomputedBuckets ==
    ASSUME ReportInv
    PROVE  acc.buckets = [b \in Buckets |-> OfBucket(b)]
<1>1. /\ LatencyExact(acc, disk.latency) /\ acc.buckets \in [Buckets -> BucketSet]
      /\ disk.latency \subseteq LineSet
  BY DEF ReportInv, Exact, AccSet, DiskOK, LinesOK
<1>2. ASSUME NEW b \in Buckets PROVE acc.buckets[b] = OfBucket(b)
  <2>1. BucketExact(acc.buckets[b], b, disk.latency) /\ acc.buckets[b] \in BucketSet
    BY <1>1 DEF LatencyExact
  <2>2. /\ {line \in disk.latency : line.checks[b].profitable} = disk.latency \cap AliveAt(b)
        /\ {line \in disk.latency : Lateness(line, b) > Tolerance} = disk.latency \cap LateAtCheck(b)
    BY <1>1 DEF AliveAt, LateAtCheck
  <2>3. acc.buckets[b] =
          [samples |-> acc.buckets[b].samples, profitable |-> acc.buckets[b].profitable,
           late |-> acc.buckets[b].late, lateness |-> acc.buckets[b].lateness]
    BY <2>1 DEF BucketSet
  <2> QED  BY <2>1, <2>2, <2>3 DEF BucketExact, OfBucket
<1> QED  BY <1>1, <1>2

(* of latency and health lines,                                             *)
LEMMA RecomputedRest ==
    ASSUME ReportInv
    PROVE  /\ acc.records = Recomputed.records
           /\ acc.latency = Recomputed.latency
           /\ acc.ghosts = Recomputed.ghosts
           /\ acc.lifetime = Recomputed.lifetime
           /\ acc.resyncs = Recomputed.resyncs
           /\ acc.gaps = Recomputed.gaps
<1>1. /\ LatencyExact(acc, disk.latency) /\ HealthExact(acc, disk.health)
      /\ LinesExact(acc, disk) /\ disk.latency \subseteq LineSet
  BY DEF ReportInv, Exact, DiskOK, LinesOK
<1>2. {line \in disk.latency : line.ghost} = disk.latency \cap Ghosts
  BY <1>1 DEF Ghosts
<1> QED  BY <1>1, <1>2 DEF LatencyExact, HealthExact, LinesExact, Recomputed, Counters, CountersOf

(* Every place has a signal.                                                *)
LEMMA AllPlaces == DiskOK(disk) => {i \in Places : disk.signals[i] \in Signals} = Places
BY DEF DiskOK, DiskSet, Places

(* and of all signals are those of calculate_metrics.                       *)
LEMMA RecomputedFirst ==
    ASSUME ReportInv
    PROVE  /\ acc.signals = Recomputed.signals
           /\ acc.feeProfitable = Recomputed.feeProfitable
           /\ acc.depthProfitable = Recomputed.depthProfitable
           /\ acc.pessimistic = Recomputed.pessimistic
           /\ acc.nonExecutable = Recomputed.nonExecutable
           /\ acc.rejected = Recomputed.rejected
           /\ acc.sensitivity = Recomputed.sensitivity
           /\ acc.raw = Recomputed.raw /\ acc.net = Recomputed.net
           /\ acc.realistic = Recomputed.realistic /\ acc.pnl = Recomputed.pnl
           /\ acc.breakEven = Recomputed.breakEven
           /\ acc.staleness = Recomputed.staleness
<1>1. DiskOK(disk) /\ SignalsExact(acc, disk.signals) /\ ValuesExact(acc, disk.signals)
      /\ acc.sensitivity \in [FeeCosts -> Nat] /\ disk.signals \in Seq(Signals)
  BY DEF ReportInv, Exact, SignalsExact, DiskOK, DiskSet, AccSet
<1>2. /\ OfSignals(Places, LAMBDA s : {s.raw}) = StatsOf(Values(disk.signals, RawOf, Signals))
      /\ OfSignals(Places, LAMBDA s : {s.net}) = StatsOf(Values(disk.signals, NetOf, Signals))
      /\ OfSignals(Places, LAMBDA s : {s.age}) = StatsOf(Values(disk.signals, AgeOf, Signals))
      /\ OfSignals(Places, RealisticEdge) = StatsOf(Values(disk.signals, EdgeOf, Signals))
      /\ OfSignals(Places, Gain) = StatsOf(Values(disk.signals, GainOf, Signals))
      /\ OfSignals(Places, BreakEven) = StatsOf(Values(disk.signals, BreakEvenOf, Signals))
  BY <1>1, AllPlaces, RecomputedValues
<1>3. /\ acc.signals = Len(disk.signals)
      /\ acc.feeProfitable = Count(LAMBDA s : s.net > 0)
      /\ acc.depthProfitable = Count(LAMBDA s : Executable(s) /\ s.depth > 0)
      /\ acc.pessimistic = Count(LAMBDA s : s.pessimistic)
      /\ acc.nonExecutable = Count(LAMBDA s : ~Executable(s))
      /\ acc.rejected = Count(LAMBDA s : s.rejected)
      /\ \A c \in FeeCosts : acc.sensitivity[c] = Count(LAMBDA s : s.raw > c)
  BY <1>1, RecomputedSignals
<1>4. acc.sensitivity = [c \in FeeCosts |-> Count(LAMBDA s : s.raw > c)]
  BY <1>1, <1>3
<1>6. /\ acc.signals = Recomputed.signals
      /\ acc.feeProfitable = Recomputed.feeProfitable
      /\ acc.depthProfitable = Recomputed.depthProfitable
      /\ acc.pessimistic = Recomputed.pessimistic
      /\ acc.nonExecutable = Recomputed.nonExecutable
      /\ acc.rejected = Recomputed.rejected
      /\ acc.sensitivity = Recomputed.sensitivity
  BY <1>3, <1>4 DEF Recomputed
<1>7. /\ acc.raw = Recomputed.raw /\ acc.net = Recomputed.net
      /\ acc.realistic = Recomputed.realistic /\ acc.pnl = Recomputed.pnl
      /\ acc.breakEven = Recomputed.breakEven
      /\ acc.staleness = Recomputed.staleness
  BY <1>1, <1>2 DEF Recomputed, ValuesExact
<1> QED  BY <1>6, <1>7

\* Latency lines whose signal is on disk, and those whose is not.
Matched == {line \in disk.latency : \E i \in Places : disk.ids[i] = line.id}
Unmatched == {line \in disk.latency : \A i \in Places : disk.ids[i] # line.id}

(* As many signals have their follow-up as follow-ups have their signal.    *)
LEMMA CoveredIsMatched ==
    ASSUME DiskOK(disk)
    PROVE  /\ Covered = Cardinality(Matched) /\ Covered \in Nat
           /\ Covered <= Len(disk.signals)
           /\ Cardinality(disk.latency) = Covered + Cardinality(Unmatched)
           /\ IsFiniteSet(Unmatched)
<1> DEFINE C == {i \in Places : \E line \in disk.latency : line.id = disk.ids[i]}
           f == [line \in Matched |-> CHOOSE i \in Places : disk.ids[i] = line.id]
<1>1. /\ IsFiniteSet(disk.latency) /\ DOMAIN disk.ids = Places
      /\ Places = 1..Len(disk.signals) /\ Len(disk.signals) \in Nat
  BY DEF DiskOK, DiskSet, LinesOK, Places
<1>2. IsFiniteSet(Places) /\ Cardinality(Places) = Len(disk.signals)
  BY <1>1, FS_Interval
<1>3. IsFiniteSet(Matched) /\ IsFiniteSet(Unmatched)
  <2>1. Matched \in SUBSET disk.latency /\ Unmatched \in SUBSET disk.latency
    BY DEF Matched, Unmatched
  <2> QED  BY <1>1, <2>1, FS_Subset
<1>4. \A line \in Matched : f[line] \in Places /\ disk.ids[f[line]] = line.id
  BY DEF Matched
<1>5. f \in Bijection(Matched, C)
  <2>1. f \in [Matched -> C]
    <3>1. \A line \in Matched : f[line] \in C
      BY <1>4 DEF Matched
    <3> QED  BY <3>1
  <2>2. \A l, m \in Matched : f[l] = f[m] => l = m
    <3>1. Matched \subseteq disk.latency /\ \A l, m \in disk.latency : l.id = m.id => l = m
      BY DEF Matched, DiskOK
    <3> HIDE DEF f
    <3> QED  BY <1>4, <3>1
  <2>3. \A i \in C : \E l \in Matched : f[l] = i
    <3>1. ASSUME NEW i \in C PROVE \E l \in Matched : f[l] = i
      <4>1. PICK l \in disk.latency : l.id = disk.ids[i]
        OBVIOUS
      <4>2. l \in Matched
        BY <4>1 DEF Matched
      <4>3. f[l] \in Places /\ disk.ids[f[l]] = disk.ids[i] /\ i \in Places
        BY <1>4, <4>1, <4>2
      <4>4. \A j, k \in Places : disk.ids[j] = disk.ids[k] => j = k
        BY <1>1 DEF DiskOK
      <4> HIDE DEF f
      <4>5. f[l] = i
        BY <4>3, <4>4
      <4> QED  BY <4>2, <4>5
    <3> QED  BY <3>1
  <2> HIDE DEF f, C
  <2>4. f \in Injection(Matched, C)
    BY <2>1, <2>2 DEF Injection, IsInjective
  <2>5. f \in Surjection(Matched, C)
    BY <2>1, <2>3 DEF Surjection
  <2> QED  BY <2>4, <2>5 DEF Bijection
<1>6. Cardinality(C) = Cardinality(Matched)
  <2>1. ExistsBijection(Matched, C)
    BY <1>5 DEF ExistsBijection
  <2> HIDE DEF f, C
  <2> QED  BY <2>1, <1>3, FS_Bijection
<1>7. Cardinality(C) <= Len(disk.signals)
  <2>1. C \in SUBSET Places
    OBVIOUS
  <2> HIDE DEF C
  <2> QED  BY <2>1, <1>2, FS_Subset
<1>8. Cardinality(disk.latency) = Cardinality(Matched) + Cardinality(Unmatched)
  <2>1. disk.latency = Matched \cup Unmatched /\ Matched \cap Unmatched = {}
    BY DEF Matched, Unmatched
  <2>2. Cardinality(Matched \cup Unmatched) =
            Cardinality(Matched) + Cardinality(Unmatched) - Cardinality(Matched \cap Unmatched)
    BY <1>3, FS_Union
  <2>3. Cardinality(Matched \cap Unmatched) = 0
    BY <2>1, FS_EmptySet
  <2>4. Cardinality(Matched) \in Nat /\ Cardinality(Unmatched) \in Nat
    BY <1>3, FS_CardinalityType
  <2> QED  BY <2>1, <2>2, <2>3, <2>4
<1>9. Covered = Cardinality(C)
  BY DEF Covered
<1> HIDE DEF C
<1> QED  BY <1>3, <1>6, <1>7, <1>8, <1>9, FS_CardinalityType

(* The fewer of signals and follow-ups is at most that, and those besides.  *)
LEMMA CoveredBounds ==
    ASSUME ReportInv, NEW live, live = Min({acc.signals, acc.buckets[Slowest].samples})
    PROVE  Covered <= live /\ live <= Covered + Cardinality(Unmatched)
           /\ (Unmatched = {} => live = Covered)
<1>1. /\ DiskOK(disk) /\ CountsExact(acc, disk.signals) /\ LatencyExact(acc, disk.latency)
      /\ Len(disk.signals) \in Nat
  BY DEF ReportInv, Exact, SignalsExact, DiskOK, DiskSet
<1>2. Slowest \in Buckets
  BY ReportAssumption, MaxMin DEF Slowest
<1>3. acc.signals = Len(disk.signals) /\ acc.buckets[Slowest].samples = Cardinality(disk.latency)
  BY <1>1, <1>2 DEF CountsExact, LatencyExact, BucketExact
<1>4. /\ Covered \in Nat /\ Covered <= Len(disk.signals)
      /\ Cardinality(disk.latency) = Covered + Cardinality(Unmatched)
      /\ Cardinality(Unmatched) \in Nat
  BY <1>1, CoveredIsMatched, FS_CardinalityType
<1>5. ASSUME NEW m \in Int, NEW n \in Int
      PROVE  Min({m, n}) \in {m, n} /\ Min({m, n}) <= m /\ Min({m, n}) <= n
  <2>1. {m} \cup {n} = {m, n} /\ IsFiniteSet({m} \cup {n})
    BY FS_Singleton, FS_AddElement
  <2>2. {m, n} \in SUBSET Int /\ {m, n} # {} /\ IsFiniteSet({m, n})
    BY <2>1
  <2> QED  BY <2>2, MaxMin
<1>6. live \in {Len(disk.signals), Cardinality(disk.latency)}
      /\ live <= Len(disk.signals) /\ live <= Cardinality(disk.latency)
  <2>1. Len(disk.signals) \in Int /\ Cardinality(disk.latency) \in Int
    BY <1>1, <1>4
  <2>2. live = Min({Len(disk.signals), Cardinality(disk.latency)})
    BY <1>3
  <2> QED  BY <2>1, <2>2, <1>5
<1>7. Unmatched = {} => Cardinality(Unmatched) = 0
  BY FS_EmptySet
<1> QED  BY <1>1, <1>4, <1>6, <1>7

(* The heap is what nlargest takes from the file.                           *)
LEMMA TopIsLargest ==
    ASSUME ReportInv
    PROVE  acc.top = Largest
<1> DEFINE raw == EdgesAt(disk.signals)
<1>1. acc.top = Tagged(raw, BestOf(raw, Places))
  BY DEF ReportInv, Exact, SignalsExact, TopExact, Places
<1>2. \A p \in Places : Tag(raw, p) = <<disk.signals[p].raw, p>>
  BY DEF Tag, EdgesAt, Places
<1>3. \A p \in Places : Better(raw, Places, p) =
        {q \in Places : Worse(<<disk.signals[p].raw, p>>, <<disk.signals[q].raw, q>>)}
  BY <1>2 DEF Better
<1> HIDE DEF raw
<1>4. BestOf(raw, Places) =
        {p \in Places : Cardinality({q \in Places :
            Worse(<<disk.signals[p].raw, p>>, <<disk.signals[q].raw, q>>)}) < TopLimit}
  BY <1>3 DEF BestOf
<1>5. Tagged(raw, BestOf(raw, Places)) = {<<disk.signals[i].raw, i>> : i \in BestOf(raw, Places)}
  BY <1>2 DEF Tagged, BestOf
<1> QED  BY <1>1, <1>4, <1>5 DEF Largest

\* a and b have the figures in common.
SameFigures(a, b) ==
    /\ a.records = b.records /\ a.signals = b.signals /\ a.latency = b.latency
    /\ a.feeProfitable = b.feeProfitable /\ a.depthProfitable = b.depthProfitable
    /\ a.pessimistic = b.pessimistic /\ a.nonExecutable = b.nonExecutable
    /\ a.rejected = b.rejected /\ a.ghosts = b.ghosts
    /\ a.raw = b.raw /\ a.net = b.net /\ a.realistic = b.realistic /\ a.pnl = b.pnl
    /\ a.breakEven = b.breakEven /\ a.staleness = b.staleness /\ a.lifetime = b.lifetime
    /\ a.sensitivity = b.sensitivity /\ a.buckets = b.buckets /\ a.cycles = b.cycles
    /\ a.resyncs = b.resyncs /\ a.gaps = b.gaps

(* The totals of the accumulator and of the files are equal.                *)
LEMMA SameAsRecomputed == ReportInv => SameFigures(acc, Recomputed)
<1> SUFFICES ASSUME ReportInv PROVE SameFigures(acc, Recomputed)
  OBVIOUS
<1>1. acc.buckets = Recomputed.buckets
  BY RecomputedBuckets DEF Recomputed
<1>2. acc.cycles = Recomputed.cycles
  BY RecomputedCycles DEF Recomputed
<1> QED  BY <1>1, <1>2, RecomputedFirst, RecomputedRest DEF SameFigures

(* Hence the live report is the one made from the files, but for coverage.  *)
LEMMA StreamedIsReplayed ==
    ASSUME ReportInv
    PROVE  /\ DOMAIN Streamed(acc) = DOMAIN Replayed
           /\ \A figure \in DOMAIN Replayed :
                  figure \notin {"covered", "covers"} => Streamed(acc)[figure] = Replayed[figure]
           /\ Streamed(acc).covered = Min({acc.signals, acc.buckets[Slowest].samples})
           /\ Replayed.covered = Covered
           /\ Streamed(acc).covers = Enough(Streamed(acc).signals, Streamed(acc).covered)
           /\ Replayed.covers = Enough(Replayed.signals, Replayed.covered)
<1> DEFINE live == Min({acc.signals, acc.buckets[Slowest].samples})
           best == EdgesOf(Largest)
           fa == Figures(acc, live, best)
           fb == Figures(Recomputed, Covered, best)
<1>1. Streamed(acc) = fa /\ Replayed = fb
  BY TopIsLargest DEF Streamed, Replayed
<1>2. SameFigures(acc, Recomputed)
  BY SameAsRecomputed
<1> HIDE DEF live, best
<1>3. RepeatedAtLeast([c \in Cycles |-> acc.cycles[c].positive]) =
          RepeatedAtLeast([c \in Cycles |-> Recomputed.cycles[c].positive])
  BY <1>2 DEF SameFigures
<1>4. DOMAIN fa = DOMAIN fb
  BY DEF Figures
<1>5. ASSUME NEW figure \in DOMAIN fb, figure \notin {"covered", "covers"}
      PROVE  fa[figure] = fb[figure]
  BY <1>2, <1>3, <1>5 DEF SameFigures, Figures
<1>6. fa.covered = live /\ fb.covered = Covered
      /\ fa.covers = Enough(fa.signals, fa.covered) /\ fb.covers = Enough(fb.signals, fb.covered)
  BY DEF Figures
<1> HIDE DEF fa, fb
<1> QED  BY <1>1, <1>4, <1>5, <1>6 DEF live

(* This is StreamIsExact.                                                   *)
LEMMA InvExact == ReportInv => StreamIsExact
<1> SUFFICES ASSUME ReportInv PROVE StreamIsExact
  OBVIOUS
<1> DEFINE live == Streamed(acc)
           offline == Replayed
<1>1. /\ DOMAIN live = DOMAIN offline
      /\ \A figure \in DOMAIN offline :
             figure \notin {"covered", "covers"} => live[figure] = offline[figure]
      /\ offline.covered = Covered
      /\ live.covers = Enough(live.signals, live.covered)
      /\ offline.covers = Enough(offline.signals, offline.covered)
  BY StreamedIsReplayed
<1>2. /\ offline.covered <= live.covered
      /\ live.covered <= offline.covered + Cardinality(Unmatched)
      /\ Unmatched = {} => live.covered = offline.covered
  BY StreamedIsReplayed, CoveredBounds
<1>3. "signals" \in DOMAIN offline
  BY DEF Replayed, Figures
<1> HIDE DEF live, offline
<1>4. ASSUME NEW figure \in DOMAIN live
      PROVE  live[figure] = offline[figure]
             \/ (figure \in {"covered", "covers"} /\ Unmatched # {})
  BY <1>1, <1>2, <1>3
<1> QED  BY <1>2, <1>4 DEF StreamIsExact, live, offline, Unmatched

(* What the evidence of a checkpoint looks at is exact.                     *)
LEMMA EvidenceExact ==
    ASSUME ReportInv
    PROVE  /\ Evidence(Streamed(acc)) <=> Evidence(Replayed)
           /\ Evidence(Replayed) \in BOOLEAN
<1> DEFINE live == Streamed(acc)
           offline == Replayed
<1>1. \A figure \in DOMAIN offline :
          figure \notin {"covered", "covers"} => live[figure] = offline[figure]
  BY StreamedIsReplayed
<1>2. {"depthProfitable", "pessimistic", "buckets", "repeated", "pnl"} \subseteq DOMAIN offline
  BY DEF Replayed, Figures
<1> HIDE DEF live, offline
<1>3. /\ live.depthProfitable = offline.depthProfitable
      /\ live.pessimistic = offline.pessimistic /\ live.buckets = offline.buckets
      /\ live.repeated = offline.repeated /\ live.pnl = offline.pnl
  BY <1>1, <1>2
<1>4. Evidence(live) <=> Evidence(offline)
  BY <1>3 DEF Evidence
<1>5. Evidence(offline) \in BOOLEAN
  BY DEF Evidence
<1> QED  BY <1>4, <1>5 DEF live, offline

(* A checkpoint counts as positive just if the files hold evidence.         *)
LEMMA PublishInv ==
    ASSUME ReportInv, Publish
    PROVE  ReportInv'
<1>1. /\ acc \in AccSet /\ DiskOK(disk) /\ Exact(acc, disk) /\ PublishedExact(acc, published)
      /\ disk' = disk
      /\ acc' = [acc EXCEPT !.checkpoints = @ + 1, !.positive = @ + Bit(Evidence(Streamed(acc)))]
      /\ published' = Append(published, Evidence(Replayed))
  BY DEF ReportInv, Publish
<1>2. /\ acc'.positive = acc.positive + Bit(Evidence(Streamed(acc)))
      /\ \A f \in {"records", "signals", "feeProfitable", "depthProfitable", "pessimistic",
                   "nonExecutable", "rejected", "raw", "net", "realistic", "pnl",
                   "breakEven", "staleness", "sensitivity", "top", "latency", "ghosts",
                   "lifetime", "buckets", "cycles", "resyncs", "gaps"} : acc'[f] = acc[f]
  BY <1>1 DEF AccSet
<1>3. acc' \in AccSet
  <2>1. acc.checkpoints + 1 \in Nat /\ acc.positive + Bit(Evidence(Streamed(acc))) \in Nat
    <3>1. acc.checkpoints \in Nat /\ acc.positive \in Nat
      BY <1>1 DEF AccSet
    <3>2. Bit(Evidence(Streamed(acc))) \in Nat
      BY BitType
    <3> QED  BY <3>1, <3>2
  <2> QED  BY <1>1, <2>1, ZenonT(40) DEF AccSet
<1>4. SignalsExact(acc', disk.signals)
  <2>1. SignalsKept(acc, acc')
    BY <1>2 DEF SignalsKept
  <2>2. SignalsExact(acc, disk.signals)
    BY <1>1 DEF Exact
  <2>3. SignalsExact(acc', disk.signals)
    BY <2>1, <2>2, KeptSignals
  <2> QED  BY <2>3
<1>5. LatencyExact(acc', disk.latency)
  BY <1>1, <1>2 DEF Exact, LatencyExact
<1>6. HealthExact(acc', disk.health) /\ LinesExact(acc', disk)
  BY <1>1, <1>2 DEF Exact, HealthExact, LinesExact
<1>7. PublishedExact(acc', published')
  <2> DEFINE e == Evidence(Replayed)
             n == Len(published) + 1
             old == {i \in DOMAIN published : published[i]}
             new == {i \in DOMAIN published' : published'[i]}
  <2>1. e \in BOOLEAN /\ Bit(Evidence(Streamed(acc))) = Bit(e)
    BY EvidenceExact DEF Bit
  <2> HIDE DEF e
  <2>2. published \in Seq(BOOLEAN) /\ published' = Append(published, e)
    BY <1>1 DEF PublishedExact, e
  <2>3. /\ published' \in Seq(BOOLEAN) /\ Len(published) \in Nat
        /\ DOMAIN published = 1..Len(published) /\ DOMAIN published' = 1..n
        /\ published'[n] = e /\ \A i \in 1..Len(published) : published'[i] = published[i]
    BY <2>1, <2>2
  <2>4. /\ old \subseteq 1..Len(published) /\ n \notin 1..Len(published)
        /\ IsFiniteSet(1..Len(published)) /\ (n \in new <=> e)
        /\ new = IF n \in new THEN old \cup {n} ELSE old
    <3>1. IsFiniteSet(1..Len(published))
      BY <2>3, FS_Interval
    <3>2. n \notin 1..Len(published) /\ 1..n = 1..Len(published) \cup {n}
      BY <2>3
    <3>3. n \in new <=> e
      BY <2>1, <2>3
    <3>4. new = IF n \in new THEN old \cup {n} ELSE old
      BY <2>3, <3>2
    <3> QED  BY <2>3, <3>1, <3>2, <3>3, <3>4
  <2> HIDE DEF old, new, n
  <2>5. Cardinality(new) = Cardinality(old) + Bit(n \in new)
    <3> DEFINE S == 1..Len(published)
    <3>1. IsFiniteSet(S) /\ n \notin S /\ old \subseteq S
          /\ new = IF n \in new THEN old \cup {n} ELSE old
      BY <2>4
    <3> HIDE DEF S
    <3> QED  BY <3>1, FilterGrows
  <2>6. Bit(n \in new) = Bit(e)
    BY <2>4 DEF Bit
  <2>7. acc.positive = Cardinality(old)
    BY <1>1 DEF PublishedExact, old
  <2> QED  BY <1>2, <2>1, <2>3, <2>5, <2>6, <2>7 DEF PublishedExact, new
<1> QED  BY <1>1, <1>3, <1>4, <1>5, <1>6, <1>7 DEF ReportInv, Exact

(* The invariant: the accumulator is exact of the files, and so are the     *)
(* checkpoints that counted as positive.                                    *)
THEOREM ReportSafe == Spec => []ReportInv
<1>1. Init => ReportInv
  BY InitReport
<1>2. ReportInv /\ [Next]_vars => ReportInv'
  <2> SUFFICES ASSUME ReportInv, [Next]_vars PROVE ReportInv'
    OBVIOUS
  <2>1. CASE \E id \in Ids, s \in Signals : RecordSignal(id, s)
    BY <2>1, RecordSignalInv
  <2>2. CASE \E id \in Ids, s \in Signals, checks \in Checks : RecordLatency(id, s, checks)
    BY <2>2, RecordLatencyInv
  <2>3. CASE \E h \in Healths : RecordHealth(h)
    BY <2>3, RecordHealthInv
  <2>4. CASE Publish
    BY <2>4, PublishInv
  <2>5. CASE UNCHANGED vars
    BY <2>5 DEF vars, ReportInv, DiskOK, Exact, PublishedExact, LinesExact
  <2> QED  BY <2>1, <2>2, <2>3, <2>4, <2>5 DEF Next
<1> QED  BY <1>1, <1>2, PTL DEF Spec

(* The live report's counts, sums, extrema, fee sensitivity, best edges and *)
(* totals are those of a report made from the files (report.py:1782), and   *)
(* its coverage is too high by at most the follow-ups without their signal. *)
THEOREM ReportStreamIsExact == Spec => []StreamIsExact
<1>1. ReportInv => StreamIsExact
  BY InvExact
<1> QED  BY <1>1, ReportSafe, PTL

-----------------------------------------------------------------------------
\* Verdicts

(* What a cardinality says of members.                                      *)
LEMMA SomeOf ==
    ASSUME NEW S, IsFiniteSet(S)
    PROVE  /\ Cardinality(S) \in Nat
           /\ Cardinality(S) = 0 <=> S = {}
           /\ Cardinality(S) >= 2 => \E i, j \in S : i # j
<1>1. Cardinality(S) \in Nat /\ (Cardinality(S) = 0 <=> S = {})
  BY FS_CardinalityType, FS_EmptySet
<1>2. ASSUME Cardinality(S) >= 2 PROVE \E i, j \in S : i # j
  <2>1. PICK i \in S : TRUE
    BY <1>1, <1>2
  <2>2. IsFiniteSet(S \ {i}) /\ Cardinality(S \ {i}) = Cardinality(S) - 1
    BY FS_RemoveElement
  <2>3. S \ {i} # {}
    BY <1>1, <1>2, <2>2, FS_EmptySet
  <2>4. PICK j \in S \ {i} : TRUE
    BY <2>3
  <2> QED  BY <2>4
<1> QED  BY <1>1, <1>2

(* What the counters say of the signals and of their latency lines.         *)
LEMMA CountersMean ==
    ASSUME ReportInv
    PROVE  /\ acc.depthProfitable \in Nat /\ acc.pessimistic \in Nat
           /\ acc.depthProfitable = 0 <=>
                \A i \in Places : ~(Executable(disk.signals[i]) /\ disk.signals[i].depth > 0)
           /\ acc.pessimistic = 0 => \A i \in Places : ~disk.signals[i].pessimistic
           /\ \A b \in Buckets :
                /\ acc.buckets[b].profitable \in Nat
                /\ acc.buckets[b].profitable = 0 <=>
                        ~\E line \in disk.latency : line.checks[b].profitable
<1>1. /\ CountsExact(acc, disk.signals) /\ LatencyExact(acc, disk.latency)
      /\ IsFiniteSet(disk.latency) /\ disk.latency \subseteq LineSet
      /\ disk.signals \in Seq(Signals)
  BY DEF ReportInv, Exact, SignalsExact, DiskOK, DiskSet, LinesOK
<1>2. /\ Places = 1..Len(disk.signals) /\ Len(disk.signals) \in Nat
      /\ \A i \in Places : disk.signals[i] \in Signals
  BY <1>1 DEF Places
<1>3. IsFiniteSet(Places)
  BY <1>2, FS_Interval
<1>4. \A P : IsFiniteSet(Holding(disk.signals, P)) /\ Holding(disk.signals, P) \subseteq Places
  <2> TAKE P
  <2>1. Holding(disk.signals, P) \in SUBSET Places
    BY DEF Holding, Places
  <2> QED  BY <2>1, <1>3, FS_Subset
<1>5. /\ acc.depthProfitable \in Nat
      /\ acc.depthProfitable = 0 <=>
            \A i \in Places : ~(Executable(disk.signals[i]) /\ disk.signals[i].depth > 0)
  <2> DEFINE S == Holding(disk.signals, DeepProfitable)
  <2>1. S = {i \in Places : Executable(disk.signals[i]) /\ disk.signals[i].depth > 0}
    BY <1>2 DEF Holding, DeepProfitable, Places
  <2>2. IsFiniteSet(S) /\ acc.depthProfitable = Cardinality(S)
    BY <1>1, <1>4 DEF CountsExact
  <2> HIDE DEF S
  <2>3. Cardinality(S) \in Nat /\ (Cardinality(S) = 0 <=> S = {})
    BY <2>2, SomeOf
  <2> QED  BY <2>1, <2>2, <2>3
<1>6. /\ acc.pessimistic \in Nat
      /\ acc.pessimistic = 0 => \A i \in Places : ~disk.signals[i].pessimistic
  <2> DEFINE S == Holding(disk.signals, Pessimistic)
  <2>1. S = {i \in Places : disk.signals[i].pessimistic}
    BY <1>2 DEF Holding, Pessimistic, Places
  <2>2. IsFiniteSet(S) /\ acc.pessimistic = Cardinality(S)
    BY <1>1, <1>4 DEF CountsExact
  <2> HIDE DEF S
  <2>3. Cardinality(S) \in Nat /\ (Cardinality(S) = 0 <=> S = {})
    BY <2>2, SomeOf
  <2> QED  BY <2>1, <2>2, <2>3
<1>7. ASSUME NEW b \in Buckets
      PROVE  /\ acc.buckets[b].profitable \in Nat
             /\ acc.buckets[b].profitable = 0 <=>
                    ~\E line \in disk.latency : line.checks[b].profitable
  <2> DEFINE S == disk.latency \cap AliveAt(b)
  <2>1. S = {line \in disk.latency : line.checks[b].profitable}
    BY <1>1 DEF AliveAt
  <2>2. IsFiniteSet(S) /\ acc.buckets[b].profitable = Cardinality(S)
    BY <1>1, FS_Subset DEF LatencyExact, BucketExact
  <2> HIDE DEF S
  <2>3. Cardinality(S) \in Nat /\ (Cardinality(S) = 0 <=> S = {})
    BY <2>2, SomeOf
  <2> QED  BY <2>1, <2>2, <2>3
<1> QED  BY <1>5, <1>6, <1>7

(* A repeated cycle has two profitable signals, or needs only one.          *)
LEMMA RepeatedMeans ==
    ASSUME ReportInv, RepeatedAtLeast([c \in Cycles |-> acc.cycles[c].positive]) > 0
    PROVE  \E i, j \in Places :
              /\ i # j \/ Gates.repeated < 2
              /\ disk.signals[i].cycle = disk.signals[j].cycle
              /\ PositiveRealistic(disk.signals[i]) /\ PositiveRealistic(disk.signals[j])
<1> DEFINE positiveOf == [c \in Cycles |-> acc.cycles[c].positive]
           need == Max({1, Gates.repeated})
           repeated == {c \in Cycles : positiveOf[c] >= need}
<1>1. Gates.repeated \in Nat
  BY ReportAssumption
<1>2. need \in Int /\ need >= 1 /\ need >= Gates.repeated
  <2>1. IsFiniteSet({1} \cup {Gates.repeated})
    BY FS_Singleton, FS_AddElement
  <2>2. {1} \cup {Gates.repeated} = {1, Gates.repeated}
    OBVIOUS
  <2>3. {1, Gates.repeated} \in SUBSET Int /\ {1, Gates.repeated} # {}
        /\ IsFiniteSet({1, Gates.repeated})
    <3>1. {1, Gates.repeated} \in SUBSET Int
      BY <1>1
    <3> QED  BY <3>1, <2>1, <2>2
  <2> QED  BY <2>3, MaxMin
<1> HIDE DEF need
<1>3. repeated # {}
  <2>1. IsFiniteSet(repeated)
    BY ReportAssumption, FS_Subset
  <2>2. Cardinality(repeated) > 0
    BY DEF RepeatedAtLeast, need
  <2> HIDE DEF repeated
  <2> QED  BY <2>1, <2>2, FS_EmptySet
<1>4. PICK c \in Cycles : acc.cycles[c].positive >= need
  BY <1>3
<1>5. CycleExact(acc.cycles[c], c, disk.signals) /\ disk.signals \in Seq(Signals)
  BY DEF ReportInv, Exact, SignalsExact, CyclesExact, DiskOK, DiskSet
<1> DEFINE S == Holding(disk.signals, PositiveIn(c))
<1>6. acc.cycles[c].positive = Cardinality(S)
  BY <1>5 DEF CycleExact
<1>7. /\ S \subseteq Places
      /\ \A i \in S : disk.signals[i].cycle = c /\ PositiveRealistic(disk.signals[i])
  BY DEF Holding, PositiveIn, Places
<1>8. IsFiniteSet(S)
  <2>1. Places = 1..Len(disk.signals) /\ Len(disk.signals) \in Nat
    BY <1>5 DEF Places
  <2>2. IsFiniteSet(Places)
    BY <2>1, FS_Interval
  <2> HIDE DEF S
  <2> QED  BY <2>2, <1>7, FS_Subset
<1> HIDE DEF S
<1>9. /\ Cardinality(S) \in Nat /\ (Cardinality(S) = 0 <=> S = {})
      /\ Cardinality(S) >= 2 => \E i, j \in S : i # j
  BY <1>8, SomeOf
<1>10. CASE Gates.repeated < 2
  <2>1. PICK i \in S : TRUE
    BY <1>2, <1>4, <1>6, <1>9
  <2> QED  BY <2>1, <1>7, <1>10
<1>11. CASE ~(Gates.repeated < 2)
  <2>1. Cardinality(S) >= 2
    BY <1>1, <1>2, <1>4, <1>6, <1>9, <1>11
  <2>2. PICK i \in S, j \in S : i # j
    BY <2>1, <1>9
  <2> QED  BY <2>2, <1>7
<1> QED  BY <1>10, <1>11

(* No edge after fees is above the greatest.                                *)
LEMMA NetMeans ==
    ASSUME ReportInv, acc.net.count > 0, acc.net.max <= 0
    PROVE  \A i \in Places : disk.signals[i].net <= 0
<1> SUFFICES ASSUME NEW i \in Places PROVE disk.signals[i].net <= 0
  OBVIOUS
<1>1. /\ acc.net = StatsOf(Values(disk.signals, NetOf, Signals)) /\ disk.signals \in Seq(Signals)
  BY DEF ReportInv, Exact, SignalsExact, ValuesExact, DiskOK, DiskSet
<1>2. /\ Places = 1..Len(disk.signals) /\ Len(disk.signals) \in Nat
      /\ \A p \in Places : disk.signals[p] \in Signals /\ disk.signals[p].net \in Int
  <2>1. /\ Places = 1..Len(disk.signals) /\ Len(disk.signals) \in Nat
        /\ \A p \in Places : disk.signals[p] \in Signals
    BY <1>1 DEF Places
  <2>2. \A s \in Signals : s.net \in Int
    BY SignalType
  <2> QED  BY <2>1, <2>2
<1> DEFINE f == [p \in Places |-> disk.signals[p].net]
           D == {p \in DOMAIN disk.signals : disk.signals[p] \in Signals /\ NetOf[disk.signals[p]] # {}}
           vals == {f[x] : x \in DOMAIN f}
<1>3. Values(disk.signals, NetOf, Signals) = f
  <2>1. \A p \in Places : NetOf[disk.signals[p]] = {disk.signals[p].net}
    BY <1>2 DEF NetOf
  <2>2. D = Places
    BY <1>2, <2>1 DEF Places
  <2>3. Values(disk.signals, NetOf, Signals) = [p \in D |-> CHOOSE v \in NetOf[disk.signals[p]] : TRUE]
    BY DEF Values
  <2>4. \A p \in Places : (CHOOSE v \in NetOf[disk.signals[p]] : TRUE) = disk.signals[p].net
    <3> TAKE p \in Places
    <3>1. \A v : (CHOOSE w \in {v} : TRUE) = v
      OBVIOUS
    <3> QED  BY <2>1, <3>1
  <2> HIDE DEF D
  <2> QED  BY <2>2, <2>3, <2>4
<1>4. f # <<>>
  <2>1. DOMAIN f = Places /\ Places # {}
    OBVIOUS
  <2> HIDE DEF f
  <2> QED  BY <2>1
<1>5. acc.net.max = Max(vals)
  BY <1>1, <1>3, <1>4 DEF StatsOf
<1>6. vals \in SUBSET Int /\ f[i] \in vals
  BY <1>2
<1>7. IsFiniteSet(vals)
  <2>1. IsFiniteSet(Places)
    BY <1>2, FS_Interval
  <2>2. f \in Surjection(Places, vals)
    <3>1. f \in [Places -> vals]
      OBVIOUS
    <3>2. \A v \in vals : \E p \in Places : f[p] = v
      OBVIOUS
    <3> HIDE DEF f, vals
    <3> QED  BY <3>1, <3>2 DEF Surjection
  <2> HIDE DEF f, vals
  <2> QED  BY <2>1, <2>2, FS_Surjection
<1>8. Max(vals) >= f[i] /\ Max(vals) \in Int
  <2> HIDE DEF f, vals
  <2> QED  BY <1>6, <1>7, MaxMin
<1>9. f[i] = disk.signals[i].net /\ f[i] \in Int
  BY <1>2
<1> QED  BY <1>5, <1>8, <1>9

(* The figures that verdicts look at are the accumulator's.                 *)
LEMMA FiguresOf ==
    ASSUME NEW m, m = Streamed(acc)
    PROVE  /\ m.signals = acc.signals /\ m.latency = acc.latency /\ m.ghosts = acc.ghosts
           /\ m.depthProfitable = acc.depthProfitable /\ m.pessimistic = acc.pessimistic
           /\ m.buckets = acc.buckets /\ m.pnl = acc.pnl /\ m.net = acc.net
           /\ m.atSlowest = acc.buckets[Slowest].profitable
           /\ m.repeated = RepeatedAtLeast([c \in Cycles |-> acc.cycles[c].positive])
BY DEF Streamed, Figures

\* What a verdict to go on, to stop and to proceed say.
Repeats ==
    \E i, j \in Places :
        /\ i # j \/ Gates.repeated < 2
        /\ disk.signals[i].cycle = disk.signals[j].cycle
        /\ PositiveRealistic(disk.signals[i]) /\ PositiveRealistic(disk.signals[j])

AliveAfter(b) == \E line \in disk.latency : line.checks[b].profitable

Survived(i) == Executable(disk.signals[i]) /\ disk.signals[i].depth > 0

(* The slowest recheck is one of them.                                      *)
LEMMA SlowestBucket == Slowest \in Buckets
BY ReportAssumption, MaxMin DEF Slowest

(* Continuing is earned.                                                    *)
LEMMA ContinueEarned ==
    ASSUME ReportInv, NEW m, m = Streamed(acc), NEW median,
           Decision48h(m, acc.positive) = "CONTINUE_TO_7D"
    PROVE  /\ Repeats
           /\ \E b \in Gates.survival \cap Buckets : AliveAfter(b)
           /\ OfSignals(Places, Gain).sum >= Gates.totalPnl
           /\ Cardinality({i \in DOMAIN published : published[i]}) >= 2
           /\ Conclusion(m, median) = "STOP" => ~AliveAfter(Slowest)
<1>1. Evidence(m) /\ acc.positive >= Max({2, Gates.checkpoints})
  BY DEF Decision48h
<1>2. /\ acc.depthProfitable > 0 /\ acc.pessimistic > 0
      /\ \E b \in Gates.survival \cap Buckets : acc.buckets[b].profitable > 0
      /\ RepeatedAtLeast([c \in Cycles |-> acc.cycles[c].positive]) > 0
      /\ acc.pnl.sum >= Gates.totalPnl
  BY <1>1, FiguresOf DEF Evidence
<1>3. Repeats
  BY <1>2, RepeatedMeans DEF Repeats
<1>4. \E b \in Gates.survival \cap Buckets : AliveAfter(b)
  <2>1. PICK b \in Gates.survival \cap Buckets : acc.buckets[b].profitable > 0
    BY <1>2
  <2>2. acc.buckets[b].profitable \in Nat
        /\ (acc.buckets[b].profitable = 0 <=> ~\E line \in disk.latency : line.checks[b].profitable)
    BY CountersMean
  <2>3. AliveAfter(b)
    BY <2>1, <2>2 DEF AliveAfter
  <2> QED  BY <2>3
<1>5. OfSignals(Places, Gain).sum >= Gates.totalPnl
  <2>1. acc.pnl = Recomputed.pnl
    BY RecomputedFirst
  <2>2. Recomputed.pnl = OfSignals(Places, Gain)
    BY DEF Recomputed
  <2> QED  BY <1>2, <2>1, <2>2
<1>6. Cardinality({i \in DOMAIN published : published[i]}) >= 2
  <2>1. Max({2, Gates.checkpoints}) \in Int /\ Max({2, Gates.checkpoints}) >= 2
    <3>1. IsFiniteSet({2} \cup {Gates.checkpoints})
      BY FS_Singleton, FS_AddElement
    <3>2. {2} \cup {Gates.checkpoints} = {2, Gates.checkpoints} /\ Gates.checkpoints \in Nat
      BY ReportAssumption
    <3>3. {2, Gates.checkpoints} \in SUBSET Int /\ {2, Gates.checkpoints} # {}
          /\ IsFiniteSet({2, Gates.checkpoints})
      BY <3>1, <3>2
    <3> QED  BY <3>3, MaxMin
  <2>2. acc.positive = Cardinality({i \in DOMAIN published : published[i]}) /\ acc.positive \in Nat
    BY DEF ReportInv, PublishedExact, AccSet
  <2> QED  BY <1>1, <2>1, <2>2
<1>7. ASSUME Conclusion(m, median) = "STOP" PROVE ~AliveAfter(Slowest)
  <2>1. m.depthProfitable # 0 /\ m.pessimistic # 0
    BY <1>2, FiguresOf, CountersMean
  <2>2. m.atSlowest = 0
    BY <1>7, <2>1 DEF Conclusion
  <2>3. acc.buckets[Slowest].profitable = 0
    BY <2>2, FiguresOf
  <2> QED  BY <2>3, SlowestBucket, CountersMean DEF AliveAfter
<1> QED  BY <1>3, <1>4, <1>5, <1>6, <1>7

(* So is stopping for want of survivors,                                    *)
LEMMA StopEarned ==
    ASSUME ReportInv, NEW m, m = Streamed(acc), Decision48h(m, acc.positive) = "STOP"
    PROVE  \A i \in Places :
               ~Survived(i) /\ ~disk.signals[i].pessimistic /\ disk.signals[i].net <= 0
<1>1. NoSurvivor(m)
  BY DEF Decision48h
<1>2. acc.depthProfitable = 0 /\ acc.pessimistic = 0 /\ acc.net.count > 0 /\ acc.net.max <= 0
  BY <1>1, FiguresOf DEF NoSurvivor
<1>3. \A i \in Places : disk.signals[i].net <= 0
  BY <1>2, NetMeans
<1> QED  BY <1>2, <1>3, CountersMean DEF Survived

(* and proceeding.                                                          *)
LEMMA ProceedEarned ==
    ASSUME ReportInv, NEW m, m = Streamed(acc), NEW median, Conclusion(m, median) = "PROCEED"
    PROVE  (\E i \in Places : Survived(i)) /\ AliveAfter(Slowest)
<1>1. m.depthProfitable # 0 /\ m.atSlowest > 0
  BY DEF Conclusion
<1>2. acc.depthProfitable # 0 /\ acc.buckets[Slowest].profitable > 0
  BY <1>1, FiguresOf
<1>3. \E i \in Places : Survived(i)
  BY <1>2, CountersMean DEF Survived
<1>4. AliveAfter(Slowest)
  <2>1. acc.buckets[Slowest].profitable # 0
    BY <1>2
  <2> QED  BY <2>1, SlowestBucket, CountersMean DEF AliveAfter
<1> QED  BY <1>3, <1>4

(* Together they are VerdictsEarned.                                        *)
LEMMA InvVerdicts == ReportInv => VerdictsEarned
<1> SUFFICES ASSUME ReportInv PROVE VerdictsEarned
  OBVIOUS
<1> DEFINE m == Streamed(acc)
           median == TwiceMedian(GainsOf(acc.sample))
<1>1. Decision48h(m, acc.positive) = "CONTINUE_TO_7D" =>
        /\ Repeats
        /\ \E b \in Gates.survival \cap Buckets : AliveAfter(b)
        /\ OfSignals(Places, Gain).sum >= Gates.totalPnl
        /\ Cardinality({i \in DOMAIN published : published[i]}) >= 2
        /\ Conclusion(m, median) = "STOP" => ~AliveAfter(Slowest)
  BY ContinueEarned
<1>2. Decision48h(m, acc.positive) = "STOP" =>
        \A i \in Places :
            ~Survived(i) /\ ~disk.signals[i].pessimistic /\ disk.signals[i].net <= 0
  BY StopEarned
<1>3. Conclusion(m, median) = "PROCEED" =>
        (\E i \in Places : Survived(i)) /\ AliveAfter(Slowest)
  BY ProceedEarned
<1> QED  BY <1>1, <1>2, <1>3, Zenon DEF VerdictsEarned, Repeats, AliveAfter, Survived

(* A verdict rests on signals, latency lines and checkpoints that are on    *)
(* disk (report.py:2078, 2202), whatever the sample and its median.         *)
THEOREM ReportVerdictsEarned == Spec => []VerdictsEarned
<1>1. ReportInv => VerdictsEarned
  BY InvVerdicts
<1> QED  BY <1>1, ReportSafe, PTL
=============================================================================
