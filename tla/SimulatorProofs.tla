-------------------------- MODULE SimulatorProofs ---------------------------
(***************************************************************************)
(* Proofs about Simulator.                                                 *)
(***************************************************************************)
EXTENDS Simulator, RatioProofs, SequenceTheorems

-----------------------------------------------------------------------------
(* Loops.                                                                  *)

\* The values of a loop of n turns: step maps the turn and the value before it.
LoopOf(step, first, n, S) ==
    {f \in [0..n -> S] : f[0] = first /\ \A k \in 1..n : f[k] = step[<<f[k - 1], k>>]}

LEMMA LoopExists ==
    ASSUME NEW S, NEW first \in S, NEW n \in Nat, NEW step \in [S \X (1..n) -> S]
    PROVE  LoopOf(step, first, n, S) # {}
<1> DEFINE Upto(m) == {f \in [0..m -> S] :
                          f[0] = first /\ \A k \in 1..m : f[k] = step[<<f[k - 1], k>>]}
           Bad == {m \in Nat : m <= n /\ Upto(m) = {}}
<1>1. SUFFICES ASSUME Bad # {} PROVE FALSE
  BY DEF LoopOf
<1>2. PICK m \in Bad : \A k \in Bad : m <= k
  <2>1. Bad \in SUBSET Nat
    OBVIOUS
  <2> HIDE DEF Bad
  <2> QED  BY <1>1, <2>1, LeastNatural
<1>3. m # 0
  <2>1. [k \in 0..0 |-> first] \in Upto(0)
    OBVIOUS
  <2> QED  BY <2>1, <1>2
<1>4. PICK f : f \in Upto(m - 1)
  <2>1. m - 1 \in Nat /\ ~(m <= m - 1) /\ m - 1 <= n
    BY <1>2, <1>3
  <2> QED  BY <2>1, <1>2
<1> DEFINE longer == [k \in 0..m |-> IF k = m THEN step[<<f[m - 1], m>>] ELSE f[k]]
<1>5. step[<<f[m - 1], m>>] \in S
  <2>1. m - 1 \in 0..(m - 1) /\ m \in 1..n
    BY <1>2, <1>3
  <2>2. f[m - 1] \in S
    BY <2>1, <1>4
  <2>3. <<f[m - 1], m>> \in S \X (1..n)
    BY <2>1, <2>2
  <2> QED  BY <2>3
<1>6. longer \in [0..m -> S]
  <2>1. ASSUME NEW k \in 0..m, k # m PROVE f[k] \in S
    <3>1. k \in 0..(m - 1)
      BY <2>1
    <3> QED  BY <3>1, <1>4
  <2> QED  BY <2>1, <1>5
<1>7. longer[0] = first
  BY <1>2, <1>3, <1>4
<1>8. ASSUME NEW k \in 1..m PROVE longer[k] = step[<<longer[k - 1], k>>]
  <2>1. CASE k = m
    BY <2>1, <1>3
  <2>2. CASE k # m
    <3>1. k \in 1..(m - 1)
      BY <2>2
    <3>2. longer[k] = f[k] /\ longer[k - 1] = f[k - 1]
      BY <3>1, <2>2
    <3> QED  BY <3>1, <3>2, <1>4
  <2> QED  BY <2>1, <2>2
<1>9. longer \in Upto(m)
  <2> HIDE DEF longer
  <2> QED  BY <1>6, <1>7, <1>8
<1> QED  BY <1>2, <1>9

(* The first turn that breaks a loop invariant has a turn before it that does not. *)
LEMMA FirstBreak ==
    ASSUME NEW n \in Nat, NEW Bad \in SUBSET (0..n), Bad # {}, 0 \notin Bad
    PROVE  \E k \in 1..n : k \in Bad /\ (k - 1) \notin Bad
<1>1. PICK k \in Bad : \A j \in Bad : k <= j
  <2>1. Bad \in SUBSET Nat
    OBVIOUS
  <2> QED  BY <2>1, LeastNatural
<1>2. k \in 1..n /\ (k - 1) \notin Bad
  BY <1>1
<1> QED  BY <1>1, <1>2

-----------------------------------------------------------------------------
(* Rounding.                                                               *)

\* The first powers of ten.
PowersTo(f, n) == \A k \in 0..n : f[k] = IF k = 0 THEN 1 ELSE 10 * f[k - 1]

LEMMA PowersExist ==
    ASSUME NEW n \in Nat
    PROVE  \E f : PowersTo(f, n)
<1> DEFINE Bad == {m \in Nat : ~ \E f : PowersTo(f, m)}
<1>1. SUFFICES ASSUME Bad # {} PROVE FALSE
  OBVIOUS
<1>2. PICK m \in Bad : \A k \in Bad : m <= k
  BY <1>1, LeastNatural
<1>3. m # 0
  <2>1. PowersTo([k \in 0..0 |-> 1], 0)
    BY DEF PowersTo
  <2> QED  BY <2>1
<1>4. PICK f : PowersTo(f, m - 1)
  <2>1. m - 1 \in Nat /\ ~(m <= m - 1)
    BY <1>3
  <2> QED  BY <2>1, <1>2
<1> DEFINE g == [k \in 0..m |-> IF k = m THEN 10 * f[m - 1] ELSE f[k]]
<1>5. ASSUME NEW k \in 0..m PROVE g[k] = IF k = 0 THEN 1 ELSE 10 * g[k - 1]
  <2>1. CASE k = m
    BY <2>1, <1>3
  <2>2. CASE k # m
    <3>1. k \in 0..(m - 1) /\ k - 1 # m
      BY <2>2
    <3>2. f[k] = IF k = 0 THEN 1 ELSE 10 * f[k - 1]
      BY <3>1, <1>4 DEF PowersTo
    <3>3. g[k] = f[k] /\ (k # 0 => g[k - 1] = f[k - 1])
      BY <3>1, <2>2
    <3> QED  BY <3>2, <3>3
  <2> QED  BY <2>1, <2>2
<1>6. PowersTo(g, m)
  <2> HIDE DEF g
  <2> QED  BY <1>5 DEF PowersTo
<1> QED  BY <1>6, <1>2

LEMMA PowersAgree ==
    ASSUME NEW n \in Nat, NEW m \in Nat, NEW f, NEW g, PowersTo(f, n), PowersTo(g, m),
           NEW k \in Nat, k <= n, k <= m
    PROVE  f[k] = g[k]
<1> DEFINE Bad == {i \in 0..k : f[i] # g[i]}
<1>1. SUFFICES ASSUME Bad # {} PROVE FALSE
  OBVIOUS
<1>2. 0 \notin Bad
  BY DEF PowersTo
<1>3. PICK i \in 1..k : i \in Bad /\ (i - 1) \notin Bad
  <2>1. Bad \in SUBSET (0..k)
    OBVIOUS
  <2> HIDE DEF Bad
  <2> QED  BY <1>1, <1>2, <2>1, FirstBreak
<1>4. f[i] = 10 * f[i - 1] /\ g[i] = 10 * g[i - 1] /\ f[i - 1] = g[i - 1]
  BY <1>3 DEF PowersTo
<1> QED  BY <1>3, <1>4

(* Power is the function that its definition describes.                     *)
LEMMA PowerIs == \A n \in Nat : PowersTo(Power, n)
<1> DEFINE Part(n) == CHOOSE f : PowersTo(f, n)
           whole == [n \in Nat |-> Part(n)[n]]
           Solves(f) == f = [n \in Nat |-> IF n = 0 THEN 1 ELSE 10 * f[n - 1]]
<1>1. ASSUME NEW n \in Nat PROVE PowersTo(Part(n), n)
  BY PowersExist
<1>2. ASSUME NEW n \in Nat PROVE whole[n] = IF n = 0 THEN 1 ELSE 10 * whole[n - 1]
  <2> HIDE DEF Part
  <2>1. whole[n] = Part(n)[n] /\ (n # 0 => whole[n - 1] = Part(n - 1)[n - 1])
    OBVIOUS
  <2>2. Part(n)[n] = IF n = 0 THEN 1 ELSE 10 * Part(n)[n - 1]
    BY <1>1 DEF PowersTo
  <2>3. ASSUME n # 0 PROVE Part(n)[n - 1] = Part(n - 1)[n - 1]
    <3>1. n - 1 \in Nat /\ n - 1 <= n
      BY <2>3
    <3> QED  BY <3>1, <1>1, PowersAgree
  <2> HIDE DEF whole
  <2> QED  BY <2>1, <2>2, <2>3
<1>3. Solves(whole)
  <2> HIDE DEF Part
  <2>1. whole = [n \in Nat |-> whole[n]]
    OBVIOUS
  <2> HIDE DEF whole
  <2> QED  BY <1>2, <2>1, Zenon
<1>4. Solves(Power)
  <2> HIDE DEF whole
  <2>1. Power = CHOOSE f : Solves(f)
    BY DEF Power
  <2> HIDE DEF Solves
  <2> QED  BY <2>1, <1>3
<1>5. \A n \in Nat : Power[n] = IF n = 0 THEN 1 ELSE 10 * Power[n - 1]
  BY <1>4
<1> QED  BY <1>5 DEF PowersTo

LEMMA PowerType ==
    ASSUME NEW n \in Nat
    PROVE  /\ Power[n] \in Nat \ {0} /\ Power[n + 1] = 10 * Power[n]
           /\ n # 0 => Power[n] >= 10
<1> DEFINE Bad == {k \in 0..n : Power[k] \notin Nat \ {0}}
<1>1. \A k \in Nat : Power[k] = IF k = 0 THEN 1 ELSE 10 * Power[k - 1]
  BY PowerIs DEF PowersTo
<1>2. Bad = {}
  <2>1. SUFFICES ASSUME Bad # {} PROVE FALSE
    OBVIOUS
  <2>2. Bad \in SUBSET (0..n) /\ 0 \notin Bad
    BY <1>1
  <2>3. PICK k \in 1..n : k \in Bad /\ (k - 1) \notin Bad
    <3> HIDE DEF Bad
    <3> QED  BY <2>1, <2>2, FirstBreak
  <2>4. Power[k - 1] \in Nat \ {0} /\ Power[k] = 10 * Power[k - 1]
    BY <1>1, <2>3
  <2> QED  BY <2>3, <2>4
<1>3. Power[n] \in Nat \ {0} /\ (n # 0 => Power[n - 1] \in Nat \ {0})
  BY <1>2
<1>4. Power[n + 1] = 10 * Power[n] /\ (n # 0 => Power[n] = 10 * Power[n - 1])
  <2>1. n + 1 \in Nat /\ n + 1 # 0 /\ (n + 1) - 1 = n
    OBVIOUS
  <2> QED  BY <1>1, <2>1
<1> QED  BY <1>3, <1>4

(* Rounding keeps a fraction a fraction, and its sign.                      *)
LEMMA RoundedType ==
    ASSUME NEW digits \in Nat, NEW x \in Rational
    PROVE  /\ Rounded(digits, x) \in Rational
           /\ x \in Positives => Rounded(digits, x) \in Positives
<1>1. CASE digits = Exact
  BY <1>1 DEF Rounded
<1>2. CASE digits # Exact /\ ~ \E p \in 0..MaxDecimals : Fills(digits, x, p)
  BY <1>2, Zenon DEF Rounded, Shortened
<1>3. CASE digits # Exact /\ \E p \in 0..MaxDecimals : Fills(digits, x, p)
  <2>1. PICK a \in Int, b \in Nat \ {0} : x = <<a, b>> /\ x = Ratio(a, b)
    BY RationalForm
  <2>2. PICK p \in 0..MaxDecimals : /\ Fills(digits, x, p)
                                     /\ p = CHOOSE q \in 0..MaxDecimals : Fills(digits, x, q)
    BY <1>3, Zenon
  <2>3. p \in Nat
    BY DecimalAssumption
  <2>4. PICK n \in Nat : n = Abs(a) /\ (a > 0 => n = a)
    BY DEF Abs
  <2>5. PICK unit \in Nat \ {0}, all \in Nat \ {0} :
            unit = Power[p] /\ all = Power[digits] /\ all >= 10 /\ Power[p + 1] = 10 * unit
    BY <1>3, <2>3, PowerType DEF Exact
  <2>6. all * b <= n * (10 * unit)
    <3>1. TooLong(digits, x, p + 1)
      BY <2>2 DEF Fills
    <3> QED  BY <3>1, <2>1, <2>4, <2>5 DEF TooLong
  <2>7. PICK scaled \in Nat : scaled = n * unit
    OBVIOUS
  <2>8. b <= scaled
    <3>1. n * (10 * unit) = 10 * scaled
      BY <2>7
    <3>2. all * b >= 10 * b
      BY <2>5
    <3> QED  BY <2>6, <3>1, <3>2
  <2>9. PICK below \in Nat, rest \in Nat, half \in Nat :
            below = scaled \div b /\ rest = scaled % b /\ half = below % 2 /\ below > 0
    <3>1. scaled \div b \in Nat /\ scaled % b \in Nat /\ scaled \div b > 0
      BY <2>8, Division
    <3> QED  BY <3>1
  <2>10. PICK units \in Nat : units = HalfEven(scaled, b) /\ units > 0
    BY <2>9 DEF HalfEven
  <2>11. Rounded(digits, x) = Ratio(IF a < 0 THEN -units ELSE units, unit)
    <3>1. Shortened(digits, x) = Ratio(IF x[1] < 0 THEN -HalfEven(Abs(x[1]) * Power[p], x[2])
                                       ELSE HalfEven(Abs(x[1]) * Power[p], x[2]), Power[p])
      BY <1>3, <2>2, Zenon DEF Shortened
    <3>2. x[1] = a /\ x[2] = b /\ Abs(a) * Power[p] = scaled
      BY <2>1, <2>4, <2>5, <2>7
    <3>3. Shortened(digits, x) = Ratio(IF a < 0 THEN -units ELSE units, unit)
      BY <3>1, <3>2, <2>5, <2>10
    <3> QED  BY <1>3, <3>3 DEF Rounded
  <2>12. PICK m \in Int : m = (IF a < 0 THEN -units ELSE units) /\ (a > 0 => m > 0)
    BY <2>10
  <2>13. Rounded(digits, x) = Ratio(m, unit)
    BY <2>11, <2>12
  <2>14. Worth(Rounded(digits, x), m, unit) /\ Worth(x, a, b)
    BY <2>1, <2>13 DEF Worth
  <2>15. (x \in Positives <=> a > 0) /\ (Rounded(digits, x) \in Positives <=> m > 0)
    BY <2>14, SignOf
  <2>16. Rounded(digits, x) \in Rational
    BY <2>14, WorthRational
  <2> QED  BY <2>12, <2>15, <2>16
<1> QED  BY <1>1, <1>2, <1>3

\* The amounts of an arithmetic: what is taken from an amount may round below zero.
Sized(digits) == IF digits = Exact THEN NonNegatives ELSE Rational

(* The operations stay among the amounts; only what is subtracted may not.  *)
LEMMA SizedOps ==
    ASSUME NEW digits \in Nat, NEW x \in Sized(digits), NEW y \in Sized(digits),
           NEW p \in Positives, NEW q \in Positives
    PROVE  /\ x \in Rational /\ Zero \in Sized(digits) /\ p \in Sized(digits)
           /\ Add(digits, x, y) \in Sized(digits)
           /\ Multiply(digits, x, y) \in Sized(digits)
           /\ Divide(digits, x, p) \in Sized(digits)
           /\ Multiply(digits, p, q) \in Positives
           /\ digits # Exact => Subtract(digits, x, y) \in Sized(digits)
<1>1. /\ x \in Rational /\ y \in Rational /\ p \in Rational /\ q \in Rational
      /\ Less(Zero, p) /\ Zero \in Rational
  BY ZeroOne DEF Sized, NonNegatives, Positives
<1>2. /\ Plus(x, y) \in Rational /\ Minus(x, y) \in Rational /\ Times(x, y) \in Rational
      /\ Over(x, p) \in Rational /\ Times(p, q) \in Positives
      /\ p \in NonNegatives /\ Zero \in NonNegatives /\ Times(p, q) \in Rational
  BY <1>1, Closed, SignLaws
<1>3. Multiply(digits, p, q) \in Positives
  BY <1>2, RoundedType DEF Multiply
<1>4. CASE digits = Exact
  <2>1. x \in NonNegatives /\ y \in NonNegatives
    BY <1>4 DEF Sized
  <2>2. Plus(x, y) \in NonNegatives /\ Times(x, y) \in NonNegatives /\ Over(x, p) \in NonNegatives
    BY <1>1, <2>1, SignLaws
  <2> QED  BY <1>1, <1>2, <1>3, <1>4, <2>2 DEF Sized, Add, Multiply, Divide, Rounded
<1>5. CASE digits # Exact
  BY <1>1, <1>2, <1>3, <1>5, RoundedType DEF Sized, Add, Subtract, Multiply, Divide
<1> QED  BY <1>4, <1>5

(* Without rounding, the operations are those of the fractions.             *)
LEMMA ExactOps ==
    ASSUME NEW x, NEW y
    PROVE  /\ Add(Exact, x, y) = Plus(x, y) /\ Subtract(Exact, x, y) = Minus(x, y)
           /\ Multiply(Exact, x, y) = Times(x, y) /\ Divide(Exact, x, y) = Over(x, y)
           /\ Exact \in Nat /\ Sized(Exact) = NonNegatives
  BY DEF Add, Subtract, Multiply, Divide, Rounded, Exact, Sized

(* Whole lots, for any digits.                                              *)
LEMMA FlooredLots ==
    ASSUME NEW digits \in Nat, NEW x \in Rational, NEW lot \in Nat
    PROVE  /\ lot # 0 => \E k \in Int : Floored(digits, x, lot) = Num(k * lot)
           /\ Floored(digits, x, lot) \in Rational
<1>1. CASE lot = 0
  BY <1>1 DEF Floored
<1>2. CASE lot # 0
  <2>1. Num(lot) \in Positives
    BY <1>2, NumOrder
  <2>2. Divide(digits, x, Num(lot)) \in Rational
    BY <2>1, Closed, RoundedType DEF Divide, Positives
  <2>3. PICK a \in Int, b \in Nat \ {0} : Divide(digits, x, Num(lot)) = <<a, b>>
    BY <2>2, RationalForm
  <2>4. PICK k \in Int : k = a \div b
    OBVIOUS
  <2>5. Floored(digits, x, lot) = Num(k * lot)
    BY <1>2, <2>3, <2>4 DEF Floored
  <2>6. k * lot \in Int
    OBVIOUS
  <2> QED  BY <1>2, <2>5, <2>6, NumOrder
<1> QED  BY <1>1, <1>2

(* Without rounding, the lots are the most that the amount holds.           *)
LEMMA FlooredIs ==
    ASSUME NEW x \in Rational, NEW lot \in Nat \ {0}
    PROVE  \E k \in Int : /\ Floored(Exact, x, lot) = Num(k * lot)
                          /\ Leq(Floored(Exact, x, lot), x)
                          /\ Less(x, Plus(Floored(Exact, x, lot), Num(lot)))
                          /\ (x \in NonNegatives => k >= 0)
<1>1. PICK a \in Int, b \in Nat \ {0} : x = <<a, b>> /\ x = Ratio(a, b)
  BY RationalForm
<1>2. PICK e \in Nat \ {0} : e = b * lot
  OBVIOUS
<1>3. PICK p \in Int, q \in Nat \ {0}, g \in Nat \ {0} :
          Divide(Exact, x, Num(lot)) = <<p, q>> /\ a = p * g /\ e = q * g
  <2>1. Worth(x, a, b) /\ Worth(Num(lot), lot, 1) /\ lot > 0
    BY <1>1, NumIs DEF Worth
  <2>2. Worth(Over(x, Num(lot)), a * 1, b * lot)
    BY <2>1, WorthOps, Zenon
  <2>3. Over(x, Num(lot)) = Ratio(a, e)
    BY <1>2, <2>2 DEF Worth
  <2>4. Divide(Exact, x, Num(lot)) = Ratio(a, e)
    BY <2>3, ExactOps
  <2>5. PICK p \in Int, q \in Nat \ {0}, g \in Nat \ {0} :
            Ratio(a, e) = <<p, q>> /\ a = p * g /\ e = q * g /\ Coprime(p, q)
    BY RatioIs
  <2> QED  BY <2>4, <2>5
<1> DEFINE k == p \div q
<1>4. k \in Int /\ k * e <= a /\ a < k * e + e
  <2>1. q * (p \div q) <= p /\ p < q * (p \div q) + q /\ p \div q \in Int
    OBVIOUS
  <2>2. PICK i \in Int, j \in Int : i = p \div q /\ j = q * i
    BY <2>1
  <2>3. j <= p /\ p < j + q
    BY <2>1, <2>2
  <2>4. j * g <= p * g /\ p * g < (j + q) * g
    <3>1. p * g <= (j + q) * g /\ p * g # (j + q) * g /\ j * g <= p * g
      BY <2>3, Cancel
    <3> QED  BY <3>1
  <2>5. i * e = j * g /\ (j + q) * g = j * g + e
    BY <1>3, <2>2
  <2> QED  BY <2>2, <2>4, <2>5, <1>3
<1>5. k * e = (k * lot) * b /\ e = lot * b /\ k * lot \in Int
  <2> HIDE DEF k
  <2> QED  BY <1>2, <1>4
<1>6. Floored(Exact, x, lot) = Num(k * lot)
  BY <1>3 DEF Floored
<1> HIDE DEF k
<1>7. PICK m \in Int : m = k * lot
  BY <1>4
<1>8. Worth(x, a, b) /\ Worth(Num(m), m, 1) /\ Worth(Num(lot), lot, 1)
  BY <1>1, NumIs DEF Worth
<1>9. Leq(Num(m), x)
  <2>1. Leq(Num(m), x) <=> m * b <= a * 1
    BY <1>8, WorthLeq, Zenon
  <2> QED  BY <2>1, <1>4, <1>5, <1>7
<1>10. Less(x, Plus(Num(m), Num(lot)))
  <2>1. Worth(Plus(Num(m), Num(lot)), m * 1 + lot * 1, 1 * 1) /\ Worth(x, a, b)
    BY <1>8, WorthOps, Zenon
  <2>2. Less(x, Plus(Num(m), Num(lot))) <=> a * (1 * 1) < (m * 1 + lot * 1) * b
    <3> DEFINE sum == Plus(Num(m), Num(lot))
               n == m * 1 + lot * 1
               d == 1 * 1
    <3>1. Worth(sum, n, d)
      BY <2>1
    <3> HIDE DEF sum, n, d
    <3>2. Less(x, sum) <=> a * d < n * b
      BY <2>1, <3>1, WorthLess, Zenon
    <3> QED  BY <3>2 DEF sum, n, d
  <2>3. m * b = k * e
    BY <1>5, <1>7
  <2>4. (m * 1 + lot * 1) * b = m * b + lot * b
    OBVIOUS
  <2>5. (m * 1 + lot * 1) * b = k * e + e
    BY <2>3, <2>4, <1>5
  <2>6. a * (1 * 1) = a
    OBVIOUS
  <2> QED  BY <2>2, <2>5, <2>6, <1>4
<1>11. x \in NonNegatives => k >= 0
  <2>1. x \in NonNegatives <=> a >= 0
    BY <1>8, SignOf
  <2> HIDE DEF k
  <2>2. a >= 0 => k >= 0
    <3>1. SUFFICES ASSUME a >= 0, k <= -1 PROVE FALSE
      BY <1>4
    <3>2. PICK i \in Nat \ {0} : i = -k
      BY <3>1, <1>4
    <3>3. i * e >= e /\ k * e = -(i * e)
      BY <3>2, <1>4
    <3> QED  BY <3>1, <3>3, <1>4
  <2> QED  BY <2>1, <2>2
<1> QED  BY <1>4, <1>6, <1>7, <1>9, <1>10, <1>11

LEMMA FlooredType ==
    ASSUME NEW x \in Rational, NEW lot \in Nat
    PROVE  /\ Floored(Exact, x, lot) \in Rational
           /\ Leq(Floored(Exact, x, lot), x)
           /\ x \in NonNegatives => Floored(Exact, x, lot) \in NonNegatives
<1>1. CASE lot = 0
  BY <1>1, OrderLaws DEF Floored
<1>2. CASE lot # 0
  <2>1. PICK k \in Int : /\ Floored(Exact, x, lot) = Num(k * lot)
                         /\ Leq(Floored(Exact, x, lot), x)
                         /\ Less(x, Plus(Floored(Exact, x, lot), Num(lot)))
                         /\ (x \in NonNegatives => k >= 0)
    BY <1>2, FlooredIs
  <2>2. PICK m \in Int : m = k * lot /\ (k >= 0 => m >= 0)
    OBVIOUS
  <2>3. Num(m) \in Rational /\ (m >= 0 => Num(m) \in NonNegatives)
    BY NumOrder
  <2> QED  BY <2>1, <2>2, <2>3
<1> QED  BY <1>1, <1>2
-----------------------------------------------------------------------------
(* Types.                                                                  *)


Walk(digits) == [left : Sized(digits), base : Sized(digits), quote : Sized(digits)]

\* A level as a walk meets it; the best one has no end when depth is ignored.
MetLevel == [price : Positives, quantity : Positives \cup {Infinity}]

LEMMA LeastOfInfinity ==
    ASSUME NEW x \in Rational
    PROVE  Least(x, Infinity) = x /\ Least(Infinity, x) = x
<1>1. x[1] \in Int /\ x[2] \in Nat \ {0}
  BY DEF Rational
<1>2. Leq(x, Infinity) /\ ~Leq(Infinity, x)
  BY <1>1 DEF Leq, Infinity
<1> QED  BY <1>2 DEF Least

LEMMA LeastIs ==
    ASSUME NEW x \in NonNegatives, NEW q \in Positives \cup {Infinity}
    PROVE  /\ Least(x, q) \in NonNegatives /\ Leq(Least(x, q), x)
           /\ Least(q, x) = Least(x, q)
<1>1. x \in Rational /\ Leq(x, x)
  BY OrderLaws DEF NonNegatives
<1>2. CASE q = Infinity
  BY <1>1, <1>2, LeastOfInfinity
<1>3. CASE q \in Positives
  <2>1. q \in Rational /\ q \in NonNegatives
    BY <1>3, SignLaws DEF Positives
  <2>2. /\ Less(q, x) <=> ~Leq(x, q)
        /\ Less(x, q) <=> ~Leq(q, x)
        /\ Leq(x, q) /\ Leq(q, x) => x = q
        /\ Less(x, q) => Leq(x, q)
        /\ Less(q, x) => Leq(q, x)
    <3>1. x[1] \in Int /\ x[2] \in Int /\ q[1] \in Int /\ q[2] \in Int
      BY <1>1, <2>1 DEF Rational
    <3>2. (Less(q, x) => Leq(q, x)) /\ (Less(x, q) => Leq(x, q))
      BY <3>1 DEF Less, Leq
    <3> QED  BY <1>1, <2>1, <3>2, OrderLaws
  <2> QED  BY <1>1, <2>1, <2>2 DEF Least
<1> QED  BY <1>2, <1>3

LEMMA LeastSized ==
    ASSUME NEW digits \in Nat, NEW x \in Sized(digits), NEW q \in Positives \cup {Infinity}
    PROVE  /\ Least(x, q) \in Sized(digits) /\ Least(q, x) \in Sized(digits)
           /\ digits = Exact => Leq(Least(x, q), x) /\ Leq(Least(q, x), x)
<1>1. CASE digits = Exact
  BY <1>1, LeastIs, ExactOps
<1>2. CASE digits # Exact
  <2>1. x \in Rational
    BY SizedOps, ZeroOne DEF Sized, NonNegatives
  <2>2. CASE q = Infinity
    BY <2>1, <2>2, <1>2, LeastOfInfinity DEF Sized
  <2>3. CASE q \in Positives
    BY <2>1, <2>3, <1>2 DEF Sized, Least, Positives
  <2> QED  BY <2>2, <2>3
<1> QED  BY <1>1, <1>2

LEMMA SubtractSized ==
    ASSUME NEW digits \in Nat, NEW x \in Sized(digits), NEW y \in Sized(digits),
           digits = Exact => Leq(y, x)
    PROVE  Subtract(digits, x, y) \in Sized(digits)
<1>1. CASE digits = Exact
  <2>1. x \in Rational /\ y \in Rational
    BY <1>1, ExactOps DEF NonNegatives
  <2>2. Minus(x, y) \in NonNegatives
    BY <1>1, <2>1, MinusSign
  <2> QED  BY <1>1, <2>2, ExactOps
<1>2. CASE digits # Exact
  BY <1>2, RoundedType, Closed DEF Sized, Subtract
<1> QED  BY <1>1, <1>2

LEMMA OnePositive == One \in Positives
<1>1. One = Num(1)
  BY DEF One, Num
<1> QED  BY <1>1, NumOrder

LEMMA ZeroSized ==
    ASSUME NEW digits \in Nat
    PROVE  /\ Zero \in Sized(digits) /\ Zero \in Rational
           /\ \A x \in Sized(digits) : x \in Rational
           /\ \A x \in NonNegatives : x \in Sized(digits)
           /\ \A x \in Positives : x \in Sized(digits)
  BY ZeroOne, SignLaws DEF Sized, NonNegatives, Positives

(* What a level takes of a walk: of its base, and of its quote.             *)
LEMMA TakeType ==
    ASSUME NEW digits \in Nat, NEW walk \in Walk(digits), NEW level \in MetLevel
    PROVE  TakeBase(digits, walk, level) \in Walk(digits) /\ TakeQuote(digits, walk, level) \in Walk(digits)
<1>1. /\ walk.left \in Sized(digits) /\ walk.base \in Sized(digits) /\ walk.quote \in Sized(digits)
      /\ level.price \in Positives /\ level.quantity \in Positives \cup {Infinity}
  BY DEF Walk, MetLevel
<1>2. ASSUME NEW take \in Sized(digits), NEW cost \in Sized(digits), NEW spent \in Sized(digits),
             digits = Exact => Leq(spent, walk.left)
      PROVE  [left |-> Subtract(digits, walk.left, spent), base |-> Add(digits, walk.base, take),
              quote |-> Add(digits, walk.quote, cost)] \in Walk(digits)
  <2>1. Subtract(digits, walk.left, spent) \in Sized(digits)
    BY <1>1, <1>2, SubtractSized
  <2>2. Add(digits, walk.base, take) \in Sized(digits) /\ Add(digits, walk.quote, cost) \in Sized(digits)
    BY <1>1, SizedOps
  <2> QED  BY <2>1, <2>2 DEF Walk
<1>3. ASSUME NEW x \in Sized(digits)
      PROVE  Multiply(digits, x, level.price) \in Sized(digits) /\ Divide(digits, x, level.price) \in Sized(digits)
  <2>1. level.price \in Sized(digits)
    BY <1>1, SizedOps
  <2> QED  BY <2>1, <1>1, SizedOps
<1>4. TakeBase(digits, walk, level) \in Walk(digits)
  <2>1. PICK take \in Sized(digits) : take = Least(walk.left, level.quantity)
                                      /\ (digits = Exact => Leq(take, walk.left))
    BY <1>1, LeastSized
  <2>2. Multiply(digits, take, level.price) \in Sized(digits)
    BY <1>3
  <2> QED  BY <2>1, <2>2, <1>2 DEF TakeBase
<1>5. TakeQuote(digits, walk, level) \in Walk(digits)
  <2>1. PICK most \in Sized(digits) : most = Divide(digits, walk.left, level.price)
    BY <1>1, <1>3
  <2>2. PICK take \in Sized(digits) : take = Least(level.quantity, most)
                                      /\ (digits = Exact => Leq(take, most))
    BY <1>1, LeastSized
  <2>3. PICK cost \in Sized(digits) : cost = Multiply(digits, take, level.price)
    BY <1>3
  <2>4. ASSUME digits = Exact PROVE Leq(cost, walk.left)
    <3>1. most = Over(walk.left, level.price) /\ cost = Times(take, level.price)
      BY <2>1, <2>3, <2>4, ExactOps
    <3>2. /\ walk.left \in Rational /\ level.price \in Rational
          /\ take \in Rational /\ most \in Rational /\ Leq(Zero, level.price)
          /\ Less(Zero, level.price)
      BY <1>1, SizedOps, SignLaws DEF NonNegatives, Positives
    <3>3. Leq(Times(take, level.price), Times(most, level.price))
      BY <3>2, <2>2, <2>4, OrderLaws
    <3>4. Times(most, level.price) = walk.left
      BY <3>1, <3>2, TimesLaws
    <3> QED  BY <3>1, <3>3, <3>4
  <2>5. [left |-> Subtract(digits, walk.left, cost), base |-> Add(digits, walk.base, take),
         quote |-> Add(digits, walk.quote, cost)] \in Walk(digits)
    BY <2>4, <1>2
  <2> QED  BY <2>1, <2>2, <2>3, <2>5 DEF TakeQuote
<1> QED  BY <1>4, <1>5

LEMMA UntouchedType ==
    ASSUME NEW digits \in Nat, NEW amount \in Sized(digits)
    PROVE  Untouched(amount) \in Walk(digits)
  BY ZeroSized DEF Untouched, Walk

\* after holds the walk before the first level, and after each.
BaseWalk(digits, after, amount, levels) ==
    /\ after \in [0..Len(levels) -> Walk(digits)]
    /\ after[0] = Untouched(amount)
    /\ \A k \in 1..Len(levels) : after[k] = TakeBase(digits, after[k - 1], levels[k])
QuoteWalk(digits, after, amount, levels) ==
    /\ after \in [0..Len(levels) -> Walk(digits)]
    /\ after[0] = Untouched(amount)
    /\ \A k \in 1..Len(levels) : after[k] = TakeQuote(digits, after[k - 1], levels[k])

(* A function that follows its turns from a value of S stays in S.           *)
LEMMA LoopStays ==
    ASSUME NEW S, NEW n \in Nat, NEW f, f[0] \in S,
           NEW step \in [S \X (1..n) -> S],
           \A k \in 1..n : f[k - 1] \in S => f[k] = step[<<f[k - 1], k>>]
    PROVE  \A k \in 0..n : f[k] \in S
<1> DEFINE Bad == {k \in 0..n : f[k] \notin S}
<1>1. SUFFICES ASSUME Bad # {} PROVE FALSE
  OBVIOUS
<1>2. PICK k \in 1..n : k \in Bad /\ (k - 1) \notin Bad
  <2>1. Bad \in SUBSET (0..n) /\ 0 \notin Bad
    OBVIOUS
  <2> HIDE DEF Bad
  <2> QED  BY <1>1, <2>1, FirstBreak
<1>3. f[k - 1] \in S
  BY <1>2
<1>4. <<f[k - 1], k>> \in S \X (1..n) /\ f[k] = step[<<f[k - 1], k>>]
  BY <1>3
<1> QED  BY <1>2, <1>4

LEMMA ForBaseIs ==
    ASSUME NEW digits \in Nat, NEW amount \in Sized(digits), NEW levels \in Seq(MetLevel)
    PROVE  \E after : BaseWalk(digits, after, amount, levels)
                          /\ ForBase(digits, amount, levels) = after[Len(levels)]
<1> DEFINE L == Len(levels)
           step == [pair \in Walk(digits) \X (1..L) |-> TakeBase(digits, pair[1], levels[pair[2]])]
           Turns(f, n) == f = [k \in 0..n |-> IF k = 0 THEN Untouched(amount)
                                              ELSE TakeBase(digits, f[k - 1], levels[k])]
<1>1. L \in Nat /\ Untouched(amount) \in Walk(digits) /\ \A k \in 1..L : levels[k] \in MetLevel
  BY UntouchedType
<1> HIDE DEF L
<1>2. step \in [Walk(digits) \X (1..L) -> Walk(digits)]
  BY <1>1, TakeType
<1>3. ASSUME NEW f, NEW w \in Walk(digits),
             NEW k \in 1..L PROVE step[<<w, k>>] = TakeBase(digits, w, levels[k])
  OBVIOUS
<1> HIDE DEF step
<1>4. PICK g : g \in LoopOf(step, Untouched(amount), L, Walk(digits))
  BY <1>1, <1>2, LoopExists
<1>5. Turns(g, L)
  <2>1. g \in [0..L -> Walk(digits)] /\ g[0] = Untouched(amount)
    BY <1>4 DEF LoopOf
  <2>2. ASSUME NEW k \in 1..L PROVE g[k] = TakeBase(digits, g[k - 1], levels[k])
    <3>1. g[k - 1] \in Walk(digits) /\ g[k] = step[<<g[k - 1], k>>]
      BY <1>1, <1>4 DEF LoopOf
    <3> QED  BY <3>1, <1>3
  <2> QED  BY <2>1, <2>2, <1>1
<1>6. PICK after : Turns(after, L) /\ ForBase(digits, amount, levels) = after[L]
  <2>1. \E after : Turns(after, L)
    BY <1>5
  <2> QED  BY <2>1, Zenon DEF ForBase, L
<1>7. after[0] = Untouched(amount)
      /\ \A k \in 1..L : after[k] = TakeBase(digits, after[k - 1], levels[k])
  BY <1>1, <1>6
<1>8. \A k \in 0..L : after[k] \in Walk(digits)
  <2>1. \A k \in 1..L : after[k - 1] \in Walk(digits) => after[k] = step[<<after[k - 1], k>>]
    BY <1>3, <1>7
  <2>2. after[0] \in Walk(digits)
    BY <1>1, <1>7
  <2> QED  BY <2>1, <2>2, <1>1, <1>2, LoopStays
<1>9. after \in [0..L -> Walk(digits)]
  BY <1>6, <1>8
<1> QED  BY <1>6, <1>7, <1>9 DEF BaseWalk, L

LEMMA ForQuoteIs ==
    ASSUME NEW digits \in Nat, NEW amount \in Sized(digits), NEW levels \in Seq(MetLevel)
    PROVE  \E after : QuoteWalk(digits, after, amount, levels)
                          /\ ForQuote(digits, amount, levels) = after[Len(levels)]
<1> DEFINE L == Len(levels)
           step == [pair \in Walk(digits) \X (1..L) |-> TakeQuote(digits, pair[1], levels[pair[2]])]
           Turns(f, n) == f = [k \in 0..n |-> IF k = 0 THEN Untouched(amount)
                                              ELSE TakeQuote(digits, f[k - 1], levels[k])]
<1>1. L \in Nat /\ Untouched(amount) \in Walk(digits) /\ \A k \in 1..L : levels[k] \in MetLevel
  BY UntouchedType
<1> HIDE DEF L
<1>2. step \in [Walk(digits) \X (1..L) -> Walk(digits)]
  BY <1>1, TakeType
<1>3. ASSUME NEW f, NEW w \in Walk(digits),
             NEW k \in 1..L PROVE step[<<w, k>>] = TakeQuote(digits, w, levels[k])
  OBVIOUS
<1> HIDE DEF step
<1>4. PICK g : g \in LoopOf(step, Untouched(amount), L, Walk(digits))
  BY <1>1, <1>2, LoopExists
<1>5. Turns(g, L)
  <2>1. g \in [0..L -> Walk(digits)] /\ g[0] = Untouched(amount)
    BY <1>4 DEF LoopOf
  <2>2. ASSUME NEW k \in 1..L PROVE g[k] = TakeQuote(digits, g[k - 1], levels[k])
    <3>1. g[k - 1] \in Walk(digits) /\ g[k] = step[<<g[k - 1], k>>]
      BY <1>1, <1>4 DEF LoopOf
    <3> QED  BY <3>1, <1>3
  <2> QED  BY <2>1, <2>2, <1>1
<1>6. PICK after : Turns(after, L) /\ ForQuote(digits, amount, levels) = after[L]
  <2>1. \E after : Turns(after, L)
    BY <1>5
  <2> QED  BY <2>1, Zenon DEF ForQuote, L
<1>7. after[0] = Untouched(amount)
      /\ \A k \in 1..L : after[k] = TakeQuote(digits, after[k - 1], levels[k])
  BY <1>1, <1>6
<1>8. \A k \in 0..L : after[k] \in Walk(digits)
  <2>1. \A k \in 1..L : after[k - 1] \in Walk(digits) => after[k] = step[<<after[k - 1], k>>]
    BY <1>3, <1>7
  <2>2. after[0] \in Walk(digits)
    BY <1>1, <1>7
  <2> QED  BY <2>1, <2>2, <1>1, <1>2, LoopStays
<1>9. after \in [0..L -> Walk(digits)]
  BY <1>6, <1>8
<1> QED  BY <1>6, <1>7, <1>9 DEF QuoteWalk, L

LEMMA WalkTypes ==
    ASSUME NEW digits \in Nat, NEW amount \in Sized(digits), NEW levels \in Seq(MetLevel)
    PROVE  ForBase(digits, amount, levels) \in Walk(digits) /\ ForQuote(digits, amount, levels) \in Walk(digits)
<1>1. Len(levels) \in Nat /\ Len(levels) \in 0..Len(levels)
  OBVIOUS
<1>2. PICK n \in Nat : n = Len(levels)
  BY <1>1
<1>3. \E f \in [0..n -> Walk(digits)] : ForBase(digits, amount, levels) = f[n]
  BY <1>2, ForBaseIs, Zenon DEF BaseWalk
<1>4. \E f \in [0..n -> Walk(digits)] : ForQuote(digits, amount, levels) = f[n]
  BY <1>2, ForQuoteIs, Zenon DEF QuoteWalk
<1> QED  BY <1>3, <1>4

-----------------------------------------------------------------------------
(* One leg.                                                                *)

LEMMA EffectiveType ==
    ASSUME NEW digits \in Nat, NEW leg \in LegType, NEW haircut \in Share, NEW shock \in Share
    PROVE  /\ Effective(digits, leg, haircut, shock) \in Seq(MetLevel)
           /\ Len(Effective(digits, leg, haircut, shock)) = Len(leg.levels)
           /\ \A i \in 1..Len(leg.levels) :
                 /\ leg.levels[i].price \in Nat \ {0} /\ leg.levels[i].quantity \in Nat \ {0}
                 /\ Effective(digits, leg, haircut, shock)[i].price
                       = Multiply(digits, Num(leg.levels[i].price),
                                  IF leg.op = "SELL_BASE" THEN Subtract(digits, One, shock)
                                                          ELSE Add(digits, One, shock))
                 /\ Effective(digits, leg, haircut, shock)[i].quantity \in Positives
<1>1. leg.levels \in Seq(LevelType)
  BY DEF LegType
<1>2. PICK factor \in Positives :
          factor = IF leg.op = "SELL_BASE" THEN Subtract(digits, One, shock) ELSE Add(digits, One, shock)
  BY ShareFactors, RoundedType DEF Subtract, Add, Positives
<1>3. PICK part \in Positives : part = Subtract(digits, One, haircut)
  BY ShareFactors, RoundedType DEF Subtract, Positives
<1>4. ASSUME NEW n \in Nat \ {0},
             NEW f \in Positives PROVE Multiply(digits, Num(n), f) \in Positives
  <2>1. Num(n) \in Positives
    BY NumOrder
  <2> QED  BY <2>1, ZeroSized, SizedOps
<1>5. \A i \in 1..Len(leg.levels) :
          leg.levels[i].price \in Nat \ {0} /\ leg.levels[i].quantity \in Nat \ {0}
  <2>1. ASSUME NEW i \in 1..Len(leg.levels)
        PROVE  leg.levels[i].price \in Nat \ {0} /\ leg.levels[i].quantity \in Nat \ {0}
    <3>1. leg.levels[i] \in LevelType
      BY <1>1
    <3> QED  BY <3>1 DEF LevelType
  <2> QED  BY <2>1
<1> DEFINE Met(i) == [price |-> Multiply(digits, Num(leg.levels[i].price), factor),
                      quantity |-> Multiply(digits, Num(leg.levels[i].quantity), part)]
<1>6. \A i \in 1..Len(leg.levels) : Met(i) \in MetLevel /\ Met(i).quantity \in Positives
  BY <1>4, <1>5 DEF MetLevel
<1>7. Effective(digits, leg, haircut, shock) = [i \in 1..Len(leg.levels) |-> Met(i)]
  <2>1. DOMAIN leg.levels = 1..Len(leg.levels)
    BY <1>1
  <2> QED  BY <2>1, <1>2, <1>3, Zenon DEF Effective
<1>8. PICK n \in Nat : n = Len(leg.levels)
  BY <1>1
<1> DEFINE met == [i \in 1..n |-> Met(i)]
<1>9. met \in Seq(MetLevel) /\ Len(met) = n
  <2>1. \A i \in 1..n : Met(i) \in MetLevel
    BY <1>6, <1>8
  <2> HIDE DEF Met
  <2> QED  BY <2>1
<1>10. Effective(digits, leg, haircut, shock) = met
  BY <1>7, <1>8
<1>11. \A i \in 1..n : met[i].price = Multiply(digits, Num(leg.levels[i].price), factor)
                        /\ met[i].quantity \in Positives
  BY <1>6, <1>8
<1> HIDE DEF met
<1> QED  BY <1>2, <1>5, <1>8, <1>9, <1>10, <1>11

LegResult(digits) ==
    [input : Sized(digits), quantity : Sized(digits), consumed : Sized(digits),
     unspent : Sized(digits), notional : Sized(digits), output : Sized(digits),
     executable : BOOLEAN, rejected : BOOLEAN]

LEMMA UnlimitedType ==
    ASSUME NEW levels \in Seq(MetLevel), levels # <<>>
    PROVE  /\ Unlimited(levels) \in Seq(MetLevel) /\ Len(Unlimited(levels)) = 1
           /\ Unlimited(levels)[1].price = levels[1].price
           /\ Unlimited(levels)[1].quantity = Infinity
<1>1. levels[1] \in MetLevel
  BY EmptySeq
<1>2. [price |-> levels[1].price, quantity |-> Infinity] \in MetLevel
  BY <1>1 DEF MetLevel
<1> DEFINE level == [price |-> levels[1].price, quantity |-> Infinity]
<1>3. level.price = levels[1].price /\ level.quantity = Infinity
  OBVIOUS
<1> HIDE DEF level
<1>4. <<level>> \in Seq(MetLevel) /\ Len(<<level>>) = 1 /\ <<level>>[1] = level
  BY <1>2 DEF level
<1>5. Unlimited(levels) = <<level>>
  BY DEF Unlimited, level
<1> QED  BY <1>3, <1>4, <1>5

\* The levels that leg's order walks.
Displayed(levels, mode) == IF mode = "top" THEN Unlimited(levels) ELSE levels

LEMMA DisplayedType ==
    ASSUME NEW levels \in Seq(MetLevel), levels # <<>>, NEW mode
    PROVE  Displayed(levels, mode) \in Seq(MetLevel)
  BY UnlimitedType DEF Displayed

LEMMA OrderQuantityIs ==
    ASSUME NEW digits \in Nat, NEW leg, NEW amount \in Sized(digits),
           NEW levels \in Seq(MetLevel), NEW step \in Nat
    PROVE  \E x \in Sized(digits) :
               /\ OrderQuantity(digits, leg, amount, levels, step) = Floored(digits, x, step)
               /\ OrderQuantity(digits, leg, amount, levels, step) \in Sized(digits)
               /\ x = IF leg.op = "SELL_BASE" THEN amount ELSE ForQuote(digits, amount, levels).base
<1>1. ForQuote(digits, amount, levels).base \in Sized(digits)
  BY WalkTypes DEF Walk
<1>2. ASSUME NEW x \in Sized(digits) PROVE Floored(digits, x, step) \in Sized(digits)
  <2>1. x \in Rational
    BY ZeroSized
  <2>2. CASE digits = Exact
    BY <2>1, <2>2, FlooredType, ExactOps
  <2>3. CASE digits # Exact
    BY <2>1, <2>3, FlooredLots DEF Sized
  <2> QED  BY <2>2, <2>3
<1> QED  BY <1>1, <1>2 DEF OrderQuantity

\* An order that an executable leg stands for.
Placed(digits, order, rules) ==
    /\ order.quantity \in Sized(digits) /\ order.notional \in Sized(digits)
    /\ \E x \in Sized(digits) : order.quantity = Floored(digits, x, rules.step)
    /\ ~Rejects(rules, order.quantity, order.notional)

(* A fee takes no more than there is, and leaves the rest of it.           *)
LEMMA FeeOf ==
    ASSUME NEW gross \in NonNegatives, NEW fee \in Share
    PROVE  /\ Leq(Times(gross, fee), gross)
           /\ Minus(gross, Times(gross, fee)) = Times(gross, Minus(One, fee))
<1>1. gross \in Rational /\ Leq(Zero, gross) /\ fee \in Rational /\ Leq(fee, One) /\ One \in Rational
  BY ZeroOne, MoreLaws DEF NonNegatives, Share
<1>2. PICK rest \in Rational : rest = Minus(One, fee) /\ Plus(rest, fee) = One
  BY <1>1, Closed, PlusLaws
<1>3. Times(gross, One) = gross /\ Times(gross, fee) = Times(fee, gross) /\ Times(One, gross) = gross
      /\ Times(gross, rest) = Times(rest, gross)
  BY <1>1, <1>2, TimesLaws
<1>4. Leq(Times(fee, gross), Times(One, gross))
  BY <1>1, OrderLaws
<1>5. Plus(Times(rest, gross), Times(fee, gross)) = gross
  BY <1>1, <1>2, <1>3, TimesLaws
<1>6. Times(rest, gross) \in Rational /\ Times(fee, gross) \in Rational
  BY <1>1, <1>2, Closed
<1>7. Minus(Plus(Times(rest, gross), Times(fee, gross)), Times(fee, gross)) = Times(rest, gross)
  BY <1>6, PlusLaws
<1> QED  BY <1>2, <1>3, <1>4, <1>5, <1>7

LEMMA FilledType ==
    ASSUME NEW digits \in Nat, NEW leg, NEW amount \in Sized(digits), NEW fee \in Share, NEW rules,
           NEW quantity \in Sized(digits), NEW enough \in BOOLEAN, NEW walk \in Walk(digits)
    PROVE  /\ Filled(digits, leg, amount, fee, rules, quantity, enough, walk) \in LegResult(digits)
           /\ Filled(digits, leg, amount, fee, rules, quantity, enough, walk).quantity = quantity
           /\ Filled(digits, leg, amount, fee, rules, quantity, enough, walk).notional = walk.quote
           /\ Filled(digits, leg, amount, fee, rules, quantity, enough, walk).executable
                  => ~Rejects(rules, quantity, walk.quote) /\ enough /\ walk.left = Zero
<1>1. walk.base \in Sized(digits) /\ walk.quote \in Sized(digits)
  BY DEF Walk
<1>2. PICK consumed \in Sized(digits) :
          consumed = IF leg.op = "SELL_BASE" THEN walk.base ELSE walk.quote
  BY <1>1
<1>3. PICK gross \in Sized(digits) :
          gross = IF leg.op = "SELL_BASE" THEN walk.quote ELSE walk.base
  BY <1>1
<1>4. PICK output \in Sized(digits) :
          output = Subtract(digits, gross, Multiply(digits, gross, fee))
  <2>1. fee \in Sized(digits) /\ Multiply(digits, gross, fee) \in Sized(digits)
    <3>1. fee \in NonNegatives
      BY DEF Share, NonNegatives
    <3> QED  BY <3>1, ZeroSized, OnePositive, SizedOps
  <2>2. digits = Exact => Leq(Multiply(digits, gross, fee), gross)
    BY ExactOps, FeeOf DEF Sized
  <2> QED  BY <2>1, <2>2, SubtractSized
<1>5. PICK unspent \in Sized(digits) :
          unspent = IF Leq(amount, consumed) THEN Zero ELSE Subtract(digits, amount, consumed)
  <2>1. Zero \in Sized(digits) /\ amount \in Rational /\ consumed \in Rational
    BY ZeroSized
  <2>2. ~Leq(amount, consumed) => Leq(consumed, amount)
    BY <2>1, OrderLaws, MoreLaws
  <2> QED  BY <2>1, <2>2, SubtractSized
<1>6. PICK rejected \in BOOLEAN : rejected = Rejects(rules, quantity, walk.quote)
  BY DEF Rejects
<1>7. PICK executable \in BOOLEAN :
          executable = (enough /\ walk.left = Zero /\ quantity # Zero /\ ~rejected)
  OBVIOUS
<1>8. Filled(digits, leg, amount, fee, rules, quantity, enough, walk)
          = [input |-> amount, quantity |-> quantity, consumed |-> consumed, unspent |-> unspent,
             notional |-> walk.quote, output |-> output, executable |-> executable,
             rejected |-> rejected]
  BY <1>2, <1>3, <1>4, <1>5, <1>6, <1>7 DEF Filled
<1> DEFINE filled == [input |-> amount, quantity |-> quantity, consumed |-> consumed,
                      unspent |-> unspent, notional |-> walk.quote, output |-> output,
                      executable |-> executable, rejected |-> rejected]
<1>9. filled \in LegResult(digits)
  BY <1>1 DEF LegResult
<1>10. filled.quantity = quantity /\ filled.notional = walk.quote
       /\ filled.executable = executable
  OBVIOUS
<1>11. executable => ~Rejects(rules, quantity, walk.quote) /\ enough /\ walk.left = Zero
  BY <1>6, <1>7
<1> HIDE DEF filled
<1>12. Filled(digits, leg, amount, fee, rules, quantity, enough, walk) = filled
  BY <1>8 DEF filled
<1> QED  BY <1>9, <1>10, <1>11, <1>12

(* What simulate_leg returns, and of an executable leg that its order is placed.  *)
LEMMA LegIs ==
    ASSUME NEW digits \in Nat, NEW leg, NEW amount \in Sized(digits), NEW mode, NEW fee \in Share,
           NEW levels \in Seq(MetLevel), NEW rules, rules.step \in Nat
    PROVE  /\ Leg(digits, leg, amount, mode, fee, levels, rules) \in LegResult(digits)
           /\ Leg(digits, leg, amount, mode, fee, levels, rules).executable
                  => Placed(digits, Leg(digits, leg, amount, mode, fee, levels, rules), rules)
<1>1. CASE levels = <<>>
  <2>1. Leg(digits, leg, amount, mode, fee, levels, rules) = NotExecuted(amount, FALSE)
    BY <1>1 DEF Leg
  <2>2. NotExecuted(amount, FALSE) \in LegResult(digits) /\ ~NotExecuted(amount, FALSE).executable
    <3>1. Zero \in Sized(digits)
      BY ZeroSized
    <3> QED  BY <3>1 DEF NotExecuted, LegResult
  <2> QED  BY <2>1, <2>2
<1>2. CASE levels # <<>>
  <2>1. PICK met \in Seq(MetLevel) : met = Displayed(levels, mode)
    BY <1>2, DisplayedType
  <2>2. PICK x \in Sized(digits) :
            /\ OrderQuantity(digits, leg, amount, met, rules.step) = Floored(digits, x, rules.step)
            /\ OrderQuantity(digits, leg, amount, met, rules.step) \in Sized(digits)
            /\ x = IF leg.op = "SELL_BASE" THEN amount ELSE ForQuote(digits, amount, met).base
    <3>1. \A step \in Nat : \E x \in Sized(digits) :
              /\ OrderQuantity(digits, leg, amount, met, step) = Floored(digits, x, step)
              /\ OrderQuantity(digits, leg, amount, met, step) \in Sized(digits)
              /\ x = IF leg.op = "SELL_BASE" THEN amount ELSE ForQuote(digits, amount, met).base
      BY OrderQuantityIs
    <3> QED  BY <3>1
  <2>3. PICK quantity \in Sized(digits) : quantity = OrderQuantity(digits, leg, amount, met, rules.step)
    BY <2>2
  <2>4. PICK walk \in Walk(digits) : walk = ForBase(digits, quantity, met)
    BY WalkTypes
  <2>5. PICK enough \in BOOLEAN : enough = Enough(digits, leg, amount, mode, met)
    BY DEF Enough
  <2>6. Leg(digits, leg, amount, mode, fee, levels, rules)
            = Filled(digits, leg, amount, fee, rules, quantity, enough, walk)
    BY <1>2, <2>1, <2>3, <2>4, <2>5 DEF Leg, Walked, Displayed
  <2>7. PICK filled : filled = Filled(digits, leg, amount, fee, rules, quantity, enough, walk)
    OBVIOUS
  <2>8. /\ filled \in LegResult(digits)
        /\ filled.quantity = quantity
        /\ filled.notional = walk.quote
        /\ filled.executable => ~Rejects(rules, quantity, walk.quote) /\ enough /\ walk.left = Zero
    BY <2>7, FilledType
  <2>9. walk.quote \in Sized(digits)
    BY DEF Walk
  <2>10. filled.executable => Placed(digits, filled, rules)
    BY <2>2, <2>3, <2>8, <2>9 DEF Placed
  <2> QED  BY <2>6, <2>7, <2>8, <2>10
<1> QED  BY <1>1, <1>2

-----------------------------------------------------------------------------
(* The route.                                                              *)

PassOK(pass) == pass.haircut \in Share /\ pass.shock \in Share /\ pass.reference \in BOOLEAN

LEMMA LevelsOfType ==
    ASSUME NEW digits \in Nat, NEW legs, NEW i, legs[i] \in LegType, NEW pass, PassOK(pass)
    PROVE  LevelsOf(digits, legs, i, pass) \in Seq(MetLevel)
<1>1. Zero \in Share
  BY ZeroOne DEF Share, Leq, Less, Zero, One
<1> QED  BY <1>1, EffectiveType DEF LevelsOf, PassOK

RouteRun(digits) == [executable : BOOLEAN, done : Seq(LegResult(digits)), current : Sized(digits)]

\* The rules and the fee that a pass applies to a leg.
PassRules(leg, pass) == IF pass.reference THEN NoFilters ELSE RulesOf(leg)
PassFee(leg, pass) == IF pass.reference THEN Zero ELSE leg.fee

\* What a pass makes of leg i, for an amount.
PassLeg(digits, legs, i, amount, pass) ==
    Leg(digits, legs[i], amount, pass.mode, PassFee(legs[i], pass), LevelsOf(digits, legs, i, pass),
        PassRules(legs[i], pass))

LegsOK(legs, pass) ==
    /\ legs \in Seq(LegType)
    /\ \A i \in 1..Len(legs) : PassRules(legs[i], pass).step \in Nat

LEMMA PassLegIs ==
    ASSUME NEW digits \in Nat, NEW pass, PassOK(pass), NEW legs, LegsOK(legs, pass),
           NEW i \in 1..Len(legs),
           NEW amount \in Sized(digits)
    PROVE  /\ PassLeg(digits, legs, i, amount, pass) \in LegResult(digits)
           /\ PassLeg(digits, legs, i, amount, pass).executable
                  => Placed(digits, PassLeg(digits, legs, i, amount, pass), PassRules(legs[i], pass))
<1>1. legs[i] \in LegType /\ PassRules(legs[i], pass).step \in Nat
  BY DEF LegsOK
<1>2. PassFee(legs[i], pass) \in Share
  <2>1. Zero \in Share
    BY ZeroOne DEF Share, Leq, Less, Zero, One
  <2>2. legs[i].fee \in Share
    BY <1>1 DEF LegType, Share
  <2> QED  BY <2>1, <2>2 DEF PassFee
<1>3. LevelsOf(digits, legs, i, pass) \in Seq(MetLevel)
  BY <1>1, LevelsOfType
<1> QED  BY <1>1, <1>2, <1>3, LegIs DEF PassLeg

\* What enters leg i: the amount, or what the leg before it put out.
Entering(done, amount, i) == IF i = 1 THEN amount ELSE done[i - 1].output

\* The legs of a run are those of the route, each given what the one before put out.
Chained(digits, run, legs, amount, pass, k) ==
    /\ run \in RouteRun(digits)
    /\ Len(run.done) <= k
    /\ \A i \in 1..Len(run.done) :
          run.done[i] = PassLeg(digits, legs, i, Entering(run.done, amount, i), pass)
    /\ run.executable => /\ Len(run.done) = k
                         /\ run.current = Entering(run.done, amount, k + 1)
                         /\ \A i \in 1..k : run.done[i].executable /\ legs[i].book

LEMMA EnteredChained ==
    ASSUME NEW digits \in Nat, NEW legs, NEW pass, NEW amount \in Sized(digits)
    PROVE  Chained(digits, Entered(amount), legs, amount, pass, 0)
<1>1. Entered(amount) = [executable |-> TRUE, done |-> <<>>, current |-> amount]
  BY DEF Entered
<1>2. <<>> \in Seq(LegResult(digits)) /\ Len(<<>>) = 0
  OBVIOUS
<1> QED  BY <1>1, <1>2 DEF Chained, RouteRun, Entering

\* One turn adds one leg to the run, or stops it.
Extends(digits, next, run, legs, k, pass) ==
    \/ ~next.executable /\ next.done = run.done
    \/ /\ run.executable /\ legs[k].book
       /\ next.done = Append(run.done, PassLeg(digits, legs, k, run.current, pass))
       /\ next.executable = PassLeg(digits, legs, k, run.current, pass).executable
       /\ next.executable => next.current = PassLeg(digits, legs, k, run.current, pass).output

LEMMA ContinuedIs ==
    ASSUME NEW digits \in Nat, NEW pass, PassOK(pass), NEW legs, LegsOK(legs, pass),
           NEW k \in 1..Len(legs),
           NEW run \in RouteRun(digits)
    PROVE  /\ Continued(digits, run, legs[k], LevelsOf(digits, legs, k, pass), pass) \in RouteRun(digits)
           /\ Extends(digits, Continued(digits, run, legs[k], LevelsOf(digits, legs, k, pass), pass), run, legs, k, pass)
<1> DEFINE next == Continued(digits, run, legs[k], LevelsOf(digits, legs, k, pass), pass)
<1>1. run.executable \in BOOLEAN /\ run.done \in Seq(LegResult(digits)) /\ run.current \in Sized(digits)
      /\ Zero \in Sized(digits)
  BY ZeroSized DEF RouteRun
<1>2. CASE ~run.executable \/ ~legs[k].book
  <2>1. next = [run EXCEPT !.executable = FALSE, !.current = Zero]
    BY <1>2 DEF Continued
  <2>2. [run EXCEPT !.executable = FALSE, !.current = Zero] \in RouteRun(digits)
    BY <1>1 DEF RouteRun
  <2>3. [run EXCEPT !.executable = FALSE, !.current = Zero].executable = FALSE
        /\ [run EXCEPT !.executable = FALSE, !.current = Zero].done = run.done
    BY DEF RouteRun
  <2> HIDE DEF next
  <2> QED  BY <2>1, <2>2, <2>3 DEF Extends, next
<1>3. CASE run.executable /\ legs[k].book
  <2>1. PICK leg \in LegResult(digits) : leg = PassLeg(digits, legs, k, run.current, pass)
    BY <1>1, PassLegIs
  <2>2. next = Converted(run, leg)
    BY <1>3, <2>1 DEF Continued, PassLeg, PassFee, PassRules
  <2>3. PICK current \in Sized(digits) : current = IF leg.executable THEN leg.output ELSE Zero
    BY <1>1 DEF LegResult
  <2>4. PICK done \in Seq(LegResult(digits)) : done = Append(run.done, leg)
    <3>1. Append(run.done, leg) \in Seq(LegResult(digits))
      BY <1>1, AppendProperties
    <3> QED  BY <3>1
  <2>5. PICK executable \in BOOLEAN : executable = leg.executable
    BY DEF LegResult
  <2>6. next = [executable |-> executable, done |-> done, current |-> current]
    BY <2>2, <2>3, <2>4, <2>5 DEF Converted
  <2> HIDE DEF next
  <2>7. next \in RouteRun(digits)
    BY <2>6 DEF RouteRun
  <2>8. next.done = done /\ next.executable = executable /\ next.current = current
    BY <2>6
  <2>9. Extends(digits, next, run, legs, k, pass)
    BY <1>3, <2>1, <2>3, <2>4, <2>5, <2>8 DEF Extends
  <2> QED  BY <2>7, <2>9 DEF next
<1> QED  BY <1>1, <1>2, <1>3

LEMMA ChainGoesOn ==
    ASSUME NEW digits \in Nat, NEW legs, NEW pass, NEW amount, NEW k \in Nat \ {0},
           NEW run, Chained(digits, run, legs, amount, pass, k - 1),
           NEW next \in RouteRun(digits), Extends(digits, next, run, legs, k, pass),
           PassLeg(digits, legs, k, run.current, pass) \in LegResult(digits)
    PROVE  Chained(digits, next, legs, amount, pass, k)
<1>1. run \in RouteRun(digits) /\ run.done \in Seq(LegResult(digits)) /\ Len(run.done) \in Nat
  BY DEF Chained, RouteRun
<1>2. CASE ~next.executable /\ next.done = run.done
  <2>1. Len(next.done) <= k
    BY <1>1, <1>2 DEF Chained
  <2> QED  BY <1>2, <2>1 DEF Chained
<1>3. CASE run.executable /\ ~(~next.executable /\ next.done = run.done)
  <2>1. PICK leg \in LegResult(digits) : leg = PassLeg(digits, legs, k, run.current, pass)
    OBVIOUS
  <2>2. /\ next.done = Append(run.done, leg)
        /\ next.executable = leg.executable /\ legs[k].book
        /\ next.executable => next.current = leg.output
    BY <1>3, <2>1 DEF Extends
  <2>3. Len(run.done) = k - 1 /\ run.current = Entering(run.done, amount, k)
        /\ \A i \in 1..(k - 1) : run.done[i].executable /\ legs[i].book
    BY <1>3 DEF Chained
  <2>4. PICK done \in Seq(LegResult(digits)) : done = run.done
    BY <1>1
  <2>5. /\ Len(next.done) = k
        /\ next.done[k] = leg
        /\ \A i \in 1..(k - 1) : next.done[i] = done[i]
    BY <2>2, <2>3, <2>4
  <2>6. ASSUME NEW i \in 1..k
        PROVE  Entering(next.done, amount, i) = Entering(done, amount, i)
    BY <2>5 DEF Entering
  <2>7. ASSUME NEW i \in 1..k
        PROVE  next.done[i] = PassLeg(digits, legs, i, Entering(next.done, amount, i), pass)
    <3>1. CASE i = k
      BY <3>1, <2>1, <2>3, <2>4, <2>5, <2>6
    <3>2. CASE i # k
      <4>1. i \in 1..(k - 1) /\ i \in 1..Len(run.done)
        BY <3>2, <2>3
      <4>2. run.done[i] = PassLeg(digits, legs, i, Entering(run.done, amount, i), pass)
        BY <4>1 DEF Chained
      <4> QED  BY <4>1, <4>2, <2>4, <2>5, <2>6
    <3> QED  BY <3>1, <3>2
  <2>8. next.executable => /\ next.current = Entering(next.done, amount, k + 1)
                           /\ \A i \in 1..k : next.done[i].executable /\ legs[i].book
    <3>1. SUFFICES ASSUME next.executable
                   PROVE  /\ next.current = Entering(next.done, amount, k + 1)
                          /\ \A i \in 1..k : next.done[i].executable /\ legs[i].book
      OBVIOUS
    <3>2. Entering(next.done, amount, k + 1) = leg.output
      BY <2>5 DEF Entering
    <3>3. ASSUME NEW i \in 1..k PROVE next.done[i].executable /\ legs[i].book
      <4>1. CASE i = k
        BY <4>1, <3>1, <2>2, <2>5
      <4>2. CASE i # k
        <5>1. i \in 1..(k - 1)
          BY <4>2
        <5> QED  BY <5>1, <2>3, <2>4, <2>5
      <4> QED  BY <4>1, <4>2
    <3> QED  BY <3>1, <3>2, <3>3, <2>2
  <2> QED  BY <2>5, <2>7, <2>8 DEF Chained
<1> QED  BY <1>2, <1>3 DEF Extends

\* after holds the run before the first leg, and after each.
RunTurns(digits, after, legs, amount, pass, n) ==
    /\ after[0] = Entered(amount)
    /\ \A k \in 1..n : /\ after[k - 1] \in RouteRun(digits) /\ after[k] \in RouteRun(digits)
                       /\ after[k] = Continued(digits, after[k - 1], legs[k], LevelsOf(digits, legs, k, pass), pass)
                       /\ Extends(digits, after[k], after[k - 1], legs, k, pass)
                       /\ PassLeg(digits, legs, k, after[k - 1].current, pass) \in LegResult(digits)

LEMMA RunRouteTurns ==
    ASSUME NEW digits \in Nat, NEW pass, PassOK(pass), NEW legs, LegsOK(legs, pass),
           NEW amount \in Sized(digits),
           NEW n \in Nat, n = Len(legs)
    PROVE  \E after : RunTurns(digits, after, legs, amount, pass, n) /\ RunRoute(digits, legs, amount, pass) = after[n]
<1> DEFINE Turn(run, k) == Continued(digits, run, legs[k], LevelsOf(digits, legs, k, pass), pass)
           step == [pair \in RouteRun(digits) \X (1..n) |-> Turn(pair[1], pair[2])]
           Turns(f, m) == f = [k \in 0..m |-> IF k = 0 THEN Entered(amount) ELSE Turn(f[k - 1], k)]
<1>1. Entered(amount) \in RouteRun(digits)
  BY EnteredChained DEF Chained
<1>2. ASSUME NEW run \in RouteRun(digits), NEW k \in 1..n
      PROVE  Turn(run, k) \in RouteRun(digits) /\ Extends(digits, Turn(run, k), run, legs, k, pass)
             /\ PassLeg(digits, legs, k, run.current, pass) \in LegResult(digits)
  <2>1. run.current \in Sized(digits)
    BY DEF RouteRun
  <2> QED  BY <2>1, ContinuedIs, PassLegIs
<1> HIDE DEF Turn
<1>3. step \in [RouteRun(digits) \X (1..n) -> RouteRun(digits)]
  BY <1>2
<1>4. ASSUME NEW run \in RouteRun(digits), NEW k \in 1..n PROVE step[<<run, k>>] = Turn(run, k)
  OBVIOUS
<1> HIDE DEF step
<1>5. PICK g : g \in LoopOf(step, Entered(amount), n, RouteRun(digits))
  BY <1>1, <1>3, LoopExists
<1>6. Turns(g, n)
  <2>1. g \in [0..n -> RouteRun(digits)] /\ g[0] = Entered(amount)
    BY <1>5 DEF LoopOf
  <2>2. ASSUME NEW k \in 1..n PROVE g[k] = Turn(g[k - 1], k)
    <3>1. g[k - 1] \in RouteRun(digits) /\ g[k] = step[<<g[k - 1], k>>]
      BY <1>5 DEF LoopOf
    <3> QED  BY <3>1, <1>4
  <2> QED  BY <2>1, <2>2
<1>7. PICK after : Turns(after, n) /\ RunRoute(digits, legs, amount, pass) = after[n]
  <2>1. \E after : Turns(after, n)
    BY <1>6
  <2> QED  BY <2>1, Zenon DEF RunRoute, Turn
<1>8. after[0] = Entered(amount) /\ \A k \in 1..n : after[k] = Turn(after[k - 1], k)
  BY <1>7
<1>9. \A k \in 0..n : after[k] \in RouteRun(digits)
  <2>1. \A k \in 1..n : after[k - 1] \in RouteRun(digits) => after[k] = step[<<after[k - 1], k>>]
    BY <1>4, <1>8
  <2>2. after[0] \in RouteRun(digits)
    BY <1>1, <1>8
  <2> QED  BY <2>1, <2>2, <1>3, LoopStays
<1>10. RunTurns(digits, after, legs, amount, pass, n)
  <2>1. ASSUME NEW k \in 1..n
        PROVE  /\ after[k - 1] \in RouteRun(digits) /\ after[k] \in RouteRun(digits)
               /\ after[k] = Turn(after[k - 1], k)
               /\ Extends(digits, Turn(after[k - 1], k), after[k - 1], legs, k, pass)
               /\ PassLeg(digits, legs, k, after[k - 1].current, pass) \in LegResult(digits)
    <3>1. k - 1 \in 0..n /\ k \in 0..n
      OBVIOUS
    <3>2. PICK run \in RouteRun(digits) : run = after[k - 1]
      BY <3>1, <1>9
    <3> QED  BY <3>1, <3>2, <1>2, <1>8, <1>9
  <2> QED  BY <2>1, <1>8 DEF RunTurns, Turn
<1> QED  BY <1>7, <1>10

(* RunRoute chains the legs of the route.                                   *)
LEMMA RunRouteIs ==
    ASSUME NEW digits \in Nat, NEW pass, PassOK(pass), NEW legs, LegsOK(legs, pass),
           NEW amount \in Sized(digits)
    PROVE  Chained(digits, RunRoute(digits, legs, amount, pass), legs, amount, pass, Len(legs))
<1>1. PICK n \in Nat : n = Len(legs)
  BY DEF LegsOK
<1>2. PICK after : RunTurns(digits, after, legs, amount, pass, n) /\ RunRoute(digits, legs, amount, pass) = after[n]
  BY <1>1, RunRouteTurns
<1> DEFINE Bad == {k \in 0..n : ~Chained(digits, after[k], legs, amount, pass, k)}
<1>3. SUFFICES ASSUME Bad # {} PROVE FALSE
  BY <1>1, <1>2
<1>4. PICK k \in 1..n : k \in Bad /\ (k - 1) \notin Bad
  <2>1. Chained(digits, after[0], legs, amount, pass, 0)
    BY <1>2, EnteredChained DEF RunTurns
  <2>2. Bad \in SUBSET (0..n) /\ 0 \notin Bad
    BY <2>1
  <2> HIDE DEF Bad
  <2> QED  BY <1>3, <2>2, FirstBreak
<1>5. PICK run \in RouteRun(digits) : run = after[k - 1] /\ Chained(digits, run, legs, amount, pass, k - 1)
  BY <1>2, <1>4 DEF RunTurns
<1>6. PICK next \in RouteRun(digits) : next = after[k] /\ Extends(digits, next, run, legs, k, pass)
                               /\ PassLeg(digits, legs, k, run.current, pass) \in LegResult(digits)
  BY <1>2, <1>5 DEF RunTurns
<1>7. Chained(digits, next, legs, amount, pass, k)
  BY <1>5, <1>6, ChainGoesOn
<1> QED  BY <1>4, <1>6, <1>7

-----------------------------------------------------------------------------
(* Common multiples.                                                       *)

(* The common multiple of two numbers is a multiple of both.                *)
LEMMA CommonIs ==
    ASSUME NEW a \in Nat \ {0}, NEW b \in Nat \ {0}
    PROVE  Common(a, b) \in Nat \ {0} /\ Divides(a, Common(a, b)) /\ Divides(b, Common(a, b))
<1>1. DivisorOf(Gcd[<<a, b>>], a, b) /\ Gcd[<<a, b>>] \in Nat
  BY GcdDivides, GcdBounds
<1>2. PICK g \in Nat : g = Gcd[<<a, b>>]
  BY <1>1
<1>3. PICK m \in Nat : a = m * g
  BY <1>1, <1>2 DEF DivisorOf, Divides
<1>4. PICK n \in Nat : b = n * g
  BY <1>1, <1>2 DEF DivisorOf, Divides
<1>5. g # 0 /\ m # 0
  BY <1>3
<1>6. a \div g = m
  BY <1>3, <1>5, Quotient
<1>7. Common(a, b) = m * b
  BY <1>2, <1>6 DEF Common
<1>8. m * b \in Nat \ {0}
  BY <1>5
<1>9. Divides(b, m * b)
  BY DEF Divides
<1>10. Divides(a, m * b)
  <2>1. m * b = n * a
    BY <1>3, <1>4
  <2> QED  BY <2>1 DEF Divides
<1> QED  BY <1>7, <1>8, <1>9, <1>10

LEMMA DividesOn ==
    ASSUME NEW a \in Nat, NEW b \in Nat, NEW c \in Nat, Divides(a, b), Divides(b, c)
    PROVE  Divides(a, c)
<1>1. PICK m \in Nat : b = m * a
  BY DEF Divides
<1>2. PICK n \in Nat : c = n * b
  BY DEF Divides
<1>3. c = (n * m) * a /\ n * m \in Nat
  BY <1>1, <1>2
<1> QED  BY <1>3 DEF Divides

AnyOf(S) == CHOOSE x \in S : TRUE

LEMMA AnyIn ==
    ASSUME NEW S, S # {}
    PROVE  AnyOf(S) \in S
  BY Zenon DEF AnyOf

\* table gives the common multiple of every set of Sets, as FoldSet computes it.
FoldsTo(table, Sets) ==
    table = [S \in Sets |-> IF S = {} THEN 1 ELSE Common(AnyOf(S), table[S \ {AnyOf(S)}])]

UpTo(D, n) == {S \in SUBSET D : Cardinality(S) <= n}

(* The recursion of FoldSet has a solution on a finite set.                 *)
LEMMA FoldsExist ==
    ASSUME NEW D, IsFiniteSet(D)
    PROVE  \E table : FoldsTo(table, SUBSET D)
<1>1. Cardinality(D) \in Nat /\ \A S \in SUBSET D : IsFiniteSet(S)
      /\ Cardinality(S) \in 0..Cardinality(D)
  BY FS_CardinalityType, FS_Subset
<1> DEFINE Bad == {n \in Nat : ~ \E table : FoldsTo(table, UpTo(D, n))}
<1>2. Bad = {}
  <2>1. SUFFICES ASSUME Bad # {} PROVE FALSE
    OBVIOUS
  <2>2. PICK n \in Bad : \A m \in Bad : n <= m
    <3>1. Bad \in SUBSET Nat
      OBVIOUS
    <3> HIDE DEF Bad
    <3> QED  BY <3>1, <2>1, LeastNatural
  <2>3. n # 0
    <3>1. UpTo(D, 0) = {{}}
      BY <1>1, FS_EmptySet DEF UpTo
    <3> DEFINE table == [S \in {{}} |-> 1]
    <3>2. FoldsTo(table, UpTo(D, 0))
      BY <3>1 DEF FoldsTo
    <3> QED  BY <3>2, <2>2
  <2>4. n \in Nat \ {0} /\ n - 1 \in Nat /\ n - 1 \notin Bad
    <3>1. n \in Nat \ {0}
      BY <2>2, <2>3
    <3>2. n - 1 \in Nat /\ ~(n <= n - 1)
      BY <3>1
    <3> HIDE DEF Bad
    <3> QED  BY <3>1, <3>2, <2>2
  <2>5. PICK table : FoldsTo(table, UpTo(D, n - 1))
    BY <2>4
  <2> DEFINE longer == [S \in UpTo(D, n) |->
                           IF S = {} THEN 1 ELSE Common(AnyOf(S), table[S \ {AnyOf(S)}])]
  <2>6. ASSUME NEW S \in UpTo(D, n), S # {}
        PROVE  longer[S \ {AnyOf(S)}] = table[S \ {AnyOf(S)}]
    <3> DEFINE T == S \ {AnyOf(S)}
    <3>1. AnyOf(S) \in S /\ S \subseteq D /\ Cardinality(S) <= n
      BY <2>6, AnyIn DEF UpTo
    <3>2. Cardinality(T) = Cardinality(S) - 1
      BY <3>1, <1>1, FS_RemoveElement
    <3>3. T \in SUBSET D /\ Cardinality(S) \in Nat
      BY <3>1, <1>1
    <3>4. T \in UpTo(D, n - 1) /\ T \in UpTo(D, n)
      BY <3>1, <3>2, <3>3, <2>4 DEF UpTo
    <3> HIDE DEF T
    <3>5. longer[T] = IF T = {} THEN 1 ELSE Common(AnyOf(T), table[T \ {AnyOf(T)}])
      BY <3>4
    <3>6. table[T] = IF T = {} THEN 1 ELSE Common(AnyOf(T), table[T \ {AnyOf(T)}])
      BY <3>4, <2>5 DEF FoldsTo
    <3> HIDE DEF longer
    <3> QED  BY <3>5, <3>6 DEF T
  <2>7. ASSUME NEW S \in UpTo(D, n)
        PROVE  longer[S] = IF S = {} THEN 1 ELSE Common(AnyOf(S), longer[S \ {AnyOf(S)}])
    <3>1. longer[S] = IF S = {} THEN 1 ELSE Common(AnyOf(S), table[S \ {AnyOf(S)}])
      OBVIOUS
    <3> HIDE DEF longer
    <3> QED  BY <3>1, <2>6
  <2>8. FoldsTo(longer, UpTo(D, n))
    BY <2>7 DEF FoldsTo
  <2> QED  BY <2>8, <2>2
<1>3. UpTo(D, Cardinality(D)) = SUBSET D
  BY <1>1 DEF UpTo
<1>4. Cardinality(D) \notin Bad
  BY <1>2
<1> QED  BY <1>1, <1>3, <1>4

\* A common multiple of the members of S.
MultipleOf(q, S) == q \in Nat \ {0} /\ \A s \in S : Divides(s, q)

LEMMA FoldsMultiple ==
    ASSUME NEW D \in SUBSET (Nat \ {0}), IsFiniteSet(D), NEW table, FoldsTo(table, SUBSET D)
    PROVE  MultipleOf(table[D], D)
<1> DEFINE Bad == {n \in Nat : \E S \in SUBSET D : Cardinality(S) = n /\ ~MultipleOf(table[S], S)}
<1>1. \A S \in SUBSET D : IsFiniteSet(S) /\ Cardinality(S) \in Nat
  BY FS_CardinalityType, FS_Subset
<1>2. Bad = {}
  <2>1. SUFFICES ASSUME Bad # {} PROVE FALSE
    OBVIOUS
  <2>2. PICK n \in Bad : \A m \in Bad : n <= m
    <3>1. Bad \in SUBSET Nat
      OBVIOUS
    <3> HIDE DEF Bad
    <3> QED  BY <3>1, <2>1, LeastNatural
  <2>3. PICK S \in SUBSET D : Cardinality(S) = n /\ ~MultipleOf(table[S], S)
    BY <2>2
  <2>4. table[S] = IF S = {} THEN 1 ELSE Common(AnyOf(S), table[S \ {AnyOf(S)}])
    BY DEF FoldsTo
  <2>5. S # {}
    <3>1. MultipleOf(1, {})
      BY DEF MultipleOf
    <3> QED  BY <3>1, <2>3, <2>4
  <2>6. PICK x \in S : x = AnyOf(S)
    BY <2>5, AnyIn
  <2>7. PICK T \in SUBSET D : T = S \ {x}
    OBVIOUS
  <2>8. Cardinality(T) = n - 1 /\ n \in Nat
    BY <1>1, <2>3, <2>6, <2>7, FS_RemoveElement
  <2>9. MultipleOf(table[T], T)
    <3>1. Cardinality(T) \notin Bad
      <4>1. Cardinality(T) \in Nat /\ ~(n <= Cardinality(T))
        BY <1>1, <2>8
      <4> HIDE DEF Bad
      <4> QED  BY <4>1, <2>2
    <3> QED  BY <1>1, <3>1
  <2>10. PICK q \in Nat \ {0} : q = table[T] /\ \A s \in T : Divides(s, q)
    BY <2>9 DEF MultipleOf
  <2>11. x \in Nat \ {0} /\ table[S] = Common(x, q)
    BY <2>4, <2>5, <2>6, <2>7, <2>10
  <2>12. /\ Common(x, q) \in Nat \ {0}
         /\ Divides(x, Common(x, q))
         /\ Divides(q, Common(x, q))
    BY <2>11, CommonIs
  <2>13. ASSUME NEW s \in S PROVE Divides(s, Common(x, q))
    <3>1. CASE s = x
      BY <3>1, <2>12
    <3>2. CASE s # x
      <4>1. s \in T /\ s \in Nat
        BY <3>2, <2>7
      <4> QED  BY <4>1, <2>10, <2>12, DividesOn
    <3> QED  BY <3>1, <3>2
  <2> QED  BY <2>3, <2>11, <2>12, <2>13 DEF MultipleOf
<1>3. D \in SUBSET D /\ Cardinality(D) \in Nat /\ Cardinality(D) \notin Bad
  BY <1>1, <1>2
<1> QED  BY <1>3

(* What satisfies the combined quantum satisfies every step.                *)
LEMMA CombinedQuantumIs ==
    ASSUME NEW S \in SUBSET Nat, IsFiniteSet(S)
    PROVE  /\ CombinedQuantum(S) \in Nat
           /\ \A s \in S : s > 0 => CombinedQuantum(S) > 0 /\ Divides(s, CombinedQuantum(S))
<1>1. PICK D \in SUBSET (Nat \ {0}) : D = Positive(S)
  BY DEF Positive
<1>2. IsFiniteSet(D) /\ \A s \in S : s > 0 => s \in D
  BY <1>1, FS_Subset DEF Positive
<1>3. CASE D = {}
  BY <1>1, <1>2, <1>3 DEF CombinedQuantum
<1>4. CASE D # {}
  <2>1. \E table : FoldsTo(table, SUBSET D)
    BY <1>2, FoldsExist
  <2>2. PICK table : FoldsTo(table, SUBSET D) /\ FoldSet(Common, 1, D) = table[D]
    BY <2>1, Zenon DEF FoldSet, MapThenFoldSet, FoldsTo, AnyOf
  <2>3. MultipleOf(table[D], D)
    BY <1>2, <2>2, FoldsMultiple
  <2>4. CombinedQuantum(S) = table[D]
    BY <1>1, <1>4, <2>2, Zenon DEF CombinedQuantum
  <2> QED  BY <1>2, <2>3, <2>4 DEF MultipleOf
<1> QED  BY <1>3, <1>4

-----------------------------------------------------------------------------
(* Filters.                                                                *)

LEMMA ImageFinite ==
    ASSUME NEW S, IsFiniteSet(S), NEW f, DOMAIN f = S
    PROVE  IsFiniteSet({f[x] : x \in S})
<1> DEFINE T == {f[x] : x \in S}
           h == [x \in S |-> f[x]]
<1>1. h \in Surjection(S, T)
  BY DEF Surjection
<1> HIDE DEF T, h
<1>2. IsFiniteSet(T)
  BY <1>1, FS_Surjection
<1> QED  BY <1>2 DEF T

LEMMA LargestIs ==
    ASSUME NEW S \in SUBSET Nat, IsFiniteSet(S)
    PROVE  Largest(S) \in Nat /\ \A v \in S : v <= Largest(S)
<1> DEFINE U == S \cup {0}
<1>1. IsFiniteSet(U) /\ U \in SUBSET Nat /\ 0 \in U
  BY FS_AddElement
<1> HIDE DEF U
<1>2. \E m \in U : \A v \in U : v <= m
  <2> DEFINE Bad == {n \in Nat : \E V \in SUBSET U : /\ Cardinality(V) = n /\ V # {}
                                                     /\ ~ \E m \in V : \A v \in V : v <= m}
  <2>1. SUFFICES ASSUME Bad # {} PROVE FALSE
    <3>1. U \in SUBSET U /\ Cardinality(U) \in Nat /\ U # {}
      BY <1>1, FS_CardinalityType
    <3> QED  BY <3>1
  <2>2. PICK n \in Bad : \A k \in Bad : n <= k
    <3>1. Bad \in SUBSET Nat
      OBVIOUS
    <3> HIDE DEF Bad
    <3> QED  BY <3>1, <2>1, LeastNatural
  <2>3. PICK V \in SUBSET U : Cardinality(V) = n /\ V # {} /\ ~ \E m \in V : \A v \in V : v <= m
    BY <2>2
  <2>4. PICK x \in V : TRUE
    BY <2>3
  <2>5. PICK W \in SUBSET U : W = V \ {x}
    OBVIOUS
  <2>6. IsFiniteSet(V) /\ Cardinality(W) = n - 1 /\ n \in Nat /\ Cardinality(W) \in Nat
    BY <1>1, <2>3, <2>4, <2>5, FS_Subset, FS_RemoveElement, FS_CardinalityType
  <2>7. W = {} \/ \E m \in W : \A v \in W : v <= m
    <3>1. Cardinality(W) \notin Bad
      <4>1. Cardinality(W) \in Nat /\ ~(n <= Cardinality(W))
        BY <2>6
      <4> HIDE DEF Bad
      <4> QED  BY <4>1, <2>2
    <3> QED  BY <3>1, <2>6
  <2>8. x \in Nat
    BY <1>1, <2>4
  <2>9. CASE W = {}
    <3>1. \A v \in V : v <= x
      BY <2>5, <2>8, <2>9
    <3> QED  BY <3>1, <2>3
  <2>10. CASE \E m \in W : \A v \in W : v <= m
    <3>1. PICK m \in W : \A v \in W : v <= m
      BY <2>10
    <3>2. m \in Nat /\ m \in V
      BY <1>1, <2>5
    <3>3. CASE x <= m
      <4>1. \A v \in V : v <= m
        BY <3>1, <3>3, <2>5
      <4> QED  BY <4>1, <3>2, <2>3
    <3>4. CASE ~(x <= m)
      <4>1. ASSUME NEW v \in V PROVE v <= x
        <5>1. v \in Nat
          BY <1>1
        <5>2. CASE v = x
          BY <5>1, <5>2
        <5>3. CASE v # x
          <6>1. v <= m
            BY <5>3, <3>1, <2>5
          <6> QED  BY <6>1, <5>1, <3>2, <3>4, <2>8
        <5> QED  BY <5>2, <5>3
      <4> QED  BY <4>1, <2>3
    <3> QED  BY <3>3, <3>4
  <2> QED  BY <2>7, <2>9, <2>10
<1>3. \E m \in U : \A v \in U : m >= v
  <2>1. PICK m \in U : \A v \in U : v <= m
    BY <1>2
  <2>2. \A v \in U : m >= v
    BY <1>1, <2>1
  <2> QED  BY <2>2
<1>4. PICK m : m = Max(U) /\ m \in U /\ \A v \in U : m >= v
  <2>1. Max(U) \in U /\ \A v \in U : Max(U) >= v
    BY <1>3, Zenon DEF Max
  <2> QED  BY <2>1
<1>5. Largest(S) = m
  BY <1>4, Zenon DEF Largest, U
<1>6. m \in Nat /\ \A v \in S : v <= m
  BY <1>1, <1>4 DEF U
<1> QED  BY <1>5, <1>6

LEMMA SmallestIs ==
    ASSUME NEW S \in SUBSET Nat, NEW v \in S, v > 0
    PROVE  \E m \in Nat : Smallest(S) = Num(m) /\ m <= v
<1>1. PICK U \in SUBSET Nat : U = Positive(S) /\ v \in U
  <2>1. Positive(S) \in SUBSET Nat /\ v \in Positive(S)
    BY DEF Positive
  <2> QED  BY <2>1
<1>2. \E m \in U : \A u \in U : m <= u
  BY <1>1, LeastNatural
<1>3. PICK m \in U : m = Min(U) /\ \A u \in U : m <= u
  <2>1. Min(U) \in U /\ \A u \in U : Min(U) =< u
    BY <1>2, Zenon DEF Min
  <2> QED  BY <2>1
<1>4. Positive(S) # {}
  BY <1>1
<1>5. Smallest(S) = Num(m)
  BY <1>1, <1>3, <1>4, Zenon DEF Smallest
<1>6. m <= v /\ m \in Nat
  BY <1>1, <1>3
<1> QED  BY <1>5, <1>6

\* Filters in the form that _normalise_filters is given.
TypedLot(f) == f.min \in Nat /\ f.max \in Nat /\ f.step \in Nat
TypedNotional(f) == f.min \in Nat /\ f.max \in Nat
TypedOK(typed) ==
    /\ IsFiniteSet(typed.lots) /\ \A f \in typed.lots : TypedLot(f)
    /\ IsFiniteSet(typed.notional) /\ \A f \in typed.notional : TypedNotional(f)

\* The rules are as narrow as every filter.
LotKept(rules, f) ==
    /\ \A q \in NonNegatives : ~Less(q, rules.minQty) => Leq(Num(f.min), q)
    /\ \A q \in NonNegatives : f.max > 0 /\ ~Less(rules.maxQty, q) => Leq(q, Num(f.max))
    /\ f.step > 0 => rules.step > 0 /\ Divides(f.step, rules.step)
NotionalKept(rules, f) ==
    /\ \A q \in NonNegatives : f.applyMin /\ ~Less(q, rules.minNotional) => Leq(Num(f.min), q)
    /\ \A q \in NonNegatives :
           f.applyMax /\ f.max > 0 /\ ~Less(rules.maxNotional, q) => Leq(q, Num(f.max))

LEMMA AboveLargest ==
    ASSUME NEW S \in SUBSET Nat, IsFiniteSet(S), NEW v \in S, NEW q \in NonNegatives,
           ~Less(q, Num(Largest(S)))
    PROVE  Leq(Num(v), q)
<1>1. PICK m \in Nat : m = Largest(S) /\ v <= m
  BY LargestIs
<1>2. q \in Rational /\ Num(m) \in Rational /\ Num(v) \in Rational /\ Leq(Num(v), Num(m))
  BY <1>1, NumOrder DEF NonNegatives
<1>3. Leq(Num(m), q)
  BY <1>1, <1>2, OrderLaws
<1> QED  BY <1>2, <1>3, OrderLaws

LEMMA BelowSmallest ==
    ASSUME NEW S \in SUBSET Nat, NEW v \in S, v > 0, NEW q \in NonNegatives,
           ~Less(Smallest(S), q)
    PROVE  Leq(q, Num(v))
<1>1. PICK m \in Nat : Smallest(S) = Num(m) /\ m <= v
  BY SmallestIs
<1>2. q \in Rational /\ Num(m) \in Rational /\ Num(v) \in Rational /\ Leq(Num(m), Num(v))
  BY <1>1, NumOrder DEF NonNegatives
<1>3. Leq(q, Num(m))
  BY <1>1, <1>2, OrderLaws
<1> QED  BY <1>2, <1>3, OrderLaws

(* A value that meets the rules meets what every filter says of it.         *)
LEMMA NormalisedIs ==
    ASSUME NEW typed, TypedOK(typed)
    PROVE  /\ Normalised(typed).step \in Nat
           /\ \A f \in typed.lots : LotKept(Normalised(typed), f)
           /\ \A f \in typed.notional : NotionalKept(Normalised(typed), f)
<1> DEFINE lots == typed.lots
           mins == {f.min : f \in lots}
           maxs == {f.max : f \in lots}
           steps == {f.step : f \in lots}
           floors == {f.min : f \in {g \in typed.notional : g.applyMin}}
           caps == {f.max : f \in {g \in typed.notional : g.applyMax}}
           rules == [minQty |-> Num(Largest(mins)), maxQty |-> Smallest(maxs),
                     step |-> CombinedQuantum(steps), minNotional |-> Num(Largest(floors)),
                     maxNotional |-> Smallest(caps)]
<1>1. /\ mins \in SUBSET Nat /\ maxs \in SUBSET Nat /\ steps \in SUBSET Nat
      /\ floors \in SUBSET Nat /\ caps \in SUBSET Nat
  BY DEF TypedOK, TypedLot, TypedNotional
<1>2. IsFiniteSet(mins) /\ IsFiniteSet(steps) /\ IsFiniteSet(floors)
  <2>1. IsFiniteSet(mins)
    <3> DEFINE h == [f \in lots |-> f.min]
    <3>1. IsFiniteSet({h[f] : f \in lots})
      BY ImageFinite DEF TypedOK
    <3>2. {h[f] : f \in lots} = mins
      OBVIOUS
    <3> HIDE DEF h, mins
    <3> QED  BY <3>1, <3>2
  <2>2. IsFiniteSet(steps)
    <3> DEFINE h == [f \in lots |-> f.step]
    <3>1. IsFiniteSet({h[f] : f \in lots})
      BY ImageFinite DEF TypedOK
    <3>2. {h[f] : f \in lots} = steps
      OBVIOUS
    <3> HIDE DEF h, steps
    <3> QED  BY <3>1, <3>2
  <2>3. IsFiniteSet(floors)
    <3> DEFINE applied == {g \in typed.notional : g.applyMin}
               h == [f \in applied |-> f.min]
    <3>1. IsFiniteSet(applied)
      BY FS_Subset DEF TypedOK
    <3>2. IsFiniteSet({h[f] : f \in applied})
      BY <3>1, ImageFinite
    <3>3. {h[f] : f \in applied} = floors
      OBVIOUS
    <3> HIDE DEF h, floors, applied
    <3> QED  BY <3>2, <3>3
  <2> QED  BY <2>1, <2>2, <2>3
<1>3. Normalised(typed) = rules
  BY Zenon DEF Normalised
<1>4. /\ rules.minQty = Num(Largest(mins)) /\ rules.maxQty = Smallest(maxs)
      /\ rules.step = CombinedQuantum(steps)
      /\ rules.minNotional = Num(Largest(floors)) /\ rules.maxNotional = Smallest(caps)
  OBVIOUS
<1>5. \A f \in lots : f.min \in mins /\ f.max \in maxs /\ f.step \in steps
  OBVIOUS
<1>6. \A f \in typed.notional : (f.applyMin => f.min \in floors) /\ (f.applyMax => f.max \in caps)
  OBVIOUS
<1> HIDE DEF mins, maxs, steps, floors, caps, rules
<1>7. rules.step \in Nat
  BY <1>1, <1>2, <1>4, CombinedQuantumIs
<1>8. ASSUME NEW f \in lots PROVE LotKept(rules, f)
  <2>1. f.min \in mins /\ f.max \in maxs /\ f.step \in steps
    BY <1>5
  <2>2. ASSUME NEW q \in NonNegatives, ~Less(q, rules.minQty) PROVE Leq(Num(f.min), q)
    BY <2>1, <2>2, <1>1, <1>2, <1>4, AboveLargest
  <2>3. ASSUME NEW q \in NonNegatives, f.max > 0, ~Less(rules.maxQty, q) PROVE Leq(q, Num(f.max))
    BY <2>1, <2>3, <1>1, <1>4, BelowSmallest
  <2>4. f.step > 0 => rules.step > 0 /\ Divides(f.step, rules.step)
    BY <2>1, <1>1, <1>2, <1>4, CombinedQuantumIs
  <2> QED  BY <2>2, <2>3, <2>4 DEF LotKept
<1>9. ASSUME NEW f \in typed.notional PROVE NotionalKept(rules, f)
  <2>1. ASSUME NEW q \in NonNegatives, f.applyMin, ~Less(q, rules.minNotional)
        PROVE  Leq(Num(f.min), q)
    BY <2>1, <1>1, <1>2, <1>4, <1>6, AboveLargest
  <2>2. ASSUME NEW q \in NonNegatives, f.applyMax, f.max > 0, ~Less(rules.maxNotional, q)
        PROVE  Leq(q, Num(f.max))
    BY <2>2, <1>1, <1>4, <1>6, BelowSmallest
  <2> QED  BY <2>1, <2>2 DEF NotionalKept
<1> QED  BY <1>3, <1>7, <1>8, <1>9

(* Filters as they are listed become typed ones.                            *)
LEMMA OfTypeIs ==
    ASSUME NEW filters, IsFiniteSet(filters), NEW types
    PROVE  /\ IsFiniteSet(OfType(filters, types))
           /\ \A f : f \in OfType(filters, types) <=> f \in filters /\ f.type \in types
<1>1. OfType(filters, types) \in SUBSET filters
  BY DEF OfType
<1> QED  BY <1>1, FS_Subset DEF OfType

LEMMA FirstOfIs ==
    ASSUME NEW filters, IsFiniteSet(filters), NEW types, NEW fallback
    PROVE  /\ IsFiniteSet(FirstOf(filters, types, fallback))
           /\ FirstOf(filters, types, fallback) \subseteq filters
           /\ \A f \in filters : f.type \in types => f \in FirstOf(filters, types, fallback)
           /\ \A f \in filters : f.type \in fallback /\ ~(\E g \in filters : g.type \in types)
                                     => f \in FirstOf(filters, types, fallback)
  BY OfTypeIs DEF FirstOf

\* What a typed filter keeps of a listed one.
BinanceNotional(f) ==
    [min |-> f.min, max |-> f.max, applyMin |-> f.applyMin = "yes", applyMax |-> f.applyMax = "yes"]
MexcLot(f) == [f EXCEPT !.min = IF f.type = "LOT_SIZE" THEN @ ELSE f.step]
MexcNotional(f) == [min |-> f.min, max |-> f.max, applyMin |-> TRUE, applyMax |-> FALSE]

LEMMA BinanceTyped ==
    ASSUME NEW filters \in SUBSET FilterType, IsFiniteSet(filters)
    PROVE  /\ TypedOK(BinanceFilters(filters))
           /\ \A f \in filters : f.type \in {"LOT_SIZE", "MARKET_LOT_SIZE"}
                                     => f \in BinanceFilters(filters).lots
           /\ \A f \in filters :
                 (\/ f.type = "NOTIONAL"
                  \/ f.type = "MIN_NOTIONAL" /\ OfType(filters, {"NOTIONAL"}) = {})
                     => BinanceNotional(f) \in BinanceFilters(filters).notional
<1> DEFINE listed == IF OfType(filters, {"NOTIONAL"}) # {} THEN OfType(filters, {"NOTIONAL"})
                     ELSE OfType(filters, {"MIN_NOTIONAL"})
           lots == OfType(filters, {"LOT_SIZE", "MARKET_LOT_SIZE"})
           notional == {BinanceNotional(f) : f \in listed}
<1>1. IsFiniteSet(lots) /\ IsFiniteSet(listed) /\ lots \subseteq filters /\ listed \subseteq filters
  BY OfTypeIs
<1>2. \A f \in filters : f.type \in {"LOT_SIZE", "MARKET_LOT_SIZE"} => f \in lots
  BY OfTypeIs
<1>3. \A f \in filters :
          (\/ f.type = "NOTIONAL"
           \/ f.type = "MIN_NOTIONAL" /\ OfType(filters, {"NOTIONAL"}) = {}) => f \in listed
  BY OfTypeIs
<1>4. BinanceFilters(filters) = [lots |-> lots, notional |-> notional]
  BY Zenon DEF BinanceFilters, BinanceNotional
<1>5. BinanceFilters(filters).lots = lots /\ BinanceFilters(filters).notional = notional
  BY <1>4
<1> HIDE DEF listed, lots
<1>6. IsFiniteSet(notional)
  <2> DEFINE h == [f \in listed |-> BinanceNotional(f)]
  <2>1. IsFiniteSet({h[f] : f \in listed})
    BY <1>1, ImageFinite
  <2>2. {h[f] : f \in listed} = notional
    OBVIOUS
  <2> HIDE DEF h, notional
  <2> QED  BY <2>1, <2>2
<1>7. \A f \in lots : TypedLot(f)
  BY <1>1 DEF TypedLot, FilterType
<1>8. \A f \in notional : TypedNotional(f)
  BY <1>1 DEF TypedNotional, FilterType, BinanceNotional
<1>9. \A f \in listed : BinanceNotional(f) \in notional
  OBVIOUS
<1> HIDE DEF notional
<1>10. TypedOK(BinanceFilters(filters))
  BY <1>1, <1>5, <1>6, <1>7, <1>8 DEF TypedOK
<1> QED  BY <1>2, <1>3, <1>5, <1>9, <1>10

LEMMA MexcTyped ==
    ASSUME NEW filters \in SUBSET FilterType, IsFiniteSet(filters)
    PROVE  /\ TypedOK(MexcFilters(filters))
           /\ \A f \in filters :
                 (\/ f.type = "LOT_SIZE"
                  \/ f.type = "BASE_SIZE_PRECISION" /\ OfType(filters, {"LOT_SIZE"}) = {})
                     => MexcLot(f) \in MexcFilters(filters).lots
           /\ \A f \in filters :
                 (\/ f.type \in {"NOTIONAL", "MIN_NOTIONAL"}
                  \/ /\ f.type = "QUOTE_AMOUNT_PRECISION"
                     /\ OfType(filters, {"NOTIONAL"}) = {} /\ OfType(filters, {"MIN_NOTIONAL"}) = {})
                     => MexcNotional(f) \in MexcFilters(filters).notional
<1> DEFINE sized == FirstOf(filters, {"LOT_SIZE"}, {"BASE_SIZE_PRECISION"})
           valued == FirstOf(filters, {"NOTIONAL", "MIN_NOTIONAL"}, {"QUOTE_AMOUNT_PRECISION"})
           lots == {MexcLot(f) : f \in sized}
           notional == {MexcNotional(f) : f \in valued}
<1>1. IsFiniteSet(sized) /\ IsFiniteSet(valued) /\ sized \subseteq filters /\ valued \subseteq filters
  BY FirstOfIs
<1>2. \A f \in filters :
          (\/ f.type = "LOT_SIZE"
           \/ f.type = "BASE_SIZE_PRECISION" /\ OfType(filters, {"LOT_SIZE"}) = {}) => f \in sized
  <2>1. ASSUME OfType(filters, {"LOT_SIZE"}) = {}
        PROVE  ~ \E g \in filters : g.type \in {"LOT_SIZE"}
    BY <2>1 DEF OfType
  <2> QED  BY <2>1, FirstOfIs
<1>3. \A f \in filters :
          (\/ f.type \in {"NOTIONAL", "MIN_NOTIONAL"}
           \/ /\ f.type = "QUOTE_AMOUNT_PRECISION"
              /\ OfType(filters, {"NOTIONAL"}) = {} /\ OfType(filters, {"MIN_NOTIONAL"}) = {}) => f \in valued
  <2>1. ASSUME OfType(filters, {"NOTIONAL"}) = {}, OfType(filters, {"MIN_NOTIONAL"}) = {}
        PROVE  ~ \E g \in filters : g.type \in {"NOTIONAL", "MIN_NOTIONAL"}
    BY <2>1 DEF OfType
  <2> QED  BY <2>1, FirstOfIs
<1>4. MexcFilters(filters) = [lots |-> lots, notional |-> notional]
  BY Zenon DEF MexcFilters, MexcLot, MexcNotional
<1>5. MexcFilters(filters).lots = lots /\ MexcFilters(filters).notional = notional
  BY <1>4
<1> HIDE DEF sized, valued
<1>6. IsFiniteSet(notional)
  <2> DEFINE h == [f \in valued |-> MexcNotional(f)]
  <2>1. IsFiniteSet({h[f] : f \in valued})
    BY <1>1, ImageFinite
  <2>2. {h[f] : f \in valued} = notional
    OBVIOUS
  <2> HIDE DEF h, notional
  <2> QED  BY <2>1, <2>2
<1>7. IsFiniteSet(lots)
  <2> DEFINE h == [f \in sized |-> MexcLot(f)]
  <2>1. IsFiniteSet({h[f] : f \in sized})
    BY <1>1, ImageFinite
  <2>2. {h[f] : f \in sized} = lots
    OBVIOUS
  <2> HIDE DEF h, lots
  <2> QED  BY <2>1, <2>2
<1>8. \A f \in lots : TypedLot(f)
  BY <1>1 DEF TypedLot, FilterType, MexcLot
<1>9. \A f \in notional : TypedNotional(f)
  BY <1>1 DEF TypedNotional, FilterType, MexcNotional
<1>10. (\A f \in sized : MexcLot(f) \in lots) /\ (\A f \in valued : MexcNotional(f) \in notional)
  OBVIOUS
<1> HIDE DEF lots, notional
<1>11. TypedOK(MexcFilters(filters))
  BY <1>5, <1>6, <1>7, <1>8, <1>9 DEF TypedOK
<1> QED  BY <1>2, <1>3, <1>5, <1>10, <1>11

LEMMA TypedFiltersOK ==
    ASSUME NEW leg \in LegType, OwnFilters(leg)
    PROVE  TypedOK(TypedFilters(leg)) /\ RulesOf(leg).step \in Nat
<1>1. leg.filters \in SUBSET FilterType /\ IsFiniteSet(leg.filters)
  BY DEF LegType, OwnFilters
<1>2. TypedOK(TypedFilters(leg))
  BY <1>1, BinanceTyped, MexcTyped DEF TypedFilters
<1> QED  BY <1>2, NormalisedIs DEF RulesOf

RulesOK(rules) ==
    /\ rules.minQty \in NonNegatives /\ rules.maxQty \in Positives \cup {Infinity}
    /\ rules.minNotional \in NonNegatives /\ rules.maxNotional \in Positives \cup {Infinity}
    /\ rules.step \in Nat

LEMMA SmallestType ==
    ASSUME NEW S \in SUBSET Nat
    PROVE  Smallest(S) \in Positives \cup {Infinity}
<1>1. CASE Positive(S) = {}
  BY <1>1 DEF Smallest
<1>2. CASE Positive(S) # {}
  <2>1. PICK U \in SUBSET Nat : U = Positive(S) /\ U # {} /\ 0 \notin U
    BY <1>2 DEF Positive
  <2>2. \E m \in U : \A u \in U : m <= u
    BY <2>1, LeastNatural
  <2>3. PICK m \in U : m = Min(U)
    <3>1. Min(U) \in U /\ \A u \in U : Min(U) =< u
      BY <2>2, Zenon DEF Min
    <3> QED  BY <3>1
  <2>4. Smallest(S) = Num(m)
    BY <2>1, <2>3, Zenon DEF Smallest
  <2>5. Num(m) \in Positives
    BY <2>1, NumOrder
  <2> QED  BY <2>4, <2>5
<1> QED  BY <1>1, <1>2

LEMMA LargestType ==
    ASSUME NEW S \in SUBSET Nat, IsFiniteSet(S)
    PROVE  Num(Largest(S)) \in NonNegatives
<1>1. PICK m \in Nat : m = Largest(S)
  BY LargestIs
<1> QED  BY <1>1, NumOrder

LEMMA NormalisedType ==
    ASSUME NEW typed, TypedOK(typed)
    PROVE  RulesOK(Normalised(typed))
<1> DEFINE lots == typed.lots
           mins == {f.min : f \in lots}
           maxs == {f.max : f \in lots}
           steps == {f.step : f \in lots}
           floors == {f.min : f \in {g \in typed.notional : g.applyMin}}
           caps == {f.max : f \in {g \in typed.notional : g.applyMax}}
           rules == [minQty |-> Num(Largest(mins)), maxQty |-> Smallest(maxs),
                     step |-> CombinedQuantum(steps), minNotional |-> Num(Largest(floors)),
                     maxNotional |-> Smallest(caps)]
<1>1. /\ mins \in SUBSET Nat /\ maxs \in SUBSET Nat
      /\ floors \in SUBSET Nat /\ caps \in SUBSET Nat
  BY DEF TypedOK, TypedLot, TypedNotional
<1>2. IsFiniteSet(mins)
  <2> DEFINE h == [f \in lots |-> f.min]
  <2>1. IsFiniteSet({h[f] : f \in lots})
    BY ImageFinite DEF TypedOK
  <2>2. {h[f] : f \in lots} = mins
    OBVIOUS
  <2> HIDE DEF h, mins
  <2> QED  BY <2>1, <2>2
<1>3. IsFiniteSet(floors)
  <2> DEFINE applied == {g \in typed.notional : g.applyMin}
             h == [f \in applied |-> f.min]
  <2>1. IsFiniteSet(applied)
    BY FS_Subset DEF TypedOK
  <2>2. IsFiniteSet({h[f] : f \in applied})
    BY <2>1, ImageFinite
  <2>3. {h[f] : f \in applied} = floors
    OBVIOUS
  <2> HIDE DEF h, floors, applied
  <2> QED  BY <2>2, <2>3
<1>4. Normalised(typed) = rules
  BY Zenon DEF Normalised
<1>5. /\ rules.minQty = Num(Largest(mins)) /\ rules.maxQty = Smallest(maxs)
      /\ rules.minNotional = Num(Largest(floors)) /\ rules.maxNotional = Smallest(caps)
  OBVIOUS
<1> HIDE DEF mins, maxs, steps, floors, caps, rules
<1>6. rules.step \in Nat
  BY <1>4, NormalisedIs
<1> QED  BY <1>1, <1>2, <1>3, <1>4, <1>5, <1>6, LargestType, SmallestType DEF RulesOK

(* Every quantity ordered is a whole number of each step.                   *)
LEMMA WholeSteps ==
    ASSUME NEW digits \in Nat, NEW x \in Rational, NEW step \in Nat \ {0}, NEW s \in Nat \ {0},
           Divides(s, step), Floored(digits, x, step) \in NonNegatives
    PROVE  Floored(digits, x, step)[2] = 1 /\ Floored(digits, x, step)[1] % s = 0
<1>1. PICK k \in Int : Floored(digits, x, step) = Num(k * step)
  BY FlooredLots
<1>2. k \in Nat
  <2>1. PICK n \in Int : n = k * step
    OBVIOUS
  <2>2. n >= 0
    BY <1>1, <2>1, NumOrder
  <2>3. k <= -1 => n < 0
    <3>1. ASSUME k <= -1 PROVE n < 0
      <4>1. PICK i \in Nat \ {0} : k = -i
        <5>1. -k \in Nat \ {0} /\ k = -(-k)
          BY <3>1
        <5> QED  BY <5>1
      <4>2. i * step > 0 /\ n = -(i * step)
        BY <2>1, <4>1
      <4> QED  BY <4>2
    <3> QED  BY <3>1
  <2> QED  BY <2>2, <2>3
<1>3. PICK m \in Nat : step = m * s
  BY DEF Divides
<1>4. PICK n \in Nat : n = k * m
  BY <1>2, <1>3
<1>5. k * step = n * s
  BY <1>3, <1>4
<1>6. (n * s) % s = 0
  <2>1. n * s \in Nat /\ (n * s) \div s = n
    BY Quotient
  <2>2. n * s = s * ((n * s) \div s) + ((n * s) % s) /\ (n * s) % s \in Nat
    BY <2>1
  <2>3. s * n = n * s
    OBVIOUS
  <2> QED  BY <2>1, <2>2, <2>3
<1> QED  BY <1>1, <1>5, <1>6 DEF Num

(* What the rules let through, every filter of the symbol accepts.          *)
LEMMA Accepted ==
    ASSUME NEW digits \in Nat, NEW leg \in LegType, OwnFilters(leg), NEW filter \in leg.filters,
           NEW order, Placed(digits, order, RulesOf(leg))
    PROVE  Accepts(leg, filter, order.quantity, order.notional)
<1> DEFINE q == order.quantity
           v == order.notional
           rules == RulesOf(leg)
<1>1. leg.filters \in SUBSET FilterType /\ IsFiniteSet(leg.filters)
      /\ leg.exchange \in {"Binance", "MEXC"}
  BY DEF LegType, OwnFilters
<1>2. /\ filter.type \in {"LOT_SIZE", "MARKET_LOT_SIZE", "BASE_SIZE_PRECISION", "NOTIONAL",
                          "MIN_NOTIONAL", "QUOTE_AMOUNT_PRECISION"}
      /\ filter.min \in Nat /\ filter.max \in Nat /\ filter.step \in Nat
  BY <1>1 DEF FilterType
<1>3. /\ leg.exchange = "Binance" => filter.type \notin {"BASE_SIZE_PRECISION", "QUOTE_AMOUNT_PRECISION"}
      /\ leg.exchange = "MEXC" => filter.type # "MARKET_LOT_SIZE"
      /\ leg.exchange = "MEXC" /\ filter.type = "MIN_NOTIONAL" => OfType(leg.filters, {"NOTIONAL"}) = {}
  BY DEF OwnFilters, OfType
<1>4. /\ q \in NonNegatives /\ v \in NonNegatives
      /\ \E x \in Rational : q = Floored(digits, x, rules.step)
      /\ ~Less(q, rules.minQty) /\ ~Less(rules.maxQty, q)
      /\ ~Less(v, rules.minNotional) /\ ~Less(rules.maxNotional, v)
  <2>1. /\ q \in Sized(digits) /\ v \in Sized(digits)
        /\ \E x \in Sized(digits) : q = Floored(digits, x, rules.step)
        /\ ~Less(q, rules.minQty) /\ ~Less(rules.maxQty, q)
        /\ ~Less(v, rules.minNotional) /\ ~Less(rules.maxNotional, v)
    BY DEF Placed, Rejects
  <2>2. /\ q \in Rational /\ v \in Rational
        /\ \A x \in Sized(digits) : x \in Rational
    BY <2>1, ZeroSized
  <2>3. rules.minQty \in NonNegatives /\ rules.minNotional \in NonNegatives
    BY TypedFiltersOK, NormalisedType DEF RulesOK, RulesOf
  <2> HIDE DEF q, v, rules
  <2>4. ASSUME NEW x \in Rational, NEW m \in NonNegatives, ~Less(x, m) PROVE x \in NonNegatives
    <3>1. m \in Rational /\ Leq(Zero, m) /\ Leq(m, x) /\ Zero \in Rational
      BY <2>4, OrderLaws, ZeroOne DEF NonNegatives
    <3> QED  BY <3>1, OrderLaws DEF NonNegatives
  <2> QED  BY <2>1, <2>2, <2>3, <2>4
<1>5. /\ \A f \in TypedFilters(leg).lots : LotKept(rules, f)
      /\ \A f \in TypedFilters(leg).notional : NotionalKept(rules, f)
      /\ rules.step \in Nat
  BY TypedFiltersOK, NormalisedIs DEF RulesOf
<1> HIDE DEF q, v, rules
\* Whole: the quantity is a whole number of the filter's steps.
<1> DEFINE Whole == filter.step > 0 => q[2] = 1 /\ q[1] % filter.step = 0
<1>6. ASSUME NEW f, LotKept(rules, f), f.step = filter.step
      PROVE  Whole
  <2>1. SUFFICES ASSUME filter.step > 0 PROVE q[2] = 1 /\ q[1] % filter.step = 0
    OBVIOUS
  <2>2. rules.step > 0 /\ Divides(filter.step, rules.step)
    BY <1>6, <2>1 DEF LotKept
  <2>3. PICK x \in Rational : q = Floored(digits, x, rules.step)
    BY <1>4
  <2>4. rules.step \in Nat \ {0} /\ filter.step \in Nat \ {0}
    BY <1>2, <1>5, <2>1, <2>2
  <2> QED  BY <1>4, <2>2, <2>3, <2>4, WholeSteps
<1> HIDE DEF Whole
<1> DEFINE Within(x, min, max) == Leq(Num(min), x) /\ (max > 0 => Leq(x, Num(max)))
<1>7. ASSUME NEW f, LotKept(rules, f), f.min = filter.min, f.max = filter.max
      PROVE  Within(q, filter.min, filter.max)
  BY <1>4, <1>7 DEF LotKept
<1>8. ASSUME NEW x \in NonNegatives PROVE Within(x, 0, 0)
  BY DEF Num, NonNegatives, Zero
<1>9. ASSUME NEW f, NotionalKept(rules, f), f.min = filter.min, f.max = filter.max,
             f.applyMin \in BOOLEAN, f.applyMax \in BOOLEAN
      PROVE  /\ Within(v, IF f.applyMin THEN filter.min ELSE 0, IF f.applyMax THEN filter.max ELSE 0)
             /\ f.applyMin => Leq(Num(filter.min), v)
  <2>1. f.applyMin => Leq(Num(filter.min), v)
    BY <1>4, <1>9 DEF NotionalKept
  <2>2. f.applyMax /\ filter.max > 0 => Leq(v, Num(filter.max))
    BY <1>4, <1>9 DEF NotionalKept
  <2> QED  BY <1>4, <1>8, <1>9, <2>1, <2>2
<1> HIDE DEF Within
<1> DEFINE Has(type) == OfType(leg.filters, {type}) # {}
<1>10. CASE leg.exchange = "Binance"
  <2>1. TypedFilters(leg) = BinanceFilters(leg.filters)
    BY <1>10 DEF TypedFilters
  <2>2. CASE filter.type \in {"LOT_SIZE", "MARKET_LOT_SIZE"}
    <3>1. LotKept(rules, filter)
      BY <1>1, <1>5, <2>1, <2>2, BinanceTyped
    <3>2. Within(q, filter.min, filter.max) /\ Whole
      BY <3>1, <1>6, <1>7
    <3> QED  BY <2>2, <3>2 DEF Accepts, Within, Whole, q, v
  <2> DEFINE typed == BinanceNotional(filter)
  <2>3. /\ typed.min = filter.min /\ typed.max = filter.max
        /\ typed.applyMin = (filter.applyMin = "yes") /\ typed.applyMax = (filter.applyMax = "yes")
    BY DEF BinanceNotional
  <2> HIDE DEF typed
  <2>4. CASE filter.type = "NOTIONAL"
    <3>1. NotionalKept(rules, typed)
      BY <1>1, <1>5, <2>1, <2>4, BinanceTyped DEF typed
    <3>2. Within(v, IF filter.applyMin = "yes" THEN filter.min ELSE 0,
                    IF filter.applyMax = "yes" THEN filter.max ELSE 0)
      BY <3>1, <2>3, <1>9
    <3> QED  BY <1>10, <2>4, <3>2 DEF Accepts, Within, q, v
  <2>5. CASE filter.type = "MIN_NOTIONAL"
    <3>1. (~Has("NOTIONAL") /\ filter.applyMin = "yes") => Leq(Num(filter.min), v)
      <4>1. SUFFICES ASSUME ~Has("NOTIONAL"), filter.applyMin = "yes" PROVE Leq(Num(filter.min), v)
        OBVIOUS
      <4>2. NotionalKept(rules, typed)
        BY <1>1, <1>5, <2>1, <2>5, <4>1, BinanceTyped DEF typed
      <4> QED  BY <4>1, <4>2, <2>3, <1>9
    <3> QED  BY <1>10, <2>5, <3>1 DEF Accepts, q, v
  <2> QED  BY <1>2, <1>3, <1>10, <2>2, <2>4, <2>5
<1>11. CASE leg.exchange = "MEXC"
  <2>1. TypedFilters(leg) = MexcFilters(leg.filters)
    BY <1>11 DEF TypedFilters
  <2> DEFINE lot == MexcLot(filter)
             typed == MexcNotional(filter)
  <2>2. /\ lot.max = filter.max /\ lot.step = filter.step
        /\ filter.type = "LOT_SIZE" => lot.min = filter.min
    <3>1. filter \in FilterType
      BY <1>1
    <3> QED  BY <3>1 DEF MexcLot, FilterType
  <2>3. /\ typed.min = filter.min /\ typed.max = filter.max
        /\ typed.applyMin = TRUE /\ typed.applyMax = FALSE
    BY DEF MexcNotional
  <2> HIDE DEF lot, typed
  <2>4. CASE filter.type = "LOT_SIZE"
    <3>1. LotKept(rules, lot)
      BY <1>1, <1>5, <2>1, <2>4, MexcTyped DEF lot
    <3>2. Within(q, filter.min, filter.max) /\ Whole
      BY <3>1, <2>2, <2>4, <1>6, <1>7
    <3> QED  BY <2>4, <3>2 DEF Accepts, Within, Whole, q, v
  <2>5. CASE filter.type = "BASE_SIZE_PRECISION"
    <3>1. Has("LOT_SIZE") \/ Whole
      <4>1. SUFFICES ASSUME ~Has("LOT_SIZE") PROVE Whole
        OBVIOUS
      <4>2. LotKept(rules, lot)
        BY <1>1, <1>5, <2>1, <2>5, <4>1, MexcTyped DEF lot
      <4> QED  BY <4>2, <2>2, <1>6
    <3> QED  BY <2>5, <3>1 DEF Accepts, Whole, q, v
  <2>6. CASE filter.type = "NOTIONAL"
    <3>1. NotionalKept(rules, typed)
      BY <1>1, <1>5, <2>1, <2>6, MexcTyped DEF typed
    <3>2. Within(v, filter.min, 0)
      BY <3>1, <2>3, <1>9
    <3> QED  BY <1>11, <2>6, <3>2 DEF Accepts, Within, q, v
  <2>7. CASE filter.type = "MIN_NOTIONAL"
    <3>1. NotionalKept(rules, typed)
      BY <1>1, <1>5, <2>1, <2>7, MexcTyped DEF typed
    <3>2. Leq(Num(filter.min), v)
      BY <3>1, <2>3, <1>9
    <3> QED  BY <1>11, <2>7, <3>2 DEF Accepts, q, v
  <2>8. CASE filter.type = "QUOTE_AMOUNT_PRECISION"
    <3>1. (~Has("NOTIONAL") /\ ~Has("MIN_NOTIONAL")) => Leq(Num(filter.min), v)
      <4>1. SUFFICES ASSUME ~Has("NOTIONAL"), ~Has("MIN_NOTIONAL") PROVE Leq(Num(filter.min), v)
        OBVIOUS
      <4>2. NotionalKept(rules, typed)
        BY <1>1, <1>5, <2>1, <2>8, <4>1, MexcTyped DEF typed
      <4> QED  BY <4>2, <2>3, <1>9
    <3> QED  BY <2>8, <3>1 DEF Accepts, q, v
  <2> QED  BY <1>2, <1>3, <1>11, <2>4, <2>5, <2>6, <2>7, <2>8
<1> QED  BY <1>1, <1>10, <1>11

-----------------------------------------------------------------------------
(* What a simulation answers.                                              *)

LEMMA PassIs ==
    ASSUME NEW mode \in Modes
    PROVE  /\ PassOK(Pass(mode)) /\ Pass(mode).reference = FALSE
           /\ Pass(mode).mode = IF mode = "top" THEN "top" ELSE "depth"
           /\ PassOK(ReferencePass) /\ ReferencePass.reference = TRUE
           /\ ReferencePass.mode = "top"
           /\ ReferencePass.haircut = Zero /\ ReferencePass.shock = Zero
<1>1. Haircut \in Share /\ Shock \in Share
  BY SimulatorAssumption DEF Share
<1>2. Zero \in Share
  BY ZeroOne DEF Share, Leq, Less, Zero, One
<1>3. ASSUME NEW m \in Modes
      PROVE  /\ Pass(m).haircut \in Share /\ Pass(m).shock \in Share
             /\ Pass(m).reference = FALSE
             /\ Pass(m).mode = IF m = "top" THEN "top" ELSE "depth"
             /\ m = "top" => Pass(m).haircut = Zero /\ Pass(m).shock = Zero
  BY <1>1, <1>2 DEF Pass, HaircutOf, ShockOf
<1>4. ReferencePass = [Pass("top") EXCEPT !.reference = TRUE] /\ "top" \in Modes
  BY DEF ReferencePass, Modes
<1>5. /\ ReferencePass.haircut = Pass("top").haircut /\ ReferencePass.shock = Pass("top").shock
      /\ ReferencePass.mode = Pass("top").mode /\ ReferencePass.reference = TRUE
  BY <1>4 DEF Pass
<1> QED  BY <1>2, <1>3, <1>4, <1>5 DEF PassOK

LEMMA NoFiltersIs == NoFilters.step \in Nat
<1> DEFINE typed == [lots |-> {}, notional |-> {}]
<1>1. typed.lots = {} /\ typed.notional = {}
  OBVIOUS
<1> HIDE DEF typed
<1>2. TypedOK(typed)
  BY <1>1, FS_EmptySet DEF TypedOK
<1>3. NoFilters = Normalised(typed)
  BY DEF NoFilters, typed
<1> QED  BY <1>2, <1>3, NormalisedIs

LEMMA RoutesOK ==
    ASSUME NEW legs \in Routes
    PROVE  /\ legs \in Seq(LegType) /\ legs # <<>>
           /\ \A i \in 1..Len(legs) : BestFirst(legs[i]) /\ OwnFilters(legs[i])
           /\ \A pass : pass.reference \in BOOLEAN => LegsOK(legs, pass)
<1>1. legs \in Seq(LegType) /\ legs # <<>>
      /\ \A i \in DOMAIN legs : BestFirst(legs[i]) /\ OwnFilters(legs[i])
  BY SimulatorAssumption
<1>2. \A i \in 1..Len(legs) : legs[i] \in LegType /\ BestFirst(legs[i]) /\ OwnFilters(legs[i])
  BY <1>1
<1>3. \A i \in 1..Len(legs) : RulesOf(legs[i]).step \in Nat
  BY <1>2, TypedFiltersOK
<1> QED  BY <1>1, <1>2, <1>3, NoFiltersIs DEF LegsOK, PassRules

LEMMA AmountsOK ==
    ASSUME NEW digits \in Nat, NEW amount \in Amounts
    PROVE  amount \in Positives /\ amount \in Sized(digits)
  BY SimulatorAssumption, ZeroSized DEF Positives

LEMMA SettledIs ==
    ASSUME NEW digits \in Nat, NEW legs, NEW pass, NEW run, NEW gross, NEW estimate
    PROVE  /\ Settled(digits, legs, pass, run, gross, estimate).executable = run.executable
           /\ Settled(digits, legs, pass, run, gross, estimate).legs = run.done
           /\ Settled(digits, legs, pass, run, gross, estimate).gross = gross
           /\ Settled(digits, legs, pass, run, gross, estimate).size = estimate.size
           /\ Settled(digits, legs, pass, run, gross, estimate).final
                 = IF run.executable THEN Add(digits, run.current, ResidualValue(digits, legs, run, pass)) ELSE Zero
<1> DEFINE final == IF run.executable THEN Add(digits, run.current, ResidualValue(digits, legs, run, pass)) ELSE Zero
           rejected == \E i \in DOMAIN run.done : run.done[i].rejected
           limiting == IF run.executable THEN estimate.leg
                       ELSE IF \E i \in DOMAIN run.done : ~run.done[i].executable
                       THEN Len(run.done) ELSE Len(run.done) + 1
           settled == [executable |-> run.executable, final |-> final, gross |-> gross,
                       rejected |-> rejected, legs |-> run.done, size |-> estimate.size,
                       limiting |-> limiting]
<1>1. Settled(digits, legs, pass, run, gross, estimate) = settled
  BY Zenon DEF Settled
<1> HIDE DEF final, rejected, limiting
<1>2. settled.executable = run.executable /\ settled.legs = run.done /\ settled.gross = gross
      /\ settled.final = final /\ settled.size = estimate.size
  OBVIOUS
<1> HIDE DEF settled
<1> QED  BY <1>1, <1>2 DEF final

\* The result is what the last simulation of the route made of the size asked for,
\* and beside it is what exact arithmetic makes of it.
Answered(legs, amount, mode) ==
    /\ ask.amount = amount /\ ask.mode = mode
    /\ result = Simulated(Digits, legs, amount, mode)
    /\ exact = Simulated(Exact, legs, amount, mode)

SInv ==
    /\ route \in Routes
    /\ \/ result = Unsettled
       \/ \E amount \in Amounts, mode \in Modes : Answered(route, amount, mode)

LEMMA InitSInv ==
    ASSUME Init
    PROVE  SInv
  BY DEF Init, SInv

LEMMA NextSInv ==
    ASSUME SInv, [Next]_vars
    PROVE  SInv'
<1>1. CASE UNCHANGED vars
  BY <1>1 DEF SInv, Answered, vars
<1>2. CASE Next
  <2>1. PICK amount \in Amounts, mode \in Modes : Simulate(amount, mode)
    BY <1>2 DEF Next
  <2>2. route' = route /\ result' = Simulated(Digits, route, amount, mode)
        /\ exact' = Simulated(Exact, route, amount, mode)
        /\ ask' = [amount |-> amount, mode |-> mode]
    BY <2>1 DEF Simulate
  <2>3. Answered(route, amount, mode)'
    BY <2>2 DEF Answered
  <2> QED  BY <2>2, <2>3 DEF SInv
<1> QED  BY <1>1, <1>2

LEMMA SInvHolds == Spec => []SInv
  BY InitSInv, NextSInv, PTL DEF Spec

\* What the legs of an answer come to, in its pass.
RunIs(digits, legs, amount, pass, run) ==
    /\ Chained(digits, run, legs, amount, pass, Len(legs))
    /\ run = RunRoute(digits, legs, amount, pass)

AnswerOf(digits, answer, legs, amount, mode, run, reference) ==
    /\ RunIs(digits, legs, amount, Pass(mode), run)
    /\ RunIs(digits, legs, amount, ReferencePass, reference)
    /\ answer.executable = run.executable
    /\ answer.legs = run.done
    /\ answer.gross = reference.current
    /\ answer.size = Estimate(digits, legs, Pass(mode)).size
    /\ answer.final = IF run.executable
                      THEN Add(digits, run.current, ResidualValue(digits, legs, run, Pass(mode))) ELSE Zero

LEMMA AnswerIs ==
    ASSUME NEW digits \in Nat, NEW legs \in Routes, NEW amount \in Amounts, NEW mode \in Modes,
           NEW answer, answer = Simulated(digits, legs, amount, mode)
    PROVE  \E run, reference : AnswerOf(digits, answer, legs, amount, mode, run, reference)
<1>1. PICK pass : pass = Pass(mode)
  OBVIOUS
<1>2. /\ PassOK(pass) /\ LegsOK(legs, pass)
      /\ PassOK(ReferencePass) /\ LegsOK(legs, ReferencePass)
      /\ amount \in Sized(digits)
  <2>1. /\ PassOK(pass) /\ pass.reference \in BOOLEAN
        /\ PassOK(ReferencePass) /\ ReferencePass.reference \in BOOLEAN
    BY <1>1, PassIs
  <2> QED  BY <2>1, RoutesOK, AmountsOK
<1>3. PICK run : RunIs(digits, legs, amount, pass, run)
  BY <1>2, RunRouteIs DEF RunIs
<1>4. PICK reference : RunIs(digits, legs, amount, ReferencePass, reference)
  BY <1>2, RunRouteIs DEF RunIs
<1>5. answer = Settled(digits, legs, pass, run, reference.current, Estimate(digits, legs, pass))
  BY <1>1, <1>3, <1>4 DEF Simulated, RunIs
<1> QED  BY <1>1, <1>3, <1>4, <1>5, SettledIs DEF AnswerOf

-----------------------------------------------------------------------------
(* OrdersMeetEveryFilter.                                                  *)

LEMMA AnswerMeetsFilters ==
    ASSUME NEW digits \in Nat, NEW legs \in Routes, NEW amount \in Amounts, NEW mode \in Modes,
           NEW answer, answer = Simulated(digits, legs, amount, mode), answer.executable,
           NEW i \in DOMAIN legs, NEW filter \in legs[i].filters
    PROVE  Accepts(legs[i], filter, answer.legs[i].quantity, answer.legs[i].notional)
<1>1. PICK pass : pass = Pass(mode)
  OBVIOUS
<1>2. PICK run, reference : AnswerOf(digits, answer, legs, amount, mode, run, reference)
  BY AnswerIs
<1>3. PassOK(pass) /\ pass.reference = FALSE /\ LegsOK(legs, pass) /\ amount \in Sized(digits)
  <2>1. PassOK(pass) /\ pass.reference = FALSE /\ pass.reference \in BOOLEAN
    BY <1>1, PassIs
  <2> QED  BY <2>1, RoutesOK, AmountsOK
<1>4. legs \in Seq(LegType) /\ i \in 1..Len(legs) /\ legs[i] \in LegType /\ OwnFilters(legs[i])
  BY RoutesOK
<1>5. PICK entering \in Sized(digits) :
          run.done[i] = PassLeg(digits, legs, i, entering, pass) /\ run.done[i].executable
  <2>1. Chained(digits, run, legs, amount, pass, Len(legs))
    BY <1>1, <1>2 DEF RunIs, AnswerOf
  <2>2. /\ run.done \in Seq(LegResult(digits))
        /\ Len(run.done) = Len(legs)
        /\ run.done[i] = PassLeg(digits, legs, i, Entering(run.done, amount, i), pass)
        /\ run.done[i].executable
    BY <1>2, <1>4, <2>1 DEF Chained, RouteRun, AnswerOf
  <2>3. Entering(run.done, amount, i) \in Sized(digits)
    <3>1. CASE i = 1
      BY <3>1, <1>3 DEF Entering
    <3>2. CASE i # 1
      <4>1. i - 1 \in 1..Len(run.done)
        BY <1>4, <2>2, <3>2
      <4>2. run.done[i - 1] \in LegResult(digits)
        BY <2>2, <4>1
      <4> QED  BY <3>2, <4>2 DEF Entering, LegResult
    <3> QED  BY <3>1, <3>2
  <2> QED  BY <2>2, <2>3
<1>6. Placed(digits, run.done[i], PassRules(legs[i], pass))
  BY <1>3, <1>4, <1>5, PassLegIs
<1>7. PassRules(legs[i], pass) = RulesOf(legs[i])
  BY <1>3 DEF PassRules
<1> QED  BY <1>2, <1>4, <1>6, <1>7, Accepted DEF AnswerOf

(***************************************************************************)
(* Whatever filters the symbols of a route have, in whatever combination   *)
(* and on whichever exchange, every order of a result called executable is *)
(* one that each of them accepts, however many digits are kept             *)
(* (simulate_leg, _normalise_filters).                                     *)
(***************************************************************************)
THEOREM SimulatorOrdersMeetEveryFilter == Spec => []OrdersMeetEveryFilter
<1>1. ASSUME SInv PROVE OrdersMeetEveryFilter
  <2>1. CASE result = Unsettled
    BY <2>1 DEF OrdersMeetEveryFilter, Unsettled
  <2>2. CASE \E amount \in Amounts, mode \in Modes : Answered(route, amount, mode)
    <3>1. PICK amount \in Amounts, mode \in Modes : result = Simulated(Digits, route, amount, mode)
      BY <2>2 DEF Answered
    <3>2. route \in Routes /\ Digits \in Nat
      BY <1>1, SimulatorAssumption DEF SInv
    <3> QED  BY <3>1, <3>2, AnswerMeetsFilters DEF OrdersMeetEveryFilter
  <2> QED  BY <1>1, <2>1, <2>2 DEF SInv
<1> QED  BY <1>1, SInvHolds, PTL

-----------------------------------------------------------------------------
(* Two walks over the same levels: for a base amount, and for a quote       *)
(* amount.                                                                 *)

LEMMA LeastCut ==
    ASSUME NEW x \in NonNegatives, NEW y \in NonNegatives, NEW q \in Positives \cup {Infinity},
           Less(Least(x, q), Least(y, q))
    PROVE  Least(x, q) = x
<1>1. x \in Rational /\ y \in Rational
  BY DEF NonNegatives
<1>2. CASE q = Infinity
  BY <1>1, <1>2, LeastOfInfinity
<1>3. CASE q \in Positives
  <2>1. q \in Rational
    BY <1>3 DEF Positives
  <2>2. SUFFICES ASSUME Least(x, q) # x PROVE FALSE
    OBVIOUS
  <2>3. Least(x, q) = q /\ Less(q, Least(y, q))
    BY <2>2 DEF Least
  <2>4. Least(y, q) = y \/ Least(y, q) = q
    BY DEF Least
  <2>5. ~Less(q, q)
    BY <2>1, OrderLaws
  <2>6. Least(y, q) = y /\ Less(q, y)
    BY <2>3, <2>4, <2>5
  <2>7. ~Leq(y, q)
    BY <1>1, <2>1, <2>6, OrderLaws
  <2> QED  BY <2>3, <2>5, <2>7 DEF Least
<1> QED  BY <1>2, <1>3

(* Without rounding, amounts are not negative.                             *)
LEMMA ExactSized == Exact \in Nat /\ Sized(Exact) = NonNegatives
  BY DEF Exact, Sized

LEMMA EffectiveExact ==
    ASSUME NEW leg \in LegType, NEW haircut \in Share, NEW shock \in Share
    PROVE  /\ Effective(Exact, leg, haircut, shock) \in Seq(MetLevel)
           /\ Len(Effective(Exact, leg, haircut, shock)) = Len(leg.levels)
           /\ \A i \in 1..Len(leg.levels) :
                 /\ leg.levels[i].price \in Nat \ {0} /\ leg.levels[i].quantity \in Nat \ {0}
                 /\ Effective(Exact, leg, haircut, shock)[i].price
                       = Times(Num(leg.levels[i].price),
                               IF leg.op = "SELL_BASE" THEN Minus(One, shock) ELSE Plus(One, shock))
                 /\ Effective(Exact, leg, haircut, shock)[i].quantity \in Positives
<1>1. PICK digits \in Nat : digits = Exact
  BY ExactSized
<1>2. /\ Effective(digits, leg, haircut, shock) \in Seq(MetLevel)
      /\ Len(Effective(digits, leg, haircut, shock)) = Len(leg.levels)
      /\ \A i \in 1..Len(leg.levels) :
            /\ leg.levels[i].price \in Nat \ {0} /\ leg.levels[i].quantity \in Nat \ {0}
            /\ Effective(digits, leg, haircut, shock)[i].price
                  = Multiply(digits, Num(leg.levels[i].price),
                             IF leg.op = "SELL_BASE" THEN Subtract(digits, One, shock)
                                                     ELSE Add(digits, One, shock))
            /\ Effective(digits, leg, haircut, shock)[i].quantity \in Positives
  BY EffectiveType
<1>3. PICK levels : levels = Effective(digits, leg, haircut, shock)
  OBVIOUS
<1>4. \A x, y : Add(digits, x, y) = Plus(x, y) /\ Subtract(digits, x, y) = Minus(x, y)
                /\ Multiply(digits, x, y) = Times(x, y)
  BY <1>1, ExactOps
<1> QED  BY <1>1, <1>2, <1>3, <1>4

LEMMA WalkIs ==
    ASSUME NEW walk \in Walk(Exact)
    PROVE  /\ walk.left \in NonNegatives /\ walk.base \in NonNegatives /\ walk.quote \in NonNegatives
           /\ walk.left \in Rational /\ walk.base \in Rational /\ walk.quote \in Rational
  BY DEF Walk, NonNegatives, Sized

LEMMA LevelIs ==
    ASSUME NEW level \in MetLevel
    PROVE  /\ level.price \in Positives /\ level.price \in Rational /\ level.price \in NonNegatives
           /\ Less(Zero, level.price) /\ Leq(Zero, level.price)
           /\ level.quantity \in Positives \cup {Infinity}
<1>1. level.price \in Positives /\ level.quantity \in Positives \cup {Infinity}
  BY DEF MetLevel
<1>2. level.price \in Rational /\ Less(Zero, level.price)
  BY <1>1 DEF Positives
<1> QED  BY <1>1, <1>2, SignLaws DEF NonNegatives

\* What is taken of a level, from the base or the quote that is left.
TakesBase(walk, level, take, after) ==
    /\ take = Least(walk.left, level.quantity)
    /\ Leq(take, walk.left)
    /\ after.left = Minus(walk.left, take)
    /\ after.base = Plus(walk.base, take)
    /\ after.quote = Plus(walk.quote, Times(take, level.price))
TakesQuote(walk, level, take, after) ==
    /\ take = Least(Over(walk.left, level.price), level.quantity)
    /\ Leq(Times(take, level.price), walk.left)
    /\ after.left = Minus(walk.left, Times(take, level.price))
    /\ after.base = Plus(walk.base, take)
    /\ after.quote = Plus(walk.quote, Times(take, level.price))

LEMMA TakeIs ==
    ASSUME NEW walk \in Walk(Exact), NEW level \in MetLevel
    PROVE  /\ \E take \in NonNegatives : TakesBase(walk, level, take, TakeBase(Exact, walk, level))
           /\ \E take \in NonNegatives : TakesQuote(walk, level, take, TakeQuote(Exact, walk, level))
<1>1. \E take \in NonNegatives : TakesBase(walk, level, take, TakeBase(Exact, walk, level))
  <2>1. PICK take \in NonNegatives : take = Least(walk.left, level.quantity) /\ Leq(take, walk.left)
    BY WalkIs, LevelIs, LeastIs
  <2> QED  BY <2>1 DEF TakesBase, TakeBase, Add, Subtract, Multiply, Divide, Rounded
<1>2. \E take \in NonNegatives : TakesQuote(walk, level, take, TakeQuote(Exact, walk, level))
  <2>1. PICK rest \in NonNegatives : rest = Over(walk.left, level.price)
    <3>1. Over(walk.left, level.price) \in NonNegatives
      BY WalkIs, LevelIs, SignLaws
    <3> QED  BY <3>1
  <2>2. PICK take \in NonNegatives : /\ take = Least(rest, level.quantity) /\ Leq(take, rest)
                                      /\ Least(level.quantity, rest) = Least(rest, level.quantity)
    BY LevelIs, LeastIs
  <2>3. Leq(Times(take, level.price), walk.left)
    <3>1. rest \in Rational /\ take \in Rational
      BY DEF NonNegatives
    <3>2. Leq(Times(take, level.price), Times(rest, level.price))
      BY <3>1, <2>2, LevelIs, OrderLaws
    <3>3. Times(rest, level.price) = walk.left
      BY <2>1, WalkIs, LevelIs, TimesLaws
    <3> QED  BY <3>2, <3>3
  <2>4. CASE ~Leq(walk.left, Zero)
    BY <2>1, <2>2, <2>3, <2>4 DEF TakesQuote, TakeQuote, Add, Subtract, Multiply, Divide, Rounded
  <2>5. CASE Leq(walk.left, Zero)
    <3>1. walk.left = Zero /\ rest = Zero /\ take = Zero
      <4>1. walk.left = Zero
        BY <2>5, WalkIs, ZeroOne, OrderLaws DEF NonNegatives
      <4>2. rest = Zero
        <5>1. Times(Zero, level.price) = Zero /\ Over(Times(Zero, level.price), level.price) = Zero
          BY LevelIs, ZeroOne, TimesLaws
        <5> QED  BY <5>1, <4>1, <2>1
      <4>3. take = Zero
        BY <4>2, <2>2, ZeroOne, OrderLaws DEF NonNegatives
      <4> QED  BY <4>1, <4>2, <4>3
    <3>2. TakeQuote(Exact, walk, level) = walk
      BY <2>5 DEF TakeQuote
    <3>3. /\ Times(Zero, level.price) = Zero /\ Minus(Zero, Zero) = Zero
          /\ Plus(walk.base, Zero) = walk.base /\ Plus(walk.quote, Zero) = walk.quote
      BY LevelIs, WalkIs, ZeroOne, TimesLaws, PlusLaws
    <3> QED  BY <2>1, <2>2, <2>3, <3>1, <3>2, <3>3 DEF TakesQuote
  <2> QED  BY <2>4, <2>5
<1> QED  BY <1>1, <1>2

\* Both walks hold the same, or the one that has less has nothing left to take.
Abreast(bw, qw) ==
    \/ bw.base = qw.base /\ bw.quote = qw.quote
    \/ bw.left = Zero /\ Less(bw.base, qw.base) /\ Less(bw.quote, qw.quote)
    \/ qw.left = Zero /\ Less(qw.base, bw.base) /\ Less(qw.quote, bw.quote)

LEMMA NothingLeft ==
    ASSUME NEW q \in Positives \cup {Infinity}
    PROVE  Least(Zero, q) = Zero
<1>1. Zero \in NonNegatives /\ Zero \in Rational
  BY ZeroOne, SignLaws
<1>2. PICK take \in NonNegatives : take = Least(Zero, q) /\ Leq(take, Zero)
  BY <1>1, LeastIs
<1> QED  BY <1>1, <1>2, OrderLaws DEF NonNegatives

LEMMA AbreastStep ==
    ASSUME NEW bw \in Walk(Exact), NEW qw \in Walk(Exact), NEW level \in MetLevel, Abreast(bw, qw)
    PROVE  Abreast(TakeBase(Exact, bw, level), TakeQuote(Exact, qw, level))
<1>1. PICK t \in NonNegatives : TakesBase(bw, level, t, TakeBase(Exact, bw, level))
  BY TakeIs
<1>2. PICK u \in NonNegatives : TakesQuote(qw, level, u, TakeQuote(Exact, qw, level))
  BY TakeIs
<1>3. /\ t \in Rational /\ u \in Rational /\ Leq(Zero, t) /\ Leq(Zero, u)
      /\ bw.left \in Rational /\ bw.base \in Rational /\ bw.quote \in Rational
      /\ qw.left \in Rational /\ qw.base \in Rational /\ qw.quote \in Rational
  BY WalkIs DEF NonNegatives
<1>4. PICK p \in Positives : p = level.price /\ p \in Rational /\ Less(Zero, p) /\ Leq(Zero, p)
  BY LevelIs
<1>5. PICK ct \in Rational, cu \in Rational : ct = Times(t, p) /\ cu = Times(u, p)
  BY <1>3, <1>4, Closed
<1>6. Leq(Zero, ct) /\ Leq(Zero, cu)
  <2>1. p \in NonNegatives
    BY <1>4 DEF NonNegatives
  <2>2. Times(t, p) \in NonNegatives /\ Times(u, p) \in NonNegatives
    BY <1>3, <1>4, <2>1, SignLaws
  <2> QED  BY <1>5, <2>2 DEF NonNegatives
<1>7. PICK bn, qn : bn = TakeBase(Exact, bw, level) /\ qn = TakeQuote(Exact, qw, level)
  OBVIOUS
<1>8. /\ bn.left = Minus(bw.left, t) /\ bn.base = Plus(bw.base, t) /\ bn.quote = Plus(bw.quote, ct)
      /\ qn.left = Minus(qw.left, cu) /\ qn.base = Plus(qw.base, u) /\ qn.quote = Plus(qw.quote, cu)
      /\ t = Least(bw.left, level.quantity) /\ u = Least(Over(qw.left, p), level.quantity)
  BY <1>1, <1>2, <1>4, <1>5, <1>7 DEF TakesBase, TakesQuote
<1>9. Over(qw.left, p) \in NonNegatives
  BY <1>3, <1>4, WalkIs, SignLaws
<1>10. CASE bw.base = qw.base /\ bw.quote = qw.quote
  <2>1. PICK b \in Rational, v \in Rational : b = bw.base /\ v = bw.quote
    BY <1>3
  <2>2. CASE t = u
    BY <1>5, <1>7, <1>8, <1>10, <2>2 DEF Abreast
  <2>3. CASE Less(t, u)
    <3>1. t = bw.left
      BY <1>8, <1>9, <2>3, WalkIs, LevelIs, LeastCut
    <3>2. bn.left = Zero
      BY <1>3, <1>8, <3>1, PlusLaws
    <3>3. Less(ct, cu)
      BY <1>3, <1>4, <1>5, <2>3, OrderLaws
    <3>4. Leq(b, b) /\ Leq(v, v)
      BY OrderLaws
    <3>5. Less(Plus(t, b), Plus(u, b)) /\ Less(Plus(ct, v), Plus(cu, v))
      BY <1>3, <2>3, <3>3, <3>4, SumLaws
    <3>6. Less(bn.base, qn.base) /\ Less(bn.quote, qn.quote)
      BY <1>3, <1>8, <1>10, <2>1, <3>5, PlusLaws
    <3> QED  BY <1>7, <3>2, <3>6 DEF Abreast
  <2>4. CASE Less(u, t)
    <3>1. u = Over(qw.left, p)
      BY <1>8, <1>9, <2>4, WalkIs, LevelIs, LeastCut
    <3>2. qn.left = Zero
      <4>1. cu = qw.left
        BY <1>3, <1>4, <1>5, <3>1, TimesLaws
      <4> QED  BY <1>3, <1>8, <4>1, PlusLaws
    <3>3. Less(cu, ct)
      BY <1>3, <1>4, <1>5, <2>4, OrderLaws
    <3>4. Leq(b, b) /\ Leq(v, v)
      BY OrderLaws
    <3>5. Less(Plus(u, b), Plus(t, b)) /\ Less(Plus(cu, v), Plus(ct, v))
      BY <1>3, <2>4, <3>3, <3>4, SumLaws
    <3>6. Less(qn.base, bn.base) /\ Less(qn.quote, bn.quote)
      BY <1>3, <1>8, <1>10, <2>1, <3>5, PlusLaws
    <3> QED  BY <1>7, <3>2, <3>6 DEF Abreast
  <2> QED  BY <1>3, <2>2, <2>3, <2>4, MoreLaws
<1>11. CASE bw.left = Zero /\ Less(bw.base, qw.base) /\ Less(bw.quote, qw.quote)
  <2>1. t = Zero
    BY <1>8, <1>11, LevelIs, NothingLeft
  <2>2. ct = Zero
    BY <1>4, <1>5, <2>1, TimesLaws
  <2>3. bn.left = Zero /\ bn.base = bw.base /\ bn.quote = bw.quote
    BY <1>3, <1>8, <1>11, <2>1, <2>2, PlusLaws, ZeroOne
  <2>4. Leq(qw.base, qn.base) /\ Leq(qw.quote, qn.quote) /\ qn.base \in Rational /\ qn.quote \in Rational
    <3>1. Plus(qw.base, u) \in Rational /\ Leq(qw.base, Plus(qw.base, u))
      BY <1>3, MoreLaws, Closed
    <3>2. Plus(qw.quote, cu) \in Rational /\ Leq(qw.quote, Plus(qw.quote, cu))
      BY <1>3, <1>5, <1>6, MoreLaws, Closed
    <3> QED  BY <3>1, <3>2, <1>8
  <2>5. Less(bn.base, qn.base) /\ Less(bn.quote, qn.quote)
    BY <1>3, <1>11, <2>3, <2>4, MixLaws
  <2> QED  BY <1>7, <2>3, <2>5 DEF Abreast
<1>12. CASE qw.left = Zero /\ Less(qw.base, bw.base) /\ Less(qw.quote, bw.quote)
  <2>1. u = Zero
    <3>1. Over(Zero, p) = Zero
      <4>1. Over(Zero, p) = Times(Zero, Over(One, p)) /\ Over(One, p) \in Positives
        BY OverLaws, ZeroOne
      <4> QED  BY <4>1, TimesLaws DEF Positives
    <3> QED  BY <1>8, <1>12, <3>1, LevelIs, NothingLeft
  <2>2. cu = Zero
    BY <1>4, <1>5, <2>1, TimesLaws
  <2>3. qn.left = Zero /\ qn.base = qw.base /\ qn.quote = qw.quote
    BY <1>3, <1>8, <1>12, <2>1, <2>2, PlusLaws, ZeroOne
  <2>4. Leq(bw.base, bn.base) /\ Leq(bw.quote, bn.quote) /\ bn.base \in Rational /\ bn.quote \in Rational
    <3>1. Plus(bw.base, t) \in Rational /\ Leq(bw.base, Plus(bw.base, t))
      BY <1>3, MoreLaws, Closed
    <3>2. Plus(bw.quote, ct) \in Rational /\ Leq(bw.quote, Plus(bw.quote, ct))
      BY <1>3, <1>5, <1>6, MoreLaws, Closed
    <3> QED  BY <3>1, <3>2, <1>8
  <2>5. Less(qn.base, bn.base) /\ Less(qn.quote, bn.quote)
    BY <1>3, <1>12, <2>3, <2>4, MixLaws
  <2> QED  BY <1>7, <2>3, <2>5 DEF Abreast
<1> QED  BY <1>10, <1>11, <1>12 DEF Abreast

LEMMA AbreastOnward ==
    ASSUME NEW n \in Nat, NEW levels, \A k \in 1..n : levels[k] \in MetLevel,
           NEW f \in [0..n -> Walk(Exact)], NEW g \in [0..n -> Walk(Exact)], Abreast(f[0], g[0]),
           \A k \in 1..n : f[k] = TakeBase(Exact, f[k - 1], levels[k]),
           \A k \in 1..n : g[k] = TakeQuote(Exact, g[k - 1], levels[k])
    PROVE  Abreast(f[n], g[n])
<1> DEFINE Bad == {k \in 0..n : ~Abreast(f[k], g[k])}
<1>1. SUFFICES ASSUME Bad # {} PROVE FALSE
  OBVIOUS
<1>2. PICK k \in 1..n : k \in Bad /\ (k - 1) \notin Bad
  <2>1. Bad \in SUBSET (0..n) /\ 0 \notin Bad
    OBVIOUS
  <2> HIDE DEF Bad
  <2> QED  BY <1>1, <2>1, FirstBreak
<1>3. k - 1 \in 0..n /\ Abreast(f[k - 1], g[k - 1])
  BY <1>2
<1>4. f[k - 1] \in Walk(Exact) /\ g[k - 1] \in Walk(Exact) /\ levels[k] \in MetLevel
  BY <1>3
<1>5. Abreast(TakeBase(Exact, f[k - 1], levels[k]), TakeQuote(Exact, g[k - 1], levels[k]))
  BY <1>3, <1>4, AbreastStep
<1> QED  BY <1>2, <1>5

LEMMA WalksAbreast ==
    ASSUME NEW amount \in NonNegatives, NEW quantity \in NonNegatives, NEW levels \in Seq(MetLevel)
    PROVE  Abreast(ForBase(Exact, quantity, levels), ForQuote(Exact, amount, levels))
<1>1. PICK n \in Nat : n = Len(levels)
  OBVIOUS
<1>2. \A k \in 1..n : levels[k] \in MetLevel
  BY <1>1
<1>3. PICK f : BaseWalk(Exact, f, quantity, levels) /\ ForBase(Exact, quantity, levels) = f[n]
  BY <1>1, ForBaseIs, ExactSized
<1>4. PICK g : QuoteWalk(Exact, g, amount, levels) /\ ForQuote(Exact, amount, levels) = g[n]
  BY <1>1, ForQuoteIs, ExactSized
<1>5. /\ f \in [0..n -> Walk(Exact)] /\ f[0] = Untouched(quantity)
      /\ \A k \in 1..n : f[k] = TakeBase(Exact, f[k - 1], levels[k])
  BY <1>1, <1>3 DEF BaseWalk
<1>6. /\ g \in [0..n -> Walk(Exact)] /\ g[0] = Untouched(amount)
      /\ \A k \in 1..n : g[k] = TakeQuote(Exact, g[k - 1], levels[k])
  BY <1>1, <1>4 DEF QuoteWalk
<1>7. Abreast(f[0], g[0])
  BY <1>5, <1>6 DEF Abreast, Untouched
<1>8. Abreast(f[n], g[n])
  BY <1>2, <1>5, <1>6, <1>7, AbreastOnward
<1> QED  BY <1>3, <1>4, <1>8

-----------------------------------------------------------------------------
(* A walk takes what it gives back, at no better than the best price.       *)

NoBetter(op, base, quote, price) ==
    IF op = "SELL_BASE" THEN Leq(quote, Times(base, price)) ELSE Leq(Times(base, price), quote)

Straight(walk, amount, op, price) ==
    Plus(walk.base, walk.left) = amount /\ NoBetter(op, walk.base, walk.quote, price)

\* No level is at a better price.
Behind(levels, n, op, price) ==
    \A k \in 1..n : levels[k] \in MetLevel /\ (IF op = "SELL_BASE" THEN Leq(levels[k].price, price)
                                               ELSE Leq(price, levels[k].price))

LEMMA StraightStep ==
    ASSUME NEW walk \in Walk(Exact), NEW level \in MetLevel, NEW amount, NEW op,
           NEW price \in Positives,
           IF op = "SELL_BASE" THEN Leq(level.price, price) ELSE Leq(price, level.price),
           Straight(walk, amount, op, price)
    PROVE  Straight(TakeBase(Exact, walk, level), amount, op, price)
<1>1. PICK t \in NonNegatives : TakesBase(walk, level, t, TakeBase(Exact, walk, level))
  BY TakeIs
<1>2. PICK next : next = TakeBase(Exact, walk, level)
  OBVIOUS
<1>3. /\ next.left = Minus(walk.left, t) /\ next.base = Plus(walk.base, t)
      /\ next.quote = Plus(walk.quote, Times(t, level.price))
  BY <1>1, <1>2 DEF TakesBase
<1>4. /\ t \in Rational /\ Leq(Zero, t) /\ price \in Rational
      /\ walk.left \in Rational /\ walk.base \in Rational /\ walk.quote \in Rational
      /\ level.price \in Rational
  BY WalkIs, LevelIs DEF NonNegatives, Positives
<1>5. Plus(next.base, next.left) = amount
  BY <1>3, <1>4, MixLaws DEF Straight
<1>6. PICK ct \in Rational, cp \in Rational, old \in Rational :
          ct = Times(t, level.price) /\ cp = Times(t, price) /\ old = Times(walk.base, price)
  BY <1>4, Closed
<1>7. Times(next.base, price) = Plus(old, cp)
  BY <1>3, <1>4, <1>6, TimesLaws
<1>8. CASE op = "SELL_BASE"
  <2>1. Leq(walk.quote, old)
    BY <1>6, <1>8 DEF Straight, NoBetter
  <2>2. Leq(Times(level.price, t), Times(price, t))
    BY <1>4, <1>8, OrderLaws
  <2>3. Leq(ct, cp)
    BY <2>2, <1>4, <1>6, TimesLaws
  <2>4. Leq(Plus(walk.quote, ct), Plus(old, cp))
    BY <2>1, <2>3, <1>4, <1>6, SumLaws
  <2> QED  BY <1>2, <1>3, <1>5, <1>6, <1>7, <1>8, <2>4 DEF Straight, NoBetter
<1>9. CASE op # "SELL_BASE"
  <2>1. Leq(old, walk.quote)
    BY <1>6, <1>9 DEF Straight, NoBetter
  <2>2. Leq(Times(price, t), Times(level.price, t))
    BY <1>4, <1>9, OrderLaws
  <2>3. Leq(cp, ct)
    BY <2>2, <1>4, <1>6, TimesLaws
  <2>4. Leq(Plus(old, cp), Plus(walk.quote, ct))
    BY <2>1, <2>3, <1>4, <1>6, SumLaws
  <2> QED  BY <1>2, <1>3, <1>5, <1>6, <1>7, <1>9, <2>4 DEF Straight, NoBetter
<1> QED  BY <1>8, <1>9

LEMMA StraightOnward ==
    ASSUME NEW n \in Nat, NEW levels, NEW amount, NEW op, NEW price \in Positives,
           Behind(levels, n, op, price), NEW f \in [0..n -> Walk(Exact)],
           Straight(f[0], amount, op, price),
           \A k \in 1..n : f[k] = TakeBase(Exact, f[k - 1], levels[k])
    PROVE  Straight(f[n], amount, op, price)
<1> DEFINE Bad == {k \in 0..n : ~Straight(f[k], amount, op, price)}
<1>1. SUFFICES ASSUME Bad # {} PROVE FALSE
  OBVIOUS
<1>2. PICK k \in 1..n : k \in Bad /\ (k - 1) \notin Bad
  <2>1. Bad \in SUBSET (0..n) /\ 0 \notin Bad
    OBVIOUS
  <2> HIDE DEF Bad
  <2> QED  BY <1>1, <2>1, FirstBreak
<1>3. k - 1 \in 0..n /\ Straight(f[k - 1], amount, op, price)
  BY <1>2
<1>4. f[k - 1] \in Walk(Exact) /\ levels[k] \in MetLevel
      /\ (IF op = "SELL_BASE" THEN Leq(levels[k].price, price) ELSE Leq(price, levels[k].price))
  BY <1>3 DEF Behind
<1>5. Straight(TakeBase(Exact, f[k - 1], levels[k]), amount, op, price)
  BY <1>3, <1>4, StraightStep
<1> QED  BY <1>2, <1>5

LEMMA ForBaseStraight ==
    ASSUME NEW quantity \in NonNegatives, NEW levels \in Seq(MetLevel), NEW op,
           NEW price \in Positives, NEW n \in Nat, n = Len(levels), Behind(levels, n, op, price)
    PROVE  Straight(ForBase(Exact, quantity, levels), quantity, op, price)
<1>1. PICK f : BaseWalk(Exact, f, quantity, levels) /\ ForBase(Exact, quantity, levels) = f[n]
  BY ForBaseIs, ExactSized
<1>2. /\ f \in [0..n -> Walk(Exact)] /\ f[0] = Untouched(quantity)
      /\ \A k \in 1..n : f[k] = TakeBase(Exact, f[k - 1], levels[k])
  BY <1>1 DEF BaseWalk
<1>3. Straight(f[0], quantity, op, price)
  <2>1. quantity \in Rational /\ price \in Rational /\ Zero \in Rational
    BY ZeroOne DEF NonNegatives, Positives
  <2>2. Times(Zero, price) = Zero /\ Leq(Zero, Zero) /\ Plus(Zero, quantity) = quantity
    BY <2>1, TimesLaws, OrderLaws, PlusLaws
  <2> QED  BY <1>2, <2>2 DEF Straight, NoBetter, Untouched
<1>4. Straight(f[n], quantity, op, price)
  BY <1>2, <1>3, StraightOnward
<1> QED  BY <1>1, <1>4

LEMMA ForBaseKeeps ==
    ASSUME NEW amount \in NonNegatives, NEW levels \in Seq(MetLevel)
    PROVE  Plus(ForBase(Exact, amount, levels).base, ForBase(Exact, amount, levels).left) = amount
<1>1. PICK n \in Nat : n = Len(levels)
  OBVIOUS
<1>2. PICK f : BaseWalk(Exact, f, amount, levels) /\ ForBase(Exact, amount, levels) = f[n]
  BY <1>1, ForBaseIs, ExactSized
<1>3. /\ f \in [0..n -> Walk(Exact)] /\ f[0] = Untouched(amount)
      /\ \A k \in 1..n : levels[k] \in MetLevel /\ f[k] = TakeBase(Exact, f[k - 1], levels[k])
  BY <1>1, <1>2 DEF BaseWalk
<1> DEFINE Bad == {k \in 0..n : Plus(f[k].base, f[k].left) # amount}
<1>4. SUFFICES ASSUME Bad # {} PROVE FALSE
  BY <1>2
<1>5. 0 \notin Bad
  <2>1. Plus(Zero, amount) = amount
    BY PlusLaws, ZeroOne DEF NonNegatives
  <2> QED  BY <2>1, <1>3 DEF Untouched
<1>6. PICK k \in 1..n : k \in Bad /\ (k - 1) \notin Bad
  <2>1. Bad \in SUBSET (0..n)
    OBVIOUS
  <2> HIDE DEF Bad
  <2> QED  BY <1>4, <1>5, <2>1, FirstBreak
<1>7. PICK walk \in Walk(Exact) : walk = f[k - 1] /\ Plus(walk.base, walk.left) = amount
  BY <1>3, <1>6
<1>8. PICK t \in NonNegatives : TakesBase(walk, levels[k], t, f[k])
  BY <1>3, <1>7, TakeIs
<1>9. Plus(f[k].base, f[k].left) = amount
  <2>1. t \in Rational /\ walk.base \in Rational /\ walk.left \in Rational
    BY WalkIs DEF NonNegatives
  <2>2. Plus(Plus(walk.base, t), Minus(walk.left, t)) = Plus(walk.base, walk.left)
    BY <2>1, MixLaws
  <2> QED  BY <2>2, <1>7, <1>8 DEF TakesBase
<1> QED  BY <1>6, <1>9

LEMMA ForQuoteKeeps ==
    ASSUME NEW amount \in NonNegatives, NEW levels \in Seq(MetLevel)
    PROVE  Plus(ForQuote(Exact, amount, levels).quote, ForQuote(Exact, amount, levels).left) = amount
<1>1. PICK n \in Nat : n = Len(levels)
  OBVIOUS
<1>2. PICK f : QuoteWalk(Exact, f, amount, levels) /\ ForQuote(Exact, amount, levels) = f[n]
  BY <1>1, ForQuoteIs, ExactSized
<1>3. /\ f \in [0..n -> Walk(Exact)] /\ f[0] = Untouched(amount)
      /\ \A k \in 1..n : levels[k] \in MetLevel /\ f[k] = TakeQuote(Exact, f[k - 1], levels[k])
  BY <1>1, <1>2 DEF QuoteWalk
<1> DEFINE Bad == {k \in 0..n : Plus(f[k].quote, f[k].left) # amount}
<1>4. SUFFICES ASSUME Bad # {} PROVE FALSE
  BY <1>2
<1>5. 0 \notin Bad
  <2>1. Plus(Zero, amount) = amount
    BY PlusLaws, ZeroOne DEF NonNegatives
  <2> QED  BY <2>1, <1>3 DEF Untouched
<1>6. PICK k \in 1..n : k \in Bad /\ (k - 1) \notin Bad
  <2>1. Bad \in SUBSET (0..n)
    OBVIOUS
  <2> HIDE DEF Bad
  <2> QED  BY <1>4, <1>5, <2>1, FirstBreak
<1>7. PICK walk \in Walk(Exact) : walk = f[k - 1] /\ Plus(walk.quote, walk.left) = amount
  BY <1>3, <1>6
<1>8. PICK t \in NonNegatives : TakesQuote(walk, levels[k], t, f[k])
  BY <1>3, <1>7, TakeIs
<1>9. Plus(f[k].quote, f[k].left) = amount
  <2>1. PICK cost \in Rational : cost = Times(t, levels[k].price)
    BY <1>3, LevelIs, Closed DEF NonNegatives
  <2>2. walk.quote \in Rational /\ walk.left \in Rational
    BY WalkIs
  <2>3. Plus(Plus(walk.quote, cost), Minus(walk.left, cost)) = Plus(walk.quote, walk.left)
    BY <2>1, <2>2, MixLaws
  <2> QED  BY <2>1, <2>3, <1>7, <1>8 DEF TakesQuote
<1> QED  BY <1>6, <1>9

-----------------------------------------------------------------------------
(* LotsAreWhole.                                                           *)

\* The order of a leg that executed, over the levels it met.
Executed(order, leg, amount, mode, fee, met, step) ==
    /\ order.input = amount
    /\ order.quantity = OrderQuantity(Exact, leg, amount, met, step)
    /\ order.quantity \in NonNegatives
    /\ Enough(Exact, leg, amount, mode, met)
    /\ ForBase(Exact, order.quantity, met).left = Zero
    /\ order.consumed = IF leg.op = "SELL_BASE" THEN ForBase(Exact, order.quantity, met).base
                                                ELSE ForBase(Exact, order.quantity, met).quote
    /\ order.output = Times(IF leg.op = "SELL_BASE" THEN ForBase(Exact, order.quantity, met).quote
                                                    ELSE ForBase(Exact, order.quantity, met).base,
                            Minus(One, fee))
    /\ order.unspent = IF Leq(amount, order.consumed) THEN Zero ELSE Minus(amount, order.consumed)

LEMMA OrderQuantityExact ==
    ASSUME NEW leg, NEW amount \in NonNegatives, NEW levels \in Seq(MetLevel), NEW step \in Nat
    PROVE  \E x \in NonNegatives :
               /\ OrderQuantity(Exact, leg, amount, levels, step) = Floored(Exact, x, step)
               /\ x = IF leg.op = "SELL_BASE" THEN amount ELSE ForQuote(Exact, amount, levels).base
  BY OrderQuantityIs, ExactSized

LEMMA ExecutedIs ==
    ASSUME NEW leg, NEW amount \in NonNegatives, NEW mode, NEW fee \in Share,
           NEW levels \in Seq(MetLevel), NEW rules, rules.step \in Nat,
           NEW order, order = Leg(Exact, leg, amount, mode, fee, levels, rules), order.executable
    PROVE  levels # <<>>
           /\ Executed(order, leg, amount, mode, fee, Displayed(levels, mode), rules.step)
<1>1. levels # <<>>
  BY DEF Leg, NotExecuted
<1>2. PICK met \in Seq(MetLevel) : met = Displayed(levels, mode)
  BY <1>1, DisplayedType
<1>3. PICK quantity \in NonNegatives : quantity = OrderQuantity(Exact, leg, amount, met, rules.step)
  <2>1. PICK x \in NonNegatives :
            /\ OrderQuantity(Exact, leg, amount, met, rules.step) = Floored(Exact, x, rules.step)
            /\ x = IF leg.op = "SELL_BASE" THEN amount ELSE ForQuote(Exact, amount, met).base
    <3>1. PICK step \in Nat : step = rules.step
      OBVIOUS
    <3>2. PICK x \in NonNegatives :
              /\ OrderQuantity(Exact, leg, amount, met, step) = Floored(Exact, x, step)
              /\ x = IF leg.op = "SELL_BASE" THEN amount ELSE ForQuote(Exact, amount, met).base
      BY OrderQuantityExact
    <3> QED  BY <3>1, <3>2
  <2> QED  BY <2>1, FlooredType DEF NonNegatives
<1>4. PICK walk : walk = ForBase(Exact, quantity, met)
  OBVIOUS
<1>5. order = Filled(Exact, leg, amount, fee, rules, quantity, Enough(Exact, leg, amount, mode, met), walk)
  BY <1>1, <1>2, <1>3, <1>4 DEF Leg, Walked, Displayed
<1>6. /\ order.input = amount /\ order.quantity = quantity
      /\ order.consumed = IF leg.op = "SELL_BASE" THEN walk.base ELSE walk.quote
      /\ order.output = Minus(IF leg.op = "SELL_BASE" THEN walk.quote ELSE walk.base,
                              Times(IF leg.op = "SELL_BASE" THEN walk.quote ELSE walk.base, fee))
      /\ order.unspent = IF Leq(amount, IF leg.op = "SELL_BASE" THEN walk.base ELSE walk.quote)
                         THEN Zero
                         ELSE Minus(amount, IF leg.op = "SELL_BASE" THEN walk.base ELSE walk.quote)
  BY <1>5 DEF Filled, Add, Subtract, Multiply, Divide, Rounded
<1>7. Enough(Exact, leg, amount, mode, met) /\ walk.left = Zero
  <2>1. PICK enough \in BOOLEAN : enough = Enough(Exact, leg, amount, mode, met)
    BY DEF Enough
  <2>2. walk \in Walk(Exact)
    BY <1>4, WalkTypes, ExactSized
  <2>3. /\ order \in LegResult(Exact)
        /\ order.quantity = quantity
        /\ order.notional = walk.quote
        /\ order.executable => ~Rejects(rules, quantity, walk.quote) /\ enough /\ walk.left = Zero
    BY <1>5, <2>1, <2>2, FilledType, ExactSized
  <2> QED  BY <2>1, <2>3
<1>8. order.output = Times(IF leg.op = "SELL_BASE" THEN walk.quote ELSE walk.base, Minus(One, fee))
  <2>1. PICK gross \in NonNegatives : gross = IF leg.op = "SELL_BASE" THEN walk.quote ELSE walk.base
    BY <1>4, WalkTypes, WalkIs, ExactSized
  <2> QED  BY <2>1, <1>6, FeeOf
<1> QED  BY <1>1, <1>2, <1>3, <1>4, <1>6, <1>7, <1>8 DEF Executed

(* A leg spends at most what it is given.                                   *)
LEMMA NeverOverspends ==
    ASSUME NEW leg, NEW amount \in NonNegatives, NEW mode, NEW fee, NEW met \in Seq(MetLevel),
           NEW step \in Nat, NEW order, Executed(order, leg, amount, mode, fee, met, step)
    PROVE  Leq(order.consumed, amount)
<1>1. PICK q \in NonNegatives : q = order.quantity /\ q = OrderQuantity(Exact, leg, amount, met, step)
  BY DEF Executed
<1>2. PICK walk \in Walk(Exact) : walk = ForBase(Exact, q, met) /\ walk.left = Zero
  BY <1>1, WalkTypes, ExactSized DEF Executed
<1>3. walk.base = q
  <2>1. Plus(walk.base, Zero) = q
    BY <1>2, ForBaseKeeps
  <2> QED  BY <2>1, WalkIs, PlusLaws
<1>4. amount \in Rational /\ q \in Rational
  BY DEF NonNegatives
<1>5. CASE leg.op = "SELL_BASE"
  <2>1. Leq(q, amount)
    BY <1>1, <1>4, <1>5, FlooredType DEF OrderQuantity
  <2> QED  BY <2>1, <1>1, <1>2, <1>3, <1>5 DEF Executed
<1>6. CASE leg.op # "SELL_BASE"
  <2>1. PICK spent \in Walk(Exact) : spent = ForQuote(Exact, amount, met)
    BY WalkTypes, ExactSized
  <2>2. Leq(q, spent.base)
    BY <1>1, <1>6, <2>1, WalkIs, FlooredType DEF OrderQuantity
  <2>3. Abreast(walk, spent)
    BY <1>2, <2>1, WalksAbreast
  <2>4. walk.quote \in Rational /\ spent.quote \in Rational /\ spent.base \in Rational
        /\ spent.left \in Rational /\ Leq(Zero, spent.left)
    BY WalkIs DEF NonNegatives
  <2>5. ~Less(spent.base, walk.base)
    BY <1>3, <1>4, <2>2, <2>4, OrderLaws
  <2>6. Leq(walk.quote, spent.quote)
    BY <2>3, <2>4, <2>5, MoreLaws, OrderLaws DEF Abreast
  <2>7. Leq(spent.quote, amount)
    <3>1. Plus(spent.quote, spent.left) = amount
      BY <2>1, ForQuoteKeeps
    <3> QED  BY <3>1, <2>4, MoreLaws
  <2>8. Leq(walk.quote, amount)
    BY <1>4, <2>4, <2>6, <2>7, OrderLaws
  <2> QED  BY <2>8, <1>1, <1>2, <1>6 DEF Executed
<1> QED  BY <1>5, <1>6

(* With one lot more it would spend more than that.                         *)
LEMMA NoLotIsLeft ==
    ASSUME NEW leg, NEW amount \in NonNegatives, NEW mode, mode # "top", NEW fee,
           NEW met \in Seq(MetLevel), NEW step \in Nat \ {0},
           NEW order, Executed(order, leg, amount, mode, fee, met, step),
           NEW more, more = ForBase(Exact, Plus(order.quantity, Num(step)), met), more.left = Zero
    PROVE  Less(amount, IF leg.op = "SELL_BASE" THEN more.base ELSE more.quote)
<1>1. PICK q \in NonNegatives : q = order.quantity /\ q = OrderQuantity(Exact, leg, amount, met, step)
  BY DEF Executed
<1>2. PICK x \in NonNegatives :
          /\ OrderQuantity(Exact, leg, amount, met, step) = Floored(Exact, x, step)
          /\ x = IF leg.op = "SELL_BASE" THEN amount ELSE ForQuote(Exact, amount, met).base
  BY OrderQuantityIs, ExactSized
<1>3. PICK next \in NonNegatives : next = Plus(q, Num(step)) /\ Less(x, next)
  <2>1. Num(step) \in NonNegatives /\ Num(step) \in Rational /\ q \in Rational /\ x \in Rational
    BY NumOrder DEF NonNegatives
  <2>2. Plus(q, Num(step)) \in NonNegatives
    BY <2>1, SignLaws
  <2>3. Less(x, Plus(Floored(Exact, x, step), Num(step)))
    BY <2>1, FlooredIs
  <2> QED  BY <2>2, <2>3, <1>1, <1>2
<1>4. PICK walk \in Walk(Exact) : walk = more /\ walk = ForBase(Exact, next, met)
  BY <1>1, <1>3, WalkTypes, ExactSized
<1>5. walk.base = next
  <2>1. Plus(walk.base, Zero) = next
    BY <1>4, ForBaseKeeps
  <2> QED  BY <2>1, WalkIs, PlusLaws
<1>6. CASE leg.op = "SELL_BASE"
  BY <1>2, <1>3, <1>4, <1>5, <1>6
<1>7. CASE leg.op # "SELL_BASE"
  <2>1. PICK spent \in Walk(Exact) : spent = ForQuote(Exact, amount, met) /\ spent.left = Zero
    <3>1. /\ ForQuote(Exact, amount, met) \in Walk(Exact)
          /\ Leq(ForQuote(Exact, amount, met).left, Zero)
      BY <1>7, WalkTypes, ExactSized DEF Executed, Enough
    <3>2. ForQuote(Exact, amount, met).left = Zero
      BY <3>1, WalkIs, ZeroOne, OrderLaws DEF NonNegatives
    <3> QED  BY <3>1, <3>2
  <2>2. spent.quote = amount
    <3>1. Plus(spent.quote, Zero) = amount
      BY <2>1, ForQuoteKeeps
    <3> QED  BY <3>1, WalkIs, PlusLaws
  <2>3. Less(spent.base, walk.base)
    BY <1>2, <1>3, <1>5, <1>7, <2>1
  <2>4. Abreast(walk, spent)
    BY <1>4, <2>1, WalksAbreast
  <2>5. walk.base \in Rational /\ spent.base \in Rational
    BY WalkIs
  <2>6. ~Less(walk.base, spent.base) /\ walk.base # spent.base
    BY <2>3, <2>5, MoreLaws, OrderLaws
  <2>7. Less(spent.quote, walk.quote)
    BY <2>4, <2>6 DEF Abreast
  <2> QED  BY <1>4, <1>7, <2>2, <2>7
<1> QED  BY <1>6, <1>7

\* Leg i of a run, and what entered it.
LegOfRun(run, legs, amount, pass, i) ==
    /\ run.done[i] \in LegResult(Exact)
    /\ Entering(run.done, amount, i) \in NonNegatives
    /\ run.done[i] = PassLeg(Exact, legs, i, Entering(run.done, amount, i), pass)

LEMMA RunLeg ==
    ASSUME NEW legs, NEW pass, NEW amount \in NonNegatives, NEW k \in Nat, NEW run,
           Chained(Exact, run, legs, amount, pass, k), NEW i \in 1..Len(run.done)
    PROVE  i \in 1..k /\ LegOfRun(run, legs, amount, pass, i)
<1>1. run.done \in Seq(LegResult(Exact)) /\ Len(run.done) \in Nat /\ Len(run.done) <= k
  BY DEF Chained, RouteRun, Sized
<1>2. i \in 1..k /\ run.done[i] \in LegResult(Exact)
  BY <1>1
<1>3. Entering(run.done, amount, i) \in NonNegatives
  <2>1. CASE i = 1
    BY <2>1 DEF Entering
  <2>2. CASE i # 1
    <3>1. i - 1 \in 1..Len(run.done)
      BY <1>1, <2>2
    <3>2. run.done[i - 1] \in LegResult(Exact)
      BY <1>1, <3>1
    <3> QED  BY <2>2, <3>2 DEF Entering, LegResult, Sized
  <2> QED  BY <2>1, <2>2
<1>4. run.done[i] = PassLeg(Exact, legs, i, Entering(run.done, amount, i), pass)
  BY DEF Chained
<1> QED  BY <1>2, <1>3, <1>4 DEF LegOfRun

(* What an executed leg of a pass stands for.                               *)
LEMMA PassLegExecuted ==
    ASSUME NEW pass, PassOK(pass), NEW legs, LegsOK(legs, pass), NEW i \in 1..Len(legs),
           NEW amount \in NonNegatives, NEW order, order = PassLeg(Exact, legs, i, amount, pass),
           order.executable
    PROVE  /\ LevelsOf(Exact, legs, i, pass) # <<>> /\ LevelsOf(Exact, legs, i, pass) \in Seq(MetLevel)
           /\ Executed(order, legs[i], amount, pass.mode, PassFee(legs[i], pass),
                       Displayed(LevelsOf(Exact, legs, i, pass), pass.mode), PassRules(legs[i], pass).step)
<1>1. legs[i] \in LegType /\ PassRules(legs[i], pass).step \in Nat
  BY DEF LegsOK
<1>2. PassFee(legs[i], pass) \in Share
  <2>1. Zero \in Share
    BY ZeroOne DEF Share, Leq, Less, Zero, One
  <2>2. legs[i].fee \in Share
    BY <1>1 DEF LegType, Share
  <2> QED  BY <2>1, <2>2 DEF PassFee
<1>3. LevelsOf(Exact, legs, i, pass) \in Seq(MetLevel)
  BY <1>1, LevelsOfType, ExactSized
<1>4. PICK rules, levels, fee : /\ rules = PassRules(legs[i], pass) /\ levels = LevelsOf(Exact, legs, i, pass)
                                /\ fee = PassFee(legs[i], pass)
  OBVIOUS
<1>5. order = Leg(Exact, legs[i], amount, pass.mode, fee, levels, rules)
  BY <1>4 DEF PassLeg
<1>6. levels # <<>> /\ Executed(order, legs[i], amount, pass.mode, fee, Displayed(levels, pass.mode), rules.step)
  BY <1>1, <1>2, <1>3, <1>4, <1>5, ExecutedIs
<1> QED  BY <1>3, <1>4, <1>6

LEMMA AnswerIsWhole ==
    ASSUME NEW legs \in Routes, NEW amount \in Amounts, NEW mode \in Modes, mode # "top",
           NEW answer, answer = Simulated(Exact, legs, amount, mode), NEW i \in DOMAIN answer.legs,
           answer.legs[i].executable, NEW step, step = RulesOf(legs[i]).step,
           NEW more, more = ForBase(Exact, Plus(answer.legs[i].quantity, Num(step)),
                                    LevelsOf(Exact, legs, i, Pass(mode)))
    PROVE  /\ Leq(answer.legs[i].consumed, answer.legs[i].input)
           /\ step > 0 /\ more.left = Zero
                  => Less(answer.legs[i].input, IF legs[i].op = "SELL_BASE" THEN more.base ELSE more.quote)
<1>1. PICK pass : pass = Pass(mode)
  OBVIOUS
<1>2. PICK run, reference : AnswerOf(Exact, answer, legs, amount, mode, run, reference)
  BY AnswerIs, ExactSized
<1>3. PassOK(pass) /\ pass.reference = FALSE /\ pass.mode = "depth" /\ LegsOK(legs, pass)
      /\ amount \in NonNegatives
  <2>1. PassOK(pass) /\ pass.reference = FALSE /\ pass.reference \in BOOLEAN /\ pass.mode = "depth"
    BY <1>1, PassIs
  <2> QED  BY <2>1, RoutesOK, AmountsOK, ExactSized
<1>4. PICK n \in Nat : n = Len(legs)
  <2>1. legs \in Seq(LegType)
    BY RoutesOK
  <2> QED  BY <2>1
<1>5. Chained(Exact, run, legs, amount, pass, n) /\ answer.legs = run.done
  BY <1>1, <1>2, <1>4 DEF AnswerOf, RunIs, Add, Subtract, Multiply, Divide, Rounded
<1>6. i \in 1..Len(run.done)
  <2>1. run.done \in Seq(LegResult(Exact))
    BY <1>5 DEF Chained, RouteRun, Sized
  <2> QED  BY <2>1, <1>5
<1>7. PICK entering \in NonNegatives : run.done[i] = PassLeg(Exact, legs, i, entering, pass) /\ i \in 1..Len(legs)
  <2>1. Chained(Exact, run, legs, amount, pass, n) /\ amount \in NonNegatives
    BY <1>3, <1>5
  <2>2. i \in 1..n /\ LegOfRun(run, legs, amount, pass, i)
    BY <2>1, <1>6, RunLeg
  <2> QED  BY <2>2, <1>4 DEF LegOfRun
<1>8. PICK order : order = run.done[i] /\ order = answer.legs[i] /\ order.executable
  BY <1>5
<1>9. PICK levels \in Seq(MetLevel) : levels = LevelsOf(Exact, legs, i, pass) /\ levels # <<>>
  BY <1>3, <1>7, <1>8, PassLegExecuted
<1>10. PassRules(legs[i], pass).step = step /\ step \in Nat
  BY <1>3, <1>7 DEF PassRules, LegsOK
<1>11. Executed(order, legs[i], entering, pass.mode, PassFee(legs[i], pass), levels, step)
  <2>1. Executed(order, legs[i], entering, pass.mode, PassFee(legs[i], pass),
                 Displayed(LevelsOf(Exact, legs, i, pass), pass.mode), PassRules(legs[i], pass).step)
    BY <1>3, <1>7, <1>8, PassLegExecuted
  <2>2. Displayed(LevelsOf(Exact, legs, i, pass), pass.mode) = levels
    BY <1>3, <1>9 DEF Displayed
  <2> QED  BY <2>1, <2>2, <1>10
<1>12. order.input = entering
  BY <1>11 DEF Executed
<1>13. Leq(order.consumed, entering)
  BY <1>10, <1>11, NeverOverspends
<1>14. ASSUME step > 0, more.left = Zero
       PROVE  Less(entering, IF legs[i].op = "SELL_BASE" THEN more.base ELSE more.quote)
  <2>1. step \in Nat \ {0} /\ more = ForBase(Exact, Plus(order.quantity, Num(step)), levels)
    BY <1>1, <1>8, <1>9, <1>10, <1>14
  <2> QED  BY <2>1, <1>3, <1>11, <1>14, NoLotIsLeft
<1> QED  BY <1>8, <1>12, <1>13, <1>14

(***************************************************************************)
(* For every route, size and lot rule, wherever rounding changed nothing   *)
(* in the result: a leg spends no more than it is given, and with one lot  *)
(* more it would (simulate_leg, _quantize_down).                           *)
(***************************************************************************)
THEOREM SimulatorLotsAreWhole == Spec => [](Unrounded => LotsAreWhole)
<1>1. ASSUME SInv, Unrounded PROVE LotsAreWhole
  <2>1. CASE result = Unsettled
    <3>1. result.legs = <<>>
      BY <2>1 DEF Unsettled
    <3>2. DOMAIN result.legs = {}
      BY <3>1
    <3> QED  BY <3>2 DEF LotsAreWhole
  <2>2. CASE \E amount \in Amounts, mode \in Modes : Answered(route, amount, mode)
    <3>1. PICK amount \in Amounts, mode \in Modes :
              result = Simulated(Exact, route, amount, mode) /\ ask.mode = mode
      BY <1>1, <2>2 DEF Answered, Unrounded
    <3>2. route \in Routes
      BY <1>1 DEF SInv
    <3>3. ASSUME NEW i \in DOMAIN result.legs, result.legs[i].executable, mode # "top",
                 NEW step, step = RulesOf(route[i]).step,
                 NEW more, more = ForBase(Exact, Plus(result.legs[i].quantity, Num(step)),
                                          LevelsOf(Exact, route, i, Pass(mode)))
          PROVE  /\ Leq(result.legs[i].consumed, result.legs[i].input)
                 /\ step > 0 /\ more.left = Zero
                        => Less(result.legs[i].input,
                                IF route[i].op = "SELL_BASE" THEN more.base ELSE more.quote)
      BY <3>1, <3>2, <3>3, AnswerIsWhole
    <3>4. \A x : Widened(x) = x
      BY <1>1 DEF Widened
    <3> QED  BY <3>1, <3>3, <3>4 DEF LotsAreWhole
  <2> QED  BY <1>1, <2>1, <2>2 DEF SInv
<1> QED  BY <1>1, SInvHolds, PTL

-----------------------------------------------------------------------------
(* NeverBeatsGross: what a leg makes of what it spends.                    *)

\* What a unit becomes at a price.
Rate(op, price) == IF op = "SELL_BASE" THEN price ELSE Over(One, price)

LEMMA RateType ==
    ASSUME NEW op, NEW price \in Positives
    PROVE  Rate(op, price) \in Positives
  BY OverLaws, ZeroOne DEF Rate

\* The price of the best level in a pass.
StressOf(i, pass) == IF i >= pass.from THEN pass.shock ELSE Zero
BestPrice(legs, i, pass) ==
    Times(Num(legs[i].levels[1].price),
          IF legs[i].op = "SELL_BASE" THEN Minus(One, StressOf(i, pass)) ELSE Plus(One, StressOf(i, pass)))

\* What a pass makes of one unit that leg i spends, at best.
Gain(legs, i, pass) == Times(Rate(legs[i].op, BestPrice(legs, i, pass)), Minus(One, PassFee(legs[i], pass)))

LEMMA ZeroShare == Zero \in Share
  BY ZeroOne DEF Share, Leq, Less, Zero, One

LEMMA FeeIsShare ==
    ASSUME NEW legs, NEW i, legs[i] \in LegType, NEW pass
    PROVE  PassFee(legs[i], pass) \in Share
<1>1. legs[i].fee \in Share
  BY DEF LegType, Share
<1> QED  BY <1>1, ZeroShare DEF PassFee

LEMMA BestPriceIs ==
    ASSUME NEW legs, NEW i, legs[i] \in LegType, legs[i].levels # <<>>, NEW pass, PassOK(pass)
    PROVE  /\ legs[i].levels[1].price \in Nat \ {0}
           /\ BestPrice(legs, i, pass) \in Positives
           /\ Gain(legs, i, pass) \in Positives
<1>1. legs[i].levels[1].price \in Nat \ {0}
  <2>1. legs[i].levels \in Seq(LevelType)
    BY DEF LegType
  <2>2. legs[i].levels[1] \in LevelType
    BY <2>1, EmptySeq
  <2> QED  BY <2>2 DEF LevelType
<1>2. StressOf(i, pass) \in Share
  BY ZeroShare DEF StressOf, PassOK
<1>3. PICK factor \in Positives :
          factor = IF legs[i].op = "SELL_BASE" THEN Minus(One, StressOf(i, pass))
                                               ELSE Plus(One, StressOf(i, pass))
  BY <1>2, ShareFactors
<1>4. PICK best \in Positives : best = Num(legs[i].levels[1].price)
  BY <1>1, NumOrder
<1>5. Times(best, factor) \in Positives
  BY SignLaws DEF Positives
<1>6. BestPrice(legs, i, pass) \in Positives
  BY <1>3, <1>4, <1>5 DEF BestPrice
<1>7. PICK rate \in Positives, kept \in Positives :
          rate = Rate(legs[i].op, BestPrice(legs, i, pass)) /\ kept = Minus(One, PassFee(legs[i], pass))
  BY <1>6, RateType, FeeIsShare, ShareFactors
<1>8. Times(rate, kept) \in Positives
  BY SignLaws DEF Positives
<1> QED  BY <1>1, <1>6, <1>7, <1>8 DEF Gain

(* No level of a pass is at a better price than its first.                  *)
LEMMA LevelsBehind ==
    ASSUME NEW legs, NEW i, legs[i] \in LegType, BestFirst(legs[i]), NEW pass, PassOK(pass),
           LevelsOf(Exact, legs, i, pass) # <<>>, NEW mode,
           NEW met, met = Displayed(LevelsOf(Exact, legs, i, pass), mode),
           NEW n \in Nat, n = Len(met)
    PROVE  /\ legs[i].levels # <<>>
           /\ Behind(met, n, legs[i].op, BestPrice(legs, i, pass))
<1>1. PICK leg \in LegType : leg = legs[i]
  OBVIOUS
<1>2. PICK haircut \in Share, shock \in Share :
          haircut = (IF i >= pass.from THEN pass.haircut ELSE Zero) /\ shock = StressOf(i, pass)
  BY ZeroShare DEF StressOf, PassOK
<1>3. PICK levels : levels = LevelsOf(Exact, legs, i, pass) /\ levels = Effective(Exact, leg, haircut, shock)
  BY <1>1, <1>2 DEF LevelsOf, StressOf
<1>4. PICK factor \in Positives :
          factor = IF leg.op = "SELL_BASE" THEN Minus(One, shock) ELSE Plus(One, shock)
  BY ShareFactors
<1>5. PICK m \in Nat : m = Len(leg.levels)
  <2>1. leg.levels \in Seq(LevelType)
    BY DEF LegType
  <2> QED  BY <2>1
<1>6. /\ levels \in Seq(MetLevel) /\ Len(levels) = m
      /\ \A k \in 1..m : leg.levels[k].price \in Nat \ {0}
                         /\ levels[k].price = Times(Num(leg.levels[k].price), factor)
  BY <1>3, <1>4, <1>5, EffectiveExact
<1>7. m # 0 /\ leg.levels # <<>>
  <2>1. m # 0
    BY <1>3, <1>6, EmptySeq
  <2> QED  BY <2>1, <1>5
<1>8. PICK best \in Positives : best = BestPrice(legs, i, pass) /\ best = levels[1].price
  <2>1. 1 \in 1..m
    BY <1>7
  <2>2. levels[1] \in MetLevel
    BY <2>1, <1>6
  <2>3. levels[1].price = BestPrice(legs, i, pass)
    BY <2>1, <1>1, <1>2, <1>4, <1>6 DEF BestPrice
  <2> QED  BY <2>2, <2>3, LevelIs
<1>9. ASSUME NEW k \in 1..m
      PROVE  IF leg.op = "SELL_BASE" THEN Leq(levels[k].price, best) ELSE Leq(best, levels[k].price)
  <2>1. 1 \in 1..m
    BY <1>7
  <2>2. PICK a \in Nat \ {0}, b \in Nat \ {0} : a = leg.levels[1].price /\ b = leg.levels[k].price
    BY <2>1, <1>6
  <2>3. IF leg.op = "SELL_BASE" THEN b <= a ELSE a <= b
    <3>1. CASE k = 1
      BY <3>1, <2>2
    <3>2. CASE k # 1
      <4>1. 1 < k /\ 1 \in DOMAIN leg.levels /\ k \in DOMAIN leg.levels
        <5>1. leg.levels \in Seq(LevelType)
          BY DEF LegType
        <5> QED  BY <5>1, <3>2, <1>5, <2>1
      <4> QED  BY <4>1, <1>1, <2>2 DEF BestFirst
    <3> QED  BY <3>1, <3>2
  <2>4. /\ Num(a) \in Rational /\ Num(b) \in Rational /\ factor \in Rational /\ Leq(Zero, factor)
        /\ Leq(Num(a), Num(b)) <=> a <= b
        /\ Leq(Num(b), Num(a)) <=> b <= a
    BY NumOrder, MoreLaws, ZeroOne DEF Positives
  <2>5. IF leg.op = "SELL_BASE" THEN Leq(Times(Num(b), factor), Times(Num(a), factor))
                                ELSE Leq(Times(Num(a), factor), Times(Num(b), factor))
    BY <2>3, <2>4, OrderLaws
  <2> QED  BY <2>1, <2>2, <2>5, <1>6, <1>8
<1>10. CASE mode # "top"
  <2>1. met = levels /\ n = m
    BY <1>3, <1>6, <1>10 DEF Displayed
  <2>2. \A k \in 1..m : levels[k] \in MetLevel
    BY <1>6
  <2> QED  BY <1>1, <1>7, <1>8, <1>9, <2>1, <2>2 DEF Behind
<1>11. CASE mode = "top"
  <2>1. levels # <<>> /\ met = Unlimited(levels)
    BY <1>3, <1>11 DEF Displayed
  <2>2. met \in Seq(MetLevel) /\ Len(met) = 1 /\ met[1].price = levels[1].price
    BY <2>1, <1>6, UnlimitedType
  <2>3. n = 1 /\ met[1] \in MetLevel
    <3>1. n = 1
      BY <2>2
    <3>2. 1 \in 1..Len(met)
      BY <2>2
    <3>3. met[1] \in MetLevel
      BY <3>2, <2>2, ElementOfSeq
    <3> QED  BY <3>1, <3>3
  <2>4. Leq(best, best)
    BY OrderLaws DEF Positives
  <2> QED  BY <1>1, <1>7, <1>8, <2>2, <2>3, <2>4 DEF Behind
<1> QED  BY <1>10, <1>11

(* What comes out of a leg is at most what it spends, at the best price.    *)
LEMMA LegYields ==
    ASSUME NEW leg, NEW amount \in NonNegatives, NEW mode, NEW fee \in Share,
           NEW met \in Seq(MetLevel),
           NEW step \in Nat, NEW order, Executed(order, leg, amount, mode, fee, met, step),
           NEW price \in Positives, NEW n \in Nat, n = Len(met), Behind(met, n, leg.op, price)
    PROVE  /\ order.consumed \in Rational /\ order.unspent \in Rational /\ order.output \in Rational
           /\ Plus(order.unspent, order.consumed) = amount
           /\ Leq(order.output, Times(order.consumed, Times(Rate(leg.op, price), Minus(One, fee))))
<1>1. PICK q \in NonNegatives : q = order.quantity
  BY DEF Executed
<1>2. PICK walk \in Walk(Exact) : walk = ForBase(Exact, q, met) /\ Straight(walk, q, leg.op, price)
  BY WalkTypes, ForBaseStraight, ExactSized
<1>3. walk.base \in Rational /\ walk.quote \in Rational /\ amount \in Rational /\ price \in Rational
  BY WalkIs DEF NonNegatives, Positives
<1>4. PICK kept \in Rational : kept = Minus(One, fee) /\ Leq(Zero, kept)
  <2>1. Minus(One, fee) \in Positives
    BY ShareFactors
  <2> QED  BY <2>1, SignLaws DEF Positives, NonNegatives
<1>5. PICK spent \in Rational, gross \in Rational :
          /\ spent = IF leg.op = "SELL_BASE" THEN walk.base ELSE walk.quote
          /\ gross = IF leg.op = "SELL_BASE" THEN walk.quote ELSE walk.base
  BY <1>3
<1>6. /\ order.consumed = spent /\ order.output = Times(gross, kept)
      /\ order.unspent = IF Leq(amount, spent) THEN Zero ELSE Minus(amount, spent)
  BY <1>1, <1>2, <1>4, <1>5 DEF Executed
<1>7. Leq(spent, amount)
  <2>1. Leq(order.consumed, amount)
    BY NeverOverspends
  <2> QED  BY <2>1, <1>6
<1>8. order.unspent \in Rational /\ Plus(order.unspent, spent) = amount
  <2>1. CASE Leq(amount, spent)
    <3>1. amount = spent
      BY <2>1, <1>3, <1>5, <1>7, OrderLaws
    <3>2. Plus(Zero, spent) = spent /\ order.unspent = Zero
      BY <2>1, <1>6, PlusLaws
    <3> QED  BY <3>1, <3>2, ZeroOne
  <2>2. CASE ~Leq(amount, spent)
    <3>1. order.unspent = Minus(amount, spent)
      BY <2>2, <1>6
    <3>2. Plus(Minus(amount, spent), spent) = amount /\ Minus(amount, spent) \in Rational
      BY <1>3, PlusLaws, Closed
    <3> QED  BY <3>1, <3>2
  <2> QED  BY <2>1, <2>2
<1>9. PICK rate \in Positives : rate = Rate(leg.op, price) /\ rate \in Rational
  BY RateType DEF Positives
<1>10. Leq(gross, Times(spent, rate))
  <2>1. CASE leg.op = "SELL_BASE"
    BY <2>1, <1>2, <1>5, <1>9 DEF Straight, NoBetter, Rate
  <2>2. CASE leg.op # "SELL_BASE"
    <3>1. Leq(Times(gross, price), spent)
      BY <2>2, <1>2, <1>5 DEF Straight, NoBetter
    <3>2. Leq(gross, Times(spent, Over(One, price)))
      BY <3>1, OverLaws
    <3> QED  BY <2>2, <3>2, <1>9 DEF Rate
  <2> QED  BY <2>1, <2>2
<1>11. Leq(Times(gross, kept), Times(spent, Times(rate, kept)))
  <2>1. Times(spent, rate) \in Rational
    BY <1>9, Closed
  <2>2. Leq(Times(gross, kept), Times(Times(spent, rate), kept))
    BY <2>1, <1>4, <1>10, OrderLaws
  <2>3. Times(Times(spent, rate), kept) = Times(spent, Times(rate, kept))
    BY <1>4, <1>9, TimesLaws
  <2> QED  BY <2>2, <2>3
<1>12. Times(gross, kept) \in Rational
  BY <1>4, Closed
<1> QED  BY <1>4, <1>6, <1>8, <1>9, <1>11, <1>12

(* So does what a residual is marked at.                                    *)
LEMMA MarkedIs ==
    ASSUME NEW legs, NEW i, legs[i] \in LegType, legs[i].levels # <<>>, NEW pass, PassOK(pass),
           pass.reference = FALSE, NEW value \in Rational
    PROVE  MarkedIn(Exact, legs, i, value, pass) = Times(value, Gain(legs, i, pass))
<1>1. PICK leg \in LegType : leg = legs[i] /\ leg.levels # <<>>
  OBVIOUS
<1>2. PICK stress \in Share : stress = StressOf(i, pass)
  BY ZeroShare DEF StressOf, PassOK
<1>3. PICK best \in Positives : best = BestPrice(legs, i, pass) /\ best \in Rational
  BY BestPriceIs DEF Positives
<1>4. Effective(Exact, leg, Zero, stress)[1].price = best
  <2>1. 1 \in 1..Len(leg.levels)
    <3>1. leg.levels \in Seq(LevelType)
      BY DEF LegType
    <3> QED  BY <3>1, <1>1, EmptySeq
  <2>2. Effective(Exact, leg, Zero, stress)[1].price
            = Times(Num(leg.levels[1].price),
                    IF leg.op = "SELL_BASE" THEN Minus(One, stress) ELSE Plus(One, stress))
    BY <2>1, ZeroShare, EffectiveExact
  <2> QED  BY <2>2, <1>1, <1>2, <1>3 DEF BestPrice
<1>5. PICK kept \in Rational : kept = Minus(One, leg.fee) /\ kept = Minus(One, PassFee(legs[i], pass))
  <2>1. PassFee(legs[i], pass) = leg.fee
    BY <1>1 DEF PassFee
  <2>2. Minus(One, PassFee(legs[i], pass)) \in Rational
    BY FeeIsShare, ShareFactors DEF Positives
  <2> QED  BY <2>1, <2>2
<1>6. MarkedIn(Exact, legs, i, value, pass)
          = Times(IF leg.op = "SELL_BASE" THEN Times(value, best) ELSE Over(value, best), kept)
  BY <1>1, <1>2, <1>4, <1>5 DEF MarkedIn, Marked, StressOf, Add, Subtract, Multiply, Divide, Rounded
<1>7. PICK rate \in Positives : rate = Rate(leg.op, best) /\ rate \in Rational
  BY RateType DEF Positives
<1>8. (IF leg.op = "SELL_BASE" THEN Times(value, best) ELSE Over(value, best)) = Times(value, rate)
  BY <1>7, OverLaws DEF Rate
<1>9. Times(Times(value, rate), kept) = Times(value, Times(rate, kept))
  BY <1>5, <1>7, TimesLaws
<1> QED  BY <1>1, <1>3, <1>5, <1>6, <1>7, <1>8, <1>9 DEF Gain

-----------------------------------------------------------------------------
(* The reference pass: no fee, no filter, no end to the best level.         *)

LEMMA NoRules ==
    /\ NoFilters.step = 0
    /\ \A q \in Positives, v \in NonNegatives : ~Rejects(NoFilters, q, v)
<1>1. \A S : S = {} => Largest(S) = 0 /\ Smallest(S) = Infinity /\ CombinedQuantum(S) = 0
  <2>1. Max({0}) = 0
    <3>1. \E x \in {0} : \A y \in {0} : x >= y
      OBVIOUS
    <3>2. Max({0}) \in {0}
      BY <3>1, Zenon DEF Max
    <3> QED  BY <3>2
  <2>2. Positive({}) = {} /\ {} \cup {0} = {0}
    BY DEF Positive
  <2>3. Largest({}) = 0
    BY <2>1, <2>2, Zenon DEF Largest
  <2>4. Smallest({}) = Infinity /\ CombinedQuantum({}) = 0
    BY <2>2 DEF Smallest, CombinedQuantum
  <2> QED  BY <2>3, <2>4
<1> DEFINE typed == [lots |-> {}, notional |-> {}]
           mins == {f.min : f \in typed.lots}
           maxs == {f.max : f \in typed.lots}
           steps == {f.step : f \in typed.lots}
           floors == {f.min : f \in {g \in typed.notional : g.applyMin}}
           caps == {f.max : f \in {g \in typed.notional : g.applyMax}}
           rules == [minQty |-> Num(Largest(mins)), maxQty |-> Smallest(maxs),
                     step |-> CombinedQuantum(steps), minNotional |-> Num(Largest(floors)),
                     maxNotional |-> Smallest(caps)]
<1>2. mins = {} /\ maxs = {} /\ steps = {} /\ floors = {} /\ caps = {}
  <2>1. typed.lots = {} /\ typed.notional = {}
    OBVIOUS
  <2> HIDE DEF typed
  <2> QED  BY <2>1
<1>3. NoFilters = rules
  BY Zenon DEF NoFilters, Normalised
<1>4. /\ rules.minQty = Num(Largest(mins)) /\ rules.maxQty = Smallest(maxs)
      /\ rules.step = CombinedQuantum(steps)
      /\ rules.minNotional = Num(Largest(floors)) /\ rules.maxNotional = Smallest(caps)
  OBVIOUS
<1> HIDE DEF typed, mins, maxs, steps, floors, caps, rules
<1>5. /\ rules.minQty = Num(0) /\ rules.maxQty = Infinity /\ rules.step = 0
      /\ rules.minNotional = Num(0) /\ rules.maxNotional = Infinity
  BY <1>1, <1>2, <1>4
<1>6. ASSUME NEW x \in NonNegatives PROVE ~Less(x, Num(0)) /\ ~Less(Infinity, x)
  <2>1. x[1] \in Int /\ x[2] \in Nat \ {0} /\ Leq(Zero, x)
    BY DEF NonNegatives, Rational
  <2> QED  BY <2>1 DEF Less, Leq, Num, Infinity, Zero
<1>7. ASSUME NEW q \in Positives, NEW v \in NonNegatives PROVE ~Rejects(rules, q, v)
  <2>1. q \in NonNegatives /\ q # Zero
    <3>1. q \in Rational /\ Less(Zero, q)
      BY DEF Positives
    <3> QED  BY <3>1, SignLaws, OrderLaws, ZeroOne
  <2> QED  BY <2>1, <1>5, <1>6 DEF Rejects
<1> QED  BY <1>3, <1>5, <1>7

\* What a walk for an amount comes to when the levels have one price and no end.
AtOnePrice(amount, met, price) ==
    /\ ForBase(Exact, amount, met).left = Zero /\ ForBase(Exact, amount, met).base = amount
    /\ ForBase(Exact, amount, met).quote = Times(amount, price)
    /\ ForQuote(Exact, amount, met).left = Zero
    /\ ForQuote(Exact, amount, met).base = Over(amount, price)
    /\ Over(amount, price) \in Positives /\ Times(amount, price) \in Positives
    /\ price \in Positives

LEMMA OneLevel ==
    ASSUME NEW amount \in Positives, NEW met \in Seq(MetLevel), Len(met) = 1,
           met[1].quantity = Infinity, NEW price, price = met[1].price
    PROVE  AtOnePrice(amount, met, price)
<1>1. amount \in Rational /\ amount \in NonNegatives
  BY SignLaws DEF Positives
<1>2. PICK level \in MetLevel : level = met[1] /\ level.price = price /\ level.quantity = Infinity
  <2>1. 1 \in 1..Len(met)
    OBVIOUS
  <2>2. met[1] \in MetLevel
    BY <2>1, ElementOfSeq
  <2> QED  BY <2>2
<1>3. price \in Positives /\ price \in Rational /\ Less(Zero, price)
  BY <1>2, LevelIs
<1>4. PICK divided \in Positives : divided = Over(amount, price) /\ divided \in Rational
                                   /\ Times(divided, price) = amount
  <2>1. Over(amount, price) \in Positives
    BY <1>1, <1>3, SignLaws
  <2> QED  BY <2>1, <1>1, <1>3, TimesLaws DEF Positives
<1>5. PICK multiplied \in Positives : multiplied = Times(amount, price) /\ multiplied \in Rational
  <2>1. Times(amount, price) \in Positives
    BY <1>1, <1>3, SignLaws
  <2> QED  BY <2>1 DEF Positives
<1>6. PICK f : BaseWalk(Exact, f, amount, met) /\ ForBase(Exact, amount, met) = f[1]
  BY <1>1, ForBaseIs, ExactSized
<1>7. PICK g : QuoteWalk(Exact, g, amount, met) /\ ForQuote(Exact, amount, met) = g[1]
  BY <1>1, ForQuoteIs, ExactSized
<1>8. f[1] = TakeBase(Exact, Untouched(amount), level) /\ g[1] = TakeQuote(Exact, Untouched(amount), level)
  <2>1. f[1] = TakeBase(Exact, f[1 - 1], met[1]) /\ f[0] = Untouched(amount)
    BY <1>6 DEF BaseWalk
  <2>2. g[1] = TakeQuote(Exact, g[1 - 1], met[1]) /\ g[0] = Untouched(amount)
    BY <1>7 DEF QuoteWalk
  <2> QED  BY <2>1, <2>2, <1>2
<1>9. Untouched(amount) \in Walk(Exact) /\ Untouched(amount).left = amount
      /\ Untouched(amount).base = Zero /\ Untouched(amount).quote = Zero
  BY <1>1, UntouchedType, ExactSized DEF Untouched
<1>10. /\ Minus(amount, amount) = Zero /\ Plus(Zero, amount) = amount
       /\ Plus(Zero, divided) = divided /\ Plus(Zero, multiplied) = multiplied
  BY <1>1, <1>4, <1>5, PlusLaws
<1>11. f[1].left = Zero /\ f[1].base = amount /\ f[1].quote = multiplied
  <2>1. PICK t : TakesBase(Untouched(amount), level, t, f[1])
    BY <1>8, <1>9, TakeIs
  <2>2. t = amount
    BY <1>1, <1>2, <1>9, <2>1, LeastOfInfinity DEF TakesBase
  <2> QED  BY <2>1, <2>2, <1>2, <1>5, <1>9, <1>10 DEF TakesBase
<1>12. g[1].left = Zero /\ g[1].base = divided
  <2>1. PICK t : TakesQuote(Untouched(amount), level, t, g[1])
    BY <1>8, <1>9, TakeIs
  <2>2. t = divided
    BY <1>2, <1>4, <1>9, <2>1, LeastOfInfinity DEF TakesQuote
  <2> QED  BY <2>1, <2>2, <1>2, <1>4, <1>9, <1>10 DEF TakesQuote
<1> QED  BY <1>3, <1>4, <1>5, <1>6, <1>7, <1>11, <1>12 DEF AtOnePrice

(* Each of its legs makes the most of all that enters.                      *)
LEMMA ReferenceLeg ==
    ASSUME NEW legs, LegsOK(legs, ReferencePass), NEW i \in 1..Len(legs),
           legs[i].levels # <<>>, NEW amount \in Positives,
           NEW order, order = PassLeg(Exact, legs, i, amount, ReferencePass)
    PROVE  /\ order.executable
           /\ order.output = Times(amount, Rate(legs[i].op, BestPrice(legs, i, ReferencePass)))
           /\ order.output \in Positives
<1>1. PICK pass : pass = ReferencePass
  OBVIOUS
<1>2. PassOK(pass) /\ pass.reference = TRUE /\ pass.mode = "top"
  BY <1>1, PassIs DEF Modes
<1>3. PICK leg \in LegType : leg = legs[i] /\ leg.levels # <<>>
  BY DEF LegsOK
<1>4. PICK levels \in Seq(MetLevel) :
          levels = LevelsOf(Exact, legs, i, pass) /\ levels # <<>>
          /\ levels[1].price = BestPrice(legs, i, pass)
  <2>1. PICK haircut \in Share, shock \in Share :
            haircut = (IF i >= pass.from THEN pass.haircut ELSE Zero) /\ shock = StressOf(i, pass)
    BY <1>2, ZeroShare DEF StressOf, PassOK
  <2>2. PICK levels : levels = LevelsOf(Exact, legs, i, pass) /\ levels = Effective(Exact, leg, haircut, shock)
    BY <1>3, <2>1 DEF LevelsOf, StressOf
  <2>3. PICK m \in Nat : m = Len(leg.levels) /\ m # 0
    <3>1. leg.levels \in Seq(LevelType)
      BY DEF LegType
    <3> QED  BY <3>1, <1>3, EmptySeq
  <2>4. levels \in Seq(MetLevel) /\ Len(levels) = m
        /\ levels[1].price = Times(Num(leg.levels[1].price),
                                   IF leg.op = "SELL_BASE" THEN Minus(One, shock) ELSE Plus(One, shock))
    BY <2>2, <2>3, EffectiveExact
  <2>5. levels # <<>>
    BY <2>3, <2>4, EmptySeq
  <2> QED  BY <2>1, <2>2, <2>4, <2>5, <1>3 DEF BestPrice
<1>5. PICK met \in Seq(MetLevel) :
          met = Unlimited(levels) /\ Len(met) = 1 /\ met[1].quantity = Infinity
          /\ met[1].price = levels[1].price
  BY <1>4, UnlimitedType
<1>6. PICK price \in Positives :
          price = met[1].price /\ price = BestPrice(legs, i, pass)
          /\ Over(amount, price) \in Positives
  <2>1. AtOnePrice(amount, met, met[1].price)
    BY <1>5, OneLevel
  <2> QED  BY <2>1, <1>4, <1>5 DEF AtOnePrice
<1>7. /\ ForQuote(Exact, amount, met).left = Zero /\ ForQuote(Exact, amount, met).base = Over(amount, price)
      /\ \A x \in Positives :
            /\ ForBase(Exact, x, met).left = Zero /\ ForBase(Exact, x, met).base = x
            /\ ForBase(Exact, x, met).quote = Times(x, price) /\ Times(x, price) \in Positives
  <2>1. ForQuote(Exact, amount, met).left = Zero /\ ForQuote(Exact, amount, met).base = Over(amount, price)
    <3>1. AtOnePrice(amount, met, price)
      BY <1>5, <1>6, OneLevel
    <3> QED  BY <3>1 DEF AtOnePrice
  <2>2. ASSUME NEW x \in Positives
        PROVE  /\ ForBase(Exact, x, met).left = Zero /\ ForBase(Exact, x, met).base = x
               /\ ForBase(Exact, x, met).quote = Times(x, price) /\ Times(x, price) \in Positives
    <3>1. AtOnePrice(x, met, price)
      BY <1>5, <1>6, OneLevel
    <3> QED  BY <3>1 DEF AtOnePrice
  <2> QED  BY <2>1, <2>2
<1>8. PICK q \in Positives : q = IF leg.op = "SELL_BASE" THEN amount ELSE Over(amount, price)
  BY <1>6
<1>9. OrderQuantity(Exact, leg, amount, met, 0) = q /\ Enough(Exact, leg, amount, "top", met)
  BY <1>7, <1>8 DEF OrderQuantity, Floored, Enough, Add, Subtract, Multiply, Divide, Rounded
<1>10. PICK walk : walk = ForBase(Exact, q, met)
  OBVIOUS
<1>11. walk.left = Zero /\ walk.base = q /\ walk.quote = Times(q, price) /\ walk.quote \in Positives
  BY <1>7, <1>10
<1>12. order = Filled(Exact, leg, amount, Zero, NoFilters, q, Enough(Exact, leg, amount, "top", met), walk)
  <2>1. order = Leg(Exact, leg, amount, "top", Zero, levels, NoFilters)
    BY <1>1, <1>2, <1>3, <1>4 DEF PassLeg, PassFee, PassRules
  <2> QED  BY <2>1, <1>4, <1>5, <1>9, <1>10, NoRules DEF Leg, Walked
<1>13. ~Rejects(NoFilters, q, walk.quote) /\ q # Zero
  <2>1. walk.quote \in NonNegatives
    BY <1>11, SignLaws DEF Positives
  <2>2. ~Rejects(NoFilters, q, walk.quote)
    BY <2>1, NoRules
  <2> QED  BY <2>2 DEF Rejects
<1>14. order.executable
  <2>1. PICK enough \in BOOLEAN : enough = Enough(Exact, leg, amount, "top", met)
    BY DEF Enough
  <2>2. PICK rejected \in BOOLEAN : rejected = Rejects(NoFilters, q, walk.quote)
    BY DEF Rejects
  <2>3. order.executable = (enough /\ walk.left = Zero /\ q # Zero /\ ~rejected)
    BY <1>12, <2>1, <2>2 DEF Filled, Add, Subtract, Multiply, Divide, Rounded
  <2> QED  BY <2>1, <2>2, <2>3, <1>9, <1>11, <1>13
<1>15. PICK gross \in Positives :
           gross = IF leg.op = "SELL_BASE" THEN walk.quote ELSE walk.base
  BY <1>11
<1>16. order.output = gross
  <2>1. order.output = Minus(gross, Times(gross, Zero))
    BY <1>12, <1>15 DEF Filled, Add, Subtract, Multiply, Divide, Rounded
  <2>3. Minus(gross, Times(gross, Zero)) = Times(gross, Minus(One, Zero))
    BY FeeOf, ZeroShare, SignLaws DEF Positives
  <2>2. Minus(One, Zero) = One /\ Times(gross, One) = gross
    BY ZeroOne, PlusLaws, TimesLaws DEF Positives
  <2> QED  BY <2>1, <2>2, <2>3
<1>17. gross = Times(amount, Rate(leg.op, price))
  <2>1. CASE leg.op = "SELL_BASE"
    BY <2>1, <1>8, <1>11, <1>15 DEF Rate
  <2>2. CASE leg.op # "SELL_BASE"
    <3>1. Over(amount, price) = Times(amount, Over(One, price))
      BY OverLaws DEF Positives
    <3> QED  BY <2>2, <3>1, <1>8, <1>11, <1>15 DEF Rate
  <2> QED  BY <2>1, <2>2
<1> QED  BY <1>1, <1>3, <1>6, <1>14, <1>15, <1>16, <1>17

(* No pass makes more of a unit than the reference does.                    *)
LEMMA GainAtMost ==
    ASSUME NEW legs, NEW i, legs[i] \in LegType, legs[i].levels # <<>>, NEW pass, PassOK(pass)
    PROVE  Leq(Gain(legs, i, pass), Rate(legs[i].op, BestPrice(legs, i, ReferencePass)))
<1>1. PICK op : op = legs[i].op
  OBVIOUS
<1>2. PICK best \in Positives : best = Num(legs[i].levels[1].price) /\ best \in Rational
  <2>1. legs[i].levels[1].price \in Nat \ {0}
    BY BestPriceIs
  <2> QED  BY <2>1, NumOrder
<1>3. PICK stress \in Share : stress = StressOf(i, pass)
  BY ZeroShare DEF StressOf, PassOK
<1>4. PICK price \in Positives :
          price = BestPrice(legs, i, pass) /\ price \in Rational /\ Less(Zero, price)
          /\ price = Times(best, IF op = "SELL_BASE" THEN Minus(One, stress) ELSE Plus(One, stress))
  <2>1. BestPrice(legs, i, pass) \in Positives
    BY BestPriceIs
  <2> QED  BY <2>1, <1>1, <1>2, <1>3 DEF BestPrice, Positives
<1>5. BestPrice(legs, i, ReferencePass) = best
  <2>1. StressOf(i, ReferencePass) = Zero
    BY PassIs DEF StressOf, Modes
  <2>2. Minus(One, Zero) = One /\ Plus(One, Zero) = One /\ Times(best, One) = best
    BY <1>2, ZeroOne, PlusLaws, TimesLaws
  <2> QED  BY <2>1, <2>2, <1>2 DEF BestPrice
<1>6. PICK less \in Positives, more \in Positives :
          /\ less = Minus(One, stress) /\ more = Plus(One, stress)
          /\ Leq(less, One) /\ Leq(One, more) /\ less \in Rational /\ more \in Rational
  BY ShareFactors DEF Positives
<1>7. Leq(Zero, best) /\ Times(One, best) = best /\ One \in Rational
  <2>1. best \in NonNegatives /\ Times(best, One) = best /\ Times(best, One) = Times(One, best)
    BY <1>2, SignLaws, ZeroOne, TimesLaws
  <2> QED  BY <2>1, ZeroOne DEF NonNegatives
<1>8. Leq(Rate(op, price), Rate(op, best))
  <2>1. CASE op = "SELL_BASE"
    <3>1. Leq(Times(less, best), Times(One, best))
      BY <1>2, <1>6, <1>7, OrderLaws
    <3>2. Times(less, best) = price
      BY <2>1, <1>2, <1>4, <1>6, TimesLaws
    <3> QED  BY <2>1, <3>1, <3>2, <1>7 DEF Rate
  <2>2. CASE op # "SELL_BASE"
    <3>1. Leq(Times(One, best), Times(more, best))
      BY <1>2, <1>6, <1>7, OrderLaws
    <3>2. Times(more, best) = price
      BY <2>2, <1>2, <1>4, <1>6, TimesLaws
    <3>3. Leq(best, price)
      BY <3>1, <3>2, <1>7
    <3>4. PICK unit \in Positives : unit = Over(One, price) /\ unit \in Rational /\ Leq(Zero, unit)
      <4>1. Over(One, price) \in Positives
        BY <1>7, OverLaws
      <4> QED  BY <4>1, SignLaws DEF Positives, NonNegatives
    <3>5. Leq(Times(best, unit), Times(price, unit))
      BY <3>3, <3>4, <1>2, <1>4, OrderLaws
    <3>6. Times(best, unit) = Times(unit, best) /\ Times(price, unit) = Times(unit, price)
          /\ Times(unit, price) = One
      BY <3>4, <1>2, <1>4, <1>7, TimesLaws
    <3>7. Leq(unit, Times(One, Over(One, best)))
      BY <3>4, <3>5, <3>6, <1>7, OverLaws
    <3>8. Times(One, Over(One, best)) = Over(One, best)
      BY <1>7, OverLaws
    <3> QED  BY <2>2, <3>4, <3>7, <3>8 DEF Rate
  <2> QED  BY <2>1, <2>2
<1>9. PICK rate \in Rational, most \in Rational :
          rate = Rate(op, price) /\ most = Rate(op, best) /\ Leq(Zero, rate)
  <2>1. Rate(op, price) \in Positives /\ Rate(op, best) \in Positives
    BY RateType
  <2> QED  BY <2>1, SignLaws DEF Positives, NonNegatives
<1>10. PICK kept \in Rational : kept = Minus(One, PassFee(legs[i], pass)) /\ Leq(kept, One)
  BY FeeIsShare, ShareFactors DEF Positives
<1>11. Leq(Times(rate, kept), rate)
  <2>1. Leq(Times(kept, rate), Times(One, rate))
    BY <1>7, <1>9, <1>10, OrderLaws
  <2>2. Times(kept, rate) = Times(rate, kept) /\ Times(One, rate) = Times(rate, One)
        /\ Times(rate, One) = rate
    BY <1>7, <1>9, <1>10, TimesLaws
  <2> QED  BY <2>1, <2>2
<1>12. Times(rate, kept) \in Rational
  BY Closed
<1>13. Leq(Times(rate, kept), most)
  BY <1>8, <1>9, <1>11, <1>12, OrderLaws
<1> QED  BY <1>1, <1>4, <1>5, <1>9, <1>10, <1>13 DEF Gain

-----------------------------------------------------------------------------
(* What a unit that enters leg k would become at the end of the route.      *)

TailIs(tail, legs, n, pass) ==
    /\ \A k \in 1..(n + 1) : tail[k] \in Positives
    /\ tail[n + 1] = One
    /\ \A k \in 1..n : tail[k] = Times(Gain(legs, k, pass), tail[k + 1])

LEMMA TailExists ==
    ASSUME NEW legs, NEW pass, NEW n \in Nat, \A k \in 1..n : Gain(legs, k, pass) \in Positives
    PROVE  \E tail : TailIs(tail, legs, n, pass)
<1> DEFINE step == [pair \in Positives \X (1..n) |-> Times(Gain(legs, n + 1 - pair[2], pass), pair[1])]
<1>1. One \in Positives
  <2>1. One = Num(1)
    BY DEF One, Num
  <2> QED  BY <2>1, NumOrder
<1>2. ASSUME NEW x \in Positives, NEW k \in 1..n
      PROVE  Times(Gain(legs, n + 1 - k, pass), x) \in Positives
  <2>1. n + 1 - k \in 1..n
    OBVIOUS
  <2>2. Gain(legs, n + 1 - k, pass) \in Positives
    BY <2>1
  <2> QED  BY <2>2, SignLaws DEF Positives
<1>3. step \in [Positives \X (1..n) -> Positives]
  BY <1>2
<1>4. \A x \in Positives, k \in 1..n : step[<<x, k>>] = Times(Gain(legs, n + 1 - k, pass), x)
  OBVIOUS
<1> HIDE DEF step
<1>5. PICK g : g \in LoopOf(step, One, n, Positives)
  BY <1>1, <1>3, LoopExists
<1>6. g \in [0..n -> Positives] /\ g[0] = One /\ \A k \in 1..n : g[k] = step[<<g[k - 1], k>>]
  BY <1>5 DEF LoopOf
<1> DEFINE tail == [k \in 1..(n + 1) |-> g[n + 1 - k]]
<1>7. \A k \in 1..(n + 1) : tail[k] \in Positives
  <2>1. \A k \in 1..(n + 1) : n + 1 - k \in 0..n
    OBVIOUS
  <2> QED  BY <2>1, <1>6
<1>8. tail[n + 1] = One
  BY <1>6
<1>9. ASSUME NEW k \in 1..n PROVE tail[k] = Times(Gain(legs, k, pass), tail[k + 1])
  <2>1. PICK j \in 1..n : j = n + 1 - k /\ n + 1 - j = k /\ j - 1 = n + 1 - (k + 1) /\ j - 1 \in 0..n
    OBVIOUS
  <2>2. tail[k] = g[j] /\ tail[k + 1] = g[j - 1]
    BY <2>1
  <2>3. g[j] = step[<<g[j - 1], j>>] /\ g[j - 1] \in Positives
    BY <2>1, <1>6
  <2> HIDE DEF tail
  <2> QED  BY <2>1, <2>2, <2>3, <1>4
<1> HIDE DEF tail
<1> QED  BY <1>7, <1>8, <1>9 DEF TailIs

\* The route can be converted in the pass, and nothing is worth less than nothing.
Quoted(legs, n, pass) ==
    /\ legs \in Seq(LegType) /\ n = Len(legs) /\ PassOK(pass) /\ pass.reference = FALSE
    /\ \A k \in 1..n : legs[k].levels # <<>>

LEMMA QuotedLeg ==
    ASSUME NEW legs, NEW n \in Nat, NEW pass, Quoted(legs, n, pass), NEW k \in 1..n
    PROVE  legs[k] \in LegType /\ legs[k].levels # <<>> /\ Gain(legs, k, pass) \in Positives
<1>1. legs[k] \in LegType /\ legs[k].levels # <<>> /\ PassOK(pass)
  BY DEF Quoted
<1> QED  BY <1>1, BestPriceIs

LEMMA MarkedOnIs ==
    ASSUME NEW legs, NEW n \in Nat, NEW pass, Quoted(legs, n, pass),
           NEW tail, TailIs(tail, legs, n, pass), NEW i \in 1..n, NEW amount \in Rational
    PROVE  MarkedOn(Exact, legs, i, amount, pass) = Times(amount, tail[i])
<1> DEFINE m == n - i + 1
           step == [pair \in Rational \X (1..m) |-> Times(pair[1], Gain(legs, i + pair[2] - 1, pass))]
           Turns(f, l) == f = [k \in 0..l |-> IF k = 0 THEN amount
                                              ELSE MarkedIn(Exact, legs, i + k - 1, f[k - 1], pass)]
<1>1. m \in Nat /\ m # 0 /\ \A k \in 1..m : i + k - 1 \in 1..n
  OBVIOUS
<1>2. ASSUME NEW x \in Rational, NEW k \in 1..m
      PROVE  /\ Times(x, Gain(legs, i + k - 1, pass)) \in Rational
             /\ MarkedIn(Exact, legs, i + k - 1, x, pass) = Times(x, Gain(legs, i + k - 1, pass))
  <2>1. PICK j \in 1..n : j = i + k - 1
    BY <1>1
  <2>2. legs[j] \in LegType /\ legs[j].levels # <<>> /\ Gain(legs, j, pass) \in Positives
    BY QuotedLeg
  <2>3. PassOK(pass) /\ pass.reference = FALSE
    BY DEF Quoted
  <2>4. MarkedIn(Exact, legs, j, x, pass) = Times(x, Gain(legs, j, pass))
    BY <2>2, <2>3, MarkedIs
  <2>5. Times(x, Gain(legs, j, pass)) \in Rational
    BY <2>2, Closed DEF Positives
  <2> QED  BY <2>1, <2>4, <2>5
<1>3. n = Len(legs)
  BY DEF Quoted
<1>4. step \in [Rational \X (1..m) -> Rational]
  BY <1>2
<1>5. ASSUME NEW x \in Rational, NEW k \in 1..m
      PROVE  step[<<x, k>>] = MarkedIn(Exact, legs, i + k - 1, x, pass)
  BY <1>2
<1> HIDE DEF step, m
<1>6. PICK g : g \in LoopOf(step, amount, m, Rational)
  BY <1>1, <1>4, LoopExists
<1>7. Turns(g, m)
  <2>1. g \in [0..m -> Rational] /\ g[0] = amount
    BY <1>6 DEF LoopOf
  <2>2. ASSUME NEW k \in 1..m PROVE g[k] = MarkedIn(Exact, legs, i + k - 1, g[k - 1], pass)
    <3>1. g[k - 1] \in Rational /\ g[k] = step[<<g[k - 1], k>>]
      BY <1>1, <1>6 DEF LoopOf
    <3> QED  BY <3>1, <1>5
  <2> QED  BY <2>1, <2>2, <1>1
<1>8. PICK value : Turns(value, m) /\ MarkedOn(Exact, legs, i, amount, pass) = value[m]
  <2>1. \E value : Turns(value, m)
    BY <1>7
  <2> QED  BY <2>1, <1>3, Zenon DEF MarkedOn, m
<1>9. value[0] = amount /\ \A k \in 1..m : value[k] = MarkedIn(Exact, legs, i + k - 1, value[k - 1], pass)
  BY <1>1, <1>8
<1> DEFINE Kept(k) == value[k] \in Rational /\ Times(value[k], tail[i + k]) = Times(amount, tail[i])
           Bad == {k \in 0..m : ~Kept(k)}
<1>10. Bad = {}
  <2>1. SUFFICES ASSUME Bad # {} PROVE FALSE
    OBVIOUS
  <2>2. PICK k \in 1..m : k \in Bad /\ (k - 1) \notin Bad
    <3>1. Bad \in SUBSET (0..m) /\ 0 \notin Bad
      BY <1>9
    <3> HIDE DEF Bad
    <3> QED  BY <1>1, <2>1, <3>1, FirstBreak
  <2>3. PICK x \in Rational : x = value[k - 1] /\ Times(x, tail[i + (k - 1)]) = Times(amount, tail[i])
    BY <1>1, <2>2
  <2>4. PICK j \in 1..n : j = i + k - 1 /\ j = i + (k - 1) /\ j + 1 = i + k /\ j \in 1..(n + 1)
                          /\ j + 1 \in 1..(n + 1)
    BY <1>1 DEF m
  <2>5. PICK gain \in Rational : gain = Gain(legs, j, pass)
    BY QuotedLeg DEF Positives
  <2>6. PICK after \in Rational : after = tail[j + 1] /\ tail[j] = Times(gain, after)
    BY <2>4, <2>5 DEF TailIs, Positives
  <2>7. value[k] = Times(x, gain) /\ value[k] \in Rational
    BY <1>2, <1>9, <2>3, <2>4, <2>5
  <2>8. Times(Times(x, gain), after) = Times(x, Times(gain, after))
    BY TimesLaws
  <2> QED  BY <2>2, <2>3, <2>4, <2>6, <2>7, <2>8
<1>11. Kept(m) /\ i + m = n + 1
  BY <1>1, <1>10 DEF m
<1>12. Times(value[m], One) = value[m]
  BY <1>11, TimesLaws
<1> QED  BY <1>8, <1>11, <1>12 DEF TailIs

\* The residuals of the first k legs, at what they are marked.
Residuals(sum, run, tail, n) ==
    /\ sum[0] = Zero
    /\ \A k \in 1..n : /\ sum[k - 1] \in Rational /\ sum[k] \in Rational
                       /\ sum[k] = Plus(sum[k - 1], IF k = 1 THEN run.done[k].unspent
                                                    ELSE Times(run.done[k].unspent, tail[k]))

LEMMA ResidualsExist ==
    ASSUME NEW legs, NEW n \in Nat, NEW pass, Quoted(legs, n, pass),
           NEW tail, TailIs(tail, legs, n, pass), NEW run, Len(run.done) = n,
           \A k \in 1..n : run.done[k].unspent \in Rational
    PROVE  \E sum : Residuals(sum, run, tail, n) /\ ResidualValue(Exact, legs, run, pass) = sum[n]
<1> DEFINE Of(k) == ResidualOf(Exact, legs, k, run.done[k].unspent, pass)
           step == [pair \in Rational \X (1..n) |-> Plus(pair[1], Of(pair[2]))]
           Turns(f, l) == f = [k \in 0..l |-> IF k = 0 THEN Zero ELSE Plus(f[k - 1], Of(k))]
<1>1. Zero \in Rational
  BY ZeroOne
<1>2. ASSUME NEW k \in 1..n
      PROVE  Of(k) \in Rational /\ Of(k) = IF k = 1 THEN run.done[k].unspent
                                           ELSE Times(run.done[k].unspent, tail[k])
  <2>1. run.done[k].unspent \in Rational /\ tail[k] \in Rational
    BY DEF TailIs, Positives
  <2>2. k # 1 => MarkedOn(Exact, legs, k, run.done[k].unspent, pass) = Times(run.done[k].unspent, tail[k])
    BY <2>1, MarkedOnIs
  <2>3. Times(run.done[k].unspent, tail[k]) \in Rational
    BY <2>1, Closed
  <2> QED  BY <2>1, <2>2, <2>3 DEF ResidualOf
<1> HIDE DEF Of
<1>3. ASSUME NEW x \in Rational, NEW k \in 1..n PROVE Plus(x, Of(k)) \in Rational
  BY <1>2, Closed
<1>4. step \in [Rational \X (1..n) -> Rational]
  BY <1>3
<1>5. ASSUME NEW x \in Rational, NEW k \in 1..n PROVE step[<<x, k>>] = Plus(x, Of(k))
  OBVIOUS
<1> HIDE DEF step
<1>6. PICK g : g \in LoopOf(step, Zero, n, Rational)
  BY <1>1, <1>4, LoopExists
<1>7. Turns(g, n)
  <2>1. g \in [0..n -> Rational] /\ g[0] = Zero
    BY <1>6 DEF LoopOf
  <2>2. ASSUME NEW k \in 1..n PROVE g[k] = Plus(g[k - 1], Of(k))
    <3>1. g[k - 1] \in Rational /\ g[k] = step[<<g[k - 1], k>>]
      BY <1>6 DEF LoopOf
    <3> QED  BY <3>1, <1>5
  <2> QED  BY <2>1, <2>2
<1>8. PICK sum : Turns(sum, n) /\ ResidualValue(Exact, legs, run, pass) = sum[n]
  <2>1. \E sum : Turns(sum, n)
    BY <1>7
  <2> QED  BY <2>1, Zenon DEF ResidualValue, Of, Add, Subtract, Multiply, Divide, Rounded
<1>9. sum[0] = Zero /\ \A k \in 1..n : sum[k] = Plus(sum[k - 1], Of(k))
  BY <1>8
<1>10. \A k \in 0..n : sum[k] \in Rational
  <2>1. \A k \in 1..n : sum[k - 1] \in Rational => sum[k] = step[<<sum[k - 1], k>>]
    BY <1>5, <1>9
  <2>2. sum[0] \in Rational
    BY <1>1, <1>9
  <2> QED  BY <2>1, <2>2, <1>4, LoopStays
<1>11. Residuals(sum, run, tail, n)
  <2>1. ASSUME NEW k \in 1..n
        PROVE  /\ sum[k - 1] \in Rational /\ sum[k] \in Rational
               /\ sum[k] = Plus(sum[k - 1], IF k = 1 THEN run.done[k].unspent
                                            ELSE Times(run.done[k].unspent, tail[k]))
    <3>1. k - 1 \in 0..n /\ k \in 0..n
      OBVIOUS
    <3> QED  BY <3>1, <1>2, <1>9, <1>10
  <2> QED  BY <2>1, <1>9 DEF Residuals
<1> QED  BY <1>8, <1>11

-----------------------------------------------------------------------------
(* NeverBeatsGross: the route.                                             *)

LEMMA TailYields ==
    ASSUME NEW x \in Rational, NEW c \in Rational, NEW g \in Positives, NEW t \in Positives,
           Leq(x, Times(c, g))
    PROVE  Leq(Times(x, t), Times(c, Times(g, t)))
<1>1. g \in Rational /\ t \in Rational /\ Leq(Zero, t)
  BY MoreLaws, ZeroOne DEF Positives
<1>2. Times(c, g) \in Rational
  BY <1>1, Closed
<1>3. Leq(Times(x, t), Times(Times(c, g), t))
  BY <1>1, <1>2, OrderLaws
<1>4. Times(Times(c, g), t) = Times(c, Times(g, t))
  BY <1>1, TimesLaws
<1> QED  BY <1>3, <1>4

LEMMA OneMoreLeg ==
    ASSUME NEW s \in Rational, NEW u \in Rational, NEW c \in Rational, NEW t \in Rational,
           NEW y \in Rational, Leq(y, Times(c, t))
    PROVE  Leq(Plus(Plus(s, Times(u, t)), y), Plus(s, Times(Plus(u, c), t)))
<1>1. PICK p \in Rational, q \in Rational : p = Times(u, t) /\ q = Times(c, t)
  BY Closed
<1>2. Times(Plus(u, c), t) = Plus(p, q)
  BY <1>1, TimesLaws
<1>3. PICK r \in Rational : r = Plus(s, p)
  BY Closed
<1>4. Leq(Plus(y, r), Plus(q, r))
  BY <1>1, OrderLaws
<1>5. Plus(y, r) = Plus(r, y) /\ Plus(q, r) = Plus(r, q) /\ Plus(r, q) = Plus(s, Plus(p, q))
  BY <1>3, PlusLaws
<1> QED  BY <1>1, <1>2, <1>3, <1>4, <1>5

(* What stays in the root asset is kept at par, and the rest is marked.     *)
LEMMA PartlyMarked ==
    ASSUME NEW u \in NonNegatives, NEW c \in NonNegatives, NEW t \in Rational,
           NEW f \in Rational, NEW g \in Rational,
           Leq(f, Plus(u, Times(c, t))), Leq(Times(Plus(u, c), t), g)
    PROVE  Leq(f, g) \/ Leq(f, Plus(u, c))
<1>1. u \in Rational /\ c \in Rational /\ Leq(Zero, u) /\ Leq(Zero, c) /\ One \in Rational
  BY ZeroOne DEF NonNegatives
<1>2. PICK p \in Rational, q \in Rational : p = Times(u, t) /\ q = Times(c, t)
  BY <1>1, Closed
<1>3. /\ Times(Plus(u, c), t) = Plus(p, q) /\ Times(One, u) = u /\ Times(One, c) = c
      /\ Times(t, u) = p /\ Times(t, c) = q
  <2>1. Times(Plus(u, c), t) = Plus(p, q)
    BY <1>1, <1>2, TimesLaws
  <2>2. Times(u, One) = u /\ Times(c, One) = c /\ Times(u, One) = Times(One, u)
        /\ Times(c, One) = Times(One, c) /\ Times(t, u) = Times(u, t) /\ Times(t, c) = Times(c, t)
    BY <1>1, TimesLaws
  <2> QED  BY <1>2, <2>1, <2>2
<1>4. Plus(u, q) \in Rational /\ Plus(p, q) \in Rational /\ Plus(u, c) \in Rational
  BY <1>1, <1>2, Closed
<1>5. CASE Leq(One, t)
  <2>1. Leq(u, p)
    <3>1. Leq(Times(One, u), Times(t, u))
      BY <1>1, <1>5, OrderLaws
    <3> QED  BY <3>1, <1>3
  <2>2. Leq(Plus(u, q), Plus(p, q))
    BY <2>1, <1>1, <1>2, OrderLaws
  <2>3. Leq(f, Plus(p, q))
    BY <2>2, <1>2, <1>4, OrderLaws
  <2>4. Leq(f, g)
    BY <2>3, <1>3, <1>4, OrderLaws
  <2> QED  BY <2>4
<1>6. CASE Leq(t, One)
  <2>1. Leq(q, c)
    <3>1. Leq(Times(t, c), Times(One, c))
      BY <1>1, <1>6, OrderLaws
    <3> QED  BY <3>1, <1>3
  <2>2. Leq(Plus(u, q), Plus(u, c))
    <3>1. Leq(Plus(q, u), Plus(c, u))
      BY <2>1, <1>1, <1>2, OrderLaws
    <3>2. Plus(q, u) = Plus(u, q) /\ Plus(c, u) = Plus(u, c)
      BY <1>1, <1>2, PlusLaws
    <3> QED  BY <3>1, <3>2
  <2>3. Leq(f, Plus(u, c))
    BY <2>2, <1>2, <1>4, OrderLaws
  <2> QED  BY <2>3
<1>7. Leq(One, t) \/ Leq(t, One)
  BY <1>1, OrderLaws, MoreLaws
<1> QED  BY <1>5, <1>6, <1>7

\* What an order makes of what enters its leg.
Yields(order, entering, gain) ==
    /\ order.consumed \in NonNegatives /\ order.unspent \in NonNegatives
    /\ order.output \in NonNegatives
    /\ Plus(order.unspent, order.consumed) = entering
    /\ Leq(order.output, Times(order.consumed, gain))

LEMMA RunYields ==
    ASSUME NEW pass, PassOK(pass), NEW legs, LegsOK(legs, pass), NEW n \in Nat, n = Len(legs),
           NEW amount \in NonNegatives, NEW run, Chained(Exact, run, legs, amount, pass, n),
           run.executable, NEW k \in 1..n, BestFirst(legs[k])
    PROVE  /\ legs[k].levels # <<>>
           /\ Yields(run.done[k], Entering(run.done, amount, k), Gain(legs, k, pass))
<1>1. Len(run.done) = n /\ k \in 1..Len(run.done) /\ run.done[k].executable
  BY DEF Chained
<1>2. LegOfRun(run, legs, amount, pass, k)
  BY <1>1, RunLeg
<1>3. PICK order \in LegResult(Exact), entering \in NonNegatives :
          /\ order = run.done[k] /\ entering = Entering(run.done, amount, k)
          /\ order = PassLeg(Exact, legs, k, entering, pass) /\ order.executable
  BY <1>1, <1>2 DEF LegOfRun
<1>4. k \in 1..Len(legs) /\ legs[k] \in LegType
  BY DEF LegsOK
<1>5. PICK step \in Nat, fee \in Share :
          step = PassRules(legs[k], pass).step /\ fee = PassFee(legs[k], pass)
  BY <1>4, FeeIsShare DEF LegsOK
<1>6. PICK met : met = Displayed(LevelsOf(Exact, legs, k, pass), pass.mode)
  OBVIOUS
<1>7. /\ LevelsOf(Exact, legs, k, pass) # <<>> /\ LevelsOf(Exact, legs, k, pass) \in Seq(MetLevel)
      /\ Executed(order, legs[k], entering, pass.mode, fee, met, step)
  BY <1>3, <1>4, <1>5, <1>6, PassLegExecuted
<1>8. met \in Seq(MetLevel)
  BY <1>6, <1>7, DisplayedType
<1>9. PICK m \in Nat : m = Len(met)
  BY <1>8
<1>10. legs[k].levels # <<>> /\ Behind(met, m, legs[k].op, BestPrice(legs, k, pass))
  BY <1>4, <1>6, <1>7, <1>9, LevelsBehind
<1>11. PICK price \in Positives : price = BestPrice(legs, k, pass)
  BY <1>4, <1>10, BestPriceIs
<1>12. /\ Plus(order.unspent, order.consumed) = entering
       /\ Leq(order.output, Times(order.consumed, Times(Rate(legs[k].op, price), Minus(One, fee))))
  BY <1>5, <1>7, <1>8, <1>9, <1>10, <1>11, LegYields
<1>13. Gain(legs, k, pass) = Times(Rate(legs[k].op, price), Minus(One, fee))
  BY <1>5, <1>11 DEF Gain
<1>14. order.consumed \in NonNegatives /\ order.unspent \in NonNegatives /\ order.output \in NonNegatives
  BY DEF LegResult, Sized
<1> QED  BY <1>3, <1>10, <1>12, <1>13, <1>14 DEF Yields

(* Of what enters it, a leg leaves some and marks the rest on, at most.     *)
LEMMA LegMarked ==
    ASSUME NEW n \in Nat, NEW legs, NEW pass, Quoted(legs, n, pass),
           NEW tail, TailIs(tail, legs, n, pass), NEW k \in 1..n, NEW order, NEW entering,
           Yields(order, entering, Gain(legs, k, pass))
    PROVE  /\ order.consumed \in Rational /\ order.unspent \in Rational
           /\ tail[k] \in Rational /\ Times(order.output, tail[k + 1]) \in Rational
           /\ Plus(order.unspent, order.consumed) = entering
           /\ Leq(Times(order.output, tail[k + 1]), Times(order.consumed, tail[k]))
<1>1. PICK gain \in Positives : gain = Gain(legs, k, pass)
  BY QuotedLeg
<1>2. PICK next \in Positives : next = tail[k + 1] /\ tail[k] = Times(gain, next) /\ tail[k] \in Positives
  <2>1. k + 1 \in 1..(n + 1) /\ k \in 1..(n + 1)
    OBVIOUS
  <2> QED  BY <2>1, <1>1 DEF TailIs
<1>3. PICK output \in Rational, consumed \in Rational :
          /\ output = order.output /\ consumed = order.consumed /\ order.unspent \in Rational
          /\ Leq(output, Times(consumed, gain))
  BY <1>1 DEF Yields, NonNegatives
<1>4. Leq(Times(output, next), Times(consumed, Times(gain, next)))
  BY <1>3, TailYields
<1>5. Times(output, next) \in Rational /\ tail[k] \in Rational
  BY <1>2, Closed DEF Positives
<1> QED  BY <1>2, <1>3, <1>4, <1>5 DEF Yields

LEMMA RunMarked ==
    ASSUME NEW n \in Nat \ {0}, NEW legs, NEW pass, Quoted(legs, n, pass),
           NEW tail, TailIs(tail, legs, n, pass), NEW run, NEW amount, NEW sum,
           Residuals(sum, run, tail, n),
           \A k \in 1..n : Yields(run.done[k], Entering(run.done, amount, k), Gain(legs, k, pass))
    PROVE  Leq(Plus(run.done[n].output, sum[n]),
               Plus(run.done[1].unspent, Times(run.done[1].consumed, tail[1])))
<1> DEFINE bound == Plus(run.done[1].unspent, Times(run.done[1].consumed, tail[1]))
           out(k) == Times(run.done[k].output, tail[k + 1])
           Below(k) == Leq(Plus(sum[k], out(k)), bound)
           Bad == {k \in 1..n : ~Below(k)}
<1>1. ASSUME NEW k \in 1..n
      PROVE  /\ run.done[k].consumed \in Rational /\ run.done[k].unspent \in Rational
             /\ tail[k] \in Rational /\ out(k) \in Rational
             /\ Plus(run.done[k].unspent, run.done[k].consumed) = Entering(run.done, amount, k)
             /\ Leq(out(k), Times(run.done[k].consumed, tail[k]))
             /\ sum[k - 1] \in Rational /\ sum[k] \in Rational
             /\ sum[k] = Plus(sum[k - 1], IF k = 1 THEN run.done[k].unspent
                                          ELSE Times(run.done[k].unspent, tail[k]))
  <2>1. PICK order, entering : /\ order = run.done[k] /\ entering = Entering(run.done, amount, k)
                               /\ Yields(order, entering, Gain(legs, k, pass))
    OBVIOUS
  <2>2. n \in Nat
    OBVIOUS
  <2>3. /\ order.consumed \in Rational /\ order.unspent \in Rational
        /\ tail[k] \in Rational /\ Times(order.output, tail[k + 1]) \in Rational
        /\ Plus(order.unspent, order.consumed) = entering
        /\ Leq(Times(order.output, tail[k + 1]), Times(order.consumed, tail[k]))
    BY <2>1, <2>2, LegMarked
  <2> QED  BY <2>1, <2>3 DEF Residuals
<1>2. Below(1)
  <2>1. PICK u \in Rational, c \in Rational, t \in Rational, y \in Rational :
            /\ u = run.done[1].unspent /\ c = run.done[1].consumed /\ t = tail[1] /\ y = out(1)
            /\ Leq(y, Times(c, t))
    BY <1>1
  <2>2. sum[1] = u
    <3>1. sum[1] = Plus(sum[0], u) /\ sum[0] = Zero
      BY <1>1, <2>1 DEF Residuals
    <3> QED  BY <3>1, PlusLaws
  <2>3. PICK q \in Rational : q = Times(c, t)
    BY Closed
  <2>4. Leq(Plus(y, u), Plus(q, u)) /\ Plus(y, u) = Plus(u, y) /\ Plus(q, u) = Plus(u, q)
    BY <2>1, <2>3, OrderLaws, PlusLaws
  <2>5. Leq(Plus(u, y), Plus(u, Times(c, t)))
    BY <2>3, <2>4
  <2> QED  BY <2>1, <2>2, <2>5
<1>3. ASSUME NEW k \in 1..n, k # 1, Below(k - 1) PROVE Below(k)
  <2>1. PICK u \in Rational, c \in Rational, t \in Rational, y \in Rational, s \in Rational :
            /\ u = run.done[k].unspent /\ c = run.done[k].consumed /\ t = tail[k] /\ y = out(k)
            /\ s = sum[k - 1] /\ Leq(y, Times(c, t)) /\ Plus(u, c) = Entering(run.done, amount, k)
            /\ sum[k] = Plus(s, Times(u, t))
    BY <1>1, <1>3
  <2>2. Leq(Plus(Plus(s, Times(u, t)), y), Plus(s, Times(Plus(u, c), t)))
    BY <2>1, OneMoreLeg
  <2>3. Plus(s, Times(Plus(u, c), t)) = Plus(sum[k - 1], out(k - 1))
    <3>1. Plus(u, c) = run.done[k - 1].output /\ (k - 1) + 1 = k
      BY <1>3, <2>1 DEF Entering
    <3> QED  BY <3>1, <2>1
  <2>4. Plus(Plus(s, Times(u, t)), y) \in Rational /\ Plus(s, Times(Plus(u, c), t)) \in Rational
    BY Closed
  <2>5. bound \in Rational
    <3>1. 1 \in 1..n
      OBVIOUS
    <3>2. run.done[1].unspent \in Rational /\ run.done[1].consumed \in Rational /\ tail[1] \in Rational
      BY <3>1, <1>1
    <3>3. Times(run.done[1].consumed, tail[1]) \in Rational
      BY <3>2, Closed
    <3> QED  BY <3>2, <3>3, Closed
  <2>6. PICK x \in Rational, z \in Rational :
            /\ x = Plus(Plus(s, Times(u, t)), y) /\ z = Plus(s, Times(Plus(u, c), t))
            /\ Leq(x, z) /\ Leq(z, bound)
    BY <1>3, <2>2, <2>3, <2>4
  <2> HIDE DEF bound
  <2>7. Leq(x, bound)
    BY <2>5, <2>6, OrderLaws
  <2> QED  BY <2>1, <2>6, <2>7
<1>4. Below(n)
  <2>1. SUFFICES ASSUME Bad # {} PROVE FALSE
    OBVIOUS
  <2>2. PICK k \in 1..n : k \in Bad /\ (k - 1) \notin Bad
    <3>1. Bad \in SUBSET (0..n) /\ 0 \notin Bad /\ n \in Nat
      OBVIOUS
    <3> HIDE DEF Bad
    <3> QED  BY <2>1, <3>1, FirstBreak
  <2>3. ~Below(k)
    BY <2>2
  <2>4. k # 1 => Below(k - 1)
    BY <2>2
  <2> HIDE DEF Below
  <2> QED  BY <1>2, <1>3, <2>3, <2>4
<1>5. run.done[n].output \in Rational /\ sum[n] \in Rational /\ tail[n + 1] = One
  <2>1. n \in 1..n
    OBVIOUS
  <2>2. sum[n] \in Rational
    BY <1>1, <2>1
  <2>3. run.done[n].output \in Rational
    BY <2>1 DEF Yields, NonNegatives
  <2> QED  BY <2>2, <2>3 DEF TailIs
<1>6. Plus(sum[n], out(n)) = Plus(run.done[n].output, sum[n])
  <2>1. Times(run.done[n].output, One) = run.done[n].output
    BY <1>5, TimesLaws
  <2>2. Plus(sum[n], run.done[n].output) = Plus(run.done[n].output, sum[n])
    BY <1>5, PlusLaws
  <2> QED  BY <1>5, <2>1, <2>2
<1> QED  BY <1>4, <1>6

(* The reference makes of an amount what every leg's best price makes.      *)
LEMMA ReferenceTurn ==
    ASSUME NEW legs, LegsOK(legs, ReferencePass), NEW i \in 1..Len(legs), legs[i].levels # <<>>,
           legs[i].book, NEW run \in RouteRun(Exact), run.executable, run.current \in Positives,
           NEW next, next = Continued(Exact, run, legs[i], LevelsOf(Exact, legs, i, ReferencePass), ReferencePass)
    PROVE  /\ next.executable
           /\ next.current = Times(run.current, Rate(legs[i].op, BestPrice(legs, i, ReferencePass)))
           /\ next.current \in Positives
<1>1. PICK amount \in Positives : amount = run.current
  OBVIOUS
<1>2. PICK order : order = PassLeg(Exact, legs, i, amount, ReferencePass)
  OBVIOUS
<1>3. /\ order.executable
      /\ order.output = Times(amount, Rate(legs[i].op, BestPrice(legs, i, ReferencePass)))
      /\ order.output \in Positives
  BY <1>2, ReferenceLeg
<1>4. next = Converted(run, order)
  BY <1>1, <1>2 DEF Continued, PassLeg, PassFee, PassRules
<1>5. next.executable = order.executable /\ next.current = order.output
  BY <1>3, <1>4 DEF Converted
<1> QED  BY <1>1, <1>3, <1>5

LEMMA ReferenceMarked ==
    ASSUME NEW legs, LegsOK(legs, ReferencePass), NEW n \in Nat, n = Len(legs),
           NEW amount \in Positives, NEW pass, Quoted(legs, n, pass),
           \A k \in 1..n : legs[k].book,
           NEW tail, TailIs(tail, legs, n, pass)
    PROVE  /\ RunRoute(Exact, legs, amount, ReferencePass).current \in Rational
           /\ Leq(Times(amount, tail[1]), RunRoute(Exact, legs, amount, ReferencePass).current)
<1>1. PassOK(ReferencePass) /\ amount \in NonNegatives /\ amount \in Rational
  <2>1. "top" \in Modes
    BY DEF Modes
  <2> QED  BY <2>1, PassIs, SignLaws DEF Positives
<1>2. PICK after : /\ RunTurns(Exact, after, legs, amount, ReferencePass, n)
                   /\ RunRoute(Exact, legs, amount, ReferencePass) = after[n]
  BY <1>1, RunRouteTurns, ExactSized
<1> DEFINE Fine(k) == /\ after[k].executable /\ after[k].current \in Positives
                      /\ Leq(Times(amount, tail[1]), Times(after[k].current, tail[k + 1]))
           Bad == {k \in 0..n : ~Fine(k)}
<1>3. Fine(0)
  <2>1. after[0].executable /\ after[0].current = amount
    BY <1>2 DEF RunTurns, Entered
  <2>2. Times(amount, tail[1]) \in Rational
    <3>1. 1 \in 1..(n + 1)
      OBVIOUS
    <3>2. tail[1] \in Rational
      BY <3>1 DEF TailIs, Positives
    <3> QED  BY <3>2, <1>1, Closed
  <2>3. Leq(Times(amount, tail[1]), Times(amount, tail[1]))
    BY <2>2, OrderLaws
  <2> QED  BY <2>1, <2>3
<1>4. ASSUME NEW k \in 1..n, Fine(k - 1) PROVE Fine(k)
  <2>1. PICK run \in RouteRun(Exact) : run = after[k - 1] /\ run.executable /\ run.current \in Positives
    BY <1>2, <1>4 DEF RunTurns
  <2>2. k \in 1..Len(legs) /\ legs[k] \in LegType /\ legs[k].levels # <<>> /\ legs[k].book
    BY DEF LegsOK, Quoted
  <2>3. PICK next : /\ next = after[k]
                    /\ next = Continued(Exact, run, legs[k], LevelsOf(Exact, legs, k, ReferencePass), ReferencePass)
    BY <1>2, <2>1 DEF RunTurns
  <2>4. /\ next.executable
        /\ next.current = Times(run.current, Rate(legs[k].op, BestPrice(legs, k, ReferencePass)))
        /\ next.current \in Positives
    BY <2>1, <2>2, <2>3, ReferenceTurn
  <2>5. PICK price \in Positives : price = BestPrice(legs, k, ReferencePass)
    BY <1>1, <2>2, BestPriceIs
  <2>6. PICK rate \in Rational : rate = Rate(legs[k].op, BestPrice(legs, k, ReferencePass))
    BY <2>5, RateType DEF Positives
  <2>7. PICK gain \in Rational : gain = Gain(legs, k, pass) /\ Leq(gain, rate)
    <3>1. Gain(legs, k, pass) \in Positives
      BY QuotedLeg
    <3>2. PassOK(pass)
      BY DEF Quoted
    <3>3. Leq(Gain(legs, k, pass), rate)
      BY <2>2, <2>6, <3>2, GainAtMost
    <3> QED  BY <3>1, <3>3 DEF Positives
  <2>8. PICK rest \in Rational : rest = tail[k + 1] /\ tail[k] = Times(gain, rest) /\ Leq(Zero, rest)
    <3>1. k + 1 \in 1..(n + 1)
      OBVIOUS
    <3>2. tail[k + 1] \in Positives
      BY <3>1 DEF TailIs
    <3>3. tail[k] = Times(gain, tail[k + 1])
      BY <2>7 DEF TailIs
    <3> QED  BY <3>2, <3>3, MoreLaws, ZeroOne DEF Positives
  <2>9. PICK held \in Rational : held = run.current /\ Leq(Zero, held)
    BY <2>1, MoreLaws, ZeroOne DEF Positives
  <2>10. Leq(Times(held, Times(gain, rest)), Times(Times(held, rate), rest))
    <3>1. PICK a \in Rational, b \in Rational : a = Times(gain, held) /\ b = Times(rate, held)
      BY Closed
    <3>2. Leq(a, b)
      BY <3>1, <2>7, <2>9, OrderLaws
    <3>3. Leq(Times(a, rest), Times(b, rest))
      BY <3>2, <2>8, OrderLaws
    <3>4. b = Times(held, rate) /\ a = Times(held, gain)
      BY <3>1, TimesLaws
    <3>5. Times(a, rest) = Times(held, Times(gain, rest))
      BY <3>4, TimesLaws
    <3> QED  BY <3>3, <3>4, <3>5
  <2>11. PICK x \in Rational, y \in Rational, z \in Rational :
             /\ x = Times(amount, tail[1]) /\ y = Times(held, Times(gain, rest))
             /\ z = Times(Times(held, rate), rest)
    <3>1. 1 \in 1..(n + 1)
      OBVIOUS
    <3>2. tail[1] \in Rational
      BY <3>1 DEF TailIs, Positives
    <3>3. Times(amount, tail[1]) \in Rational
      BY <3>2, <1>1, Closed
    <3>4. Times(gain, rest) \in Rational /\ Times(held, rate) \in Rational
      BY Closed
    <3>5. Times(held, Times(gain, rest)) \in Rational /\ Times(Times(held, rate), rest) \in Rational
      BY <3>4, Closed
    <3> QED  BY <3>3, <3>5
  <2>12. Leq(x, y)
    <3>1. (k - 1) + 1 = k
      OBVIOUS
    <3> QED  BY <3>1, <1>4, <2>1, <2>8, <2>9, <2>11
  <2>13. Leq(x, z)
    BY <2>10, <2>11, <2>12, OrderLaws
  <2> QED  BY <2>3, <2>4, <2>6, <2>8, <2>9, <2>11, <2>13
<1>5. Fine(n)
  <2>1. SUFFICES ASSUME Bad # {} PROVE FALSE
    OBVIOUS
  <2>2. PICK k \in 1..n : k \in Bad /\ (k - 1) \notin Bad
    <3>1. Bad \in SUBSET (0..n) /\ 0 \notin Bad
      BY <1>3
    <3> HIDE DEF Bad
    <3> QED  BY <2>1, <3>1, FirstBreak
  <2>3. ~Fine(k) /\ Fine(k - 1)
    BY <2>2
  <2> HIDE DEF Fine
  <2> QED  BY <1>4, <2>3
<1>6. after[n].current \in Rational /\ Times(after[n].current, tail[n + 1]) = after[n].current
  BY <1>5, TimesLaws DEF TailIs, Positives
<1> QED  BY <1>2, <1>5, <1>6

LEMMA AnswerBounded ==
    ASSUME NEW legs \in Routes, NEW amount \in Amounts, NEW mode \in Modes,
           NEW answer, answer = Simulated(Exact, legs, amount, mode), answer.executable
    PROVE  Leq(answer.final, answer.gross) \/ Leq(answer.final, amount)
<1>1. PICK pass : pass = Pass(mode)
  OBVIOUS
<1>2. PICK run, reference : AnswerOf(Exact, answer, legs, amount, mode, run, reference)
  BY AnswerIs, ExactSized
<1>3. /\ PassOK(pass) /\ pass.reference = FALSE /\ LegsOK(legs, pass)
      /\ LegsOK(legs, ReferencePass) /\ legs \in Seq(LegType)
      /\ \A k \in 1..Len(legs) : BestFirst(legs[k])
      /\ amount \in NonNegatives /\ amount \in Positives /\ amount \in Rational
  <2>1. /\ PassOK(pass) /\ pass.reference = FALSE /\ pass.reference \in BOOLEAN
        /\ ReferencePass.reference \in BOOLEAN
    BY <1>1, PassIs
  <2> QED  BY <2>1, RoutesOK, AmountsOK, ExactSized DEF Positives
<1>4. PICK n \in Nat : n = Len(legs)
  BY <1>3
<1>5. /\ Chained(Exact, run, legs, amount, pass, n) /\ run.executable
      /\ answer.final = Plus(run.current, ResidualValue(Exact, legs, run, pass))
      /\ answer.gross = RunRoute(Exact, legs, amount, ReferencePass).current
  BY <1>1, <1>2, <1>4 DEF AnswerOf, RunIs, Add, Subtract, Multiply, Divide, Rounded
<1>6. /\ Len(run.done) = n /\ run.current = Entering(run.done, amount, n + 1)
      /\ \A k \in 1..n : legs[k].book
  BY <1>5 DEF Chained
<1>7. ASSUME NEW k \in 1..n
      PROVE  /\ legs[k].levels # <<>>
             /\ Yields(run.done[k], Entering(run.done, amount, k), Gain(legs, k, pass))
  <2>1. BestFirst(legs[k])
    BY <1>3, <1>4
  <2> QED  BY <2>1, <1>3, <1>4, <1>5, RunYields
<1>8. Quoted(legs, n, pass)
  BY <1>3, <1>4, <1>7 DEF Quoted
<1>9. PICK tail : TailIs(tail, legs, n, pass)
  <2>1. \A k \in 1..n : Gain(legs, k, pass) \in Positives
    BY <1>8, QuotedLeg
  <2> QED  BY <2>1, TailExists
<1>10. PICK sum : Residuals(sum, run, tail, n) /\ ResidualValue(Exact, legs, run, pass) = sum[n]
  <2>1. \A k \in 1..n : run.done[k].unspent \in Rational
    BY <1>7 DEF Yields, NonNegatives
  <2> QED  BY <2>1, <1>6, <1>8, <1>9, ResidualsExist
<1>11. CASE n = 0
  <2>1. run.current = amount /\ sum[n] = Zero
    BY <1>6, <1>10, <1>11 DEF Entering, Residuals
  <2>2. answer.final = amount
    BY <2>1, <1>3, <1>5, <1>10, PlusLaws
  <2>3. Leq(amount, amount)
    BY <1>3, OrderLaws
  <2> QED  BY <2>2, <2>3
<1>12. CASE n # 0
  <2>1. 1 \in 1..n /\ n \in 1..n /\ n \in Nat \ {0} /\ 1 \in 1..(n + 1)
    BY <1>12
  <2>2. Leq(Plus(run.done[n].output, sum[n]),
            Plus(run.done[1].unspent, Times(run.done[1].consumed, tail[1])))
    BY <2>1, <1>7, <1>8, <1>9, <1>10, RunMarked
  <2>3. run.current = run.done[n].output
    BY <1>6, <1>12 DEF Entering
  <2>4. PICK u \in NonNegatives, c \in NonNegatives :
            u = run.done[1].unspent /\ c = run.done[1].consumed /\ Plus(u, c) = amount
    BY <2>1, <1>7 DEF Yields, Entering
  <2>5. PICK t \in Rational : t = tail[1]
    BY <2>1, <1>9 DEF TailIs, Positives
  <2>6. PICK g \in Rational : g = answer.gross /\ Leq(Times(amount, t), g)
    BY <1>3, <1>4, <1>5, <1>6, <1>8, <1>9, <2>5, ReferenceMarked
  <2>7. PICK f \in Rational : f = answer.final /\ Leq(f, Plus(u, Times(c, t)))
    <3>1. run.done[n].output \in Rational /\ sum[n] \in Rational
      BY <2>1, <1>7, <1>10 DEF Yields, NonNegatives, Residuals
    <3>2. Plus(run.done[n].output, sum[n]) \in Rational
      BY <3>1, Closed
    <3> QED  BY <3>2, <2>2, <2>3, <2>4, <2>5, <1>5, <1>10
  <2>8. Leq(f, g) \/ Leq(f, Plus(u, c))
    BY <2>4, <2>6, <2>7, PartlyMarked
  <2> QED  BY <2>4, <2>6, <2>7, <2>8
<1> QED  BY <1>11, <1>12

(***************************************************************************)
(* For every route, size, stress, fee and filter, wherever rounding        *)
(* changed nothing in the result: what a simulation counts at the end is   *)
(* no more than the gross outcome at the best prices, or no gain at all,   *)
(* so the scanner may dismiss a cycle on the gross outcome                 *)
(* (_value_residuals, _run_route, simulate).                               *)
(***************************************************************************)
THEOREM SimulatorNeverBeatsGross == Spec => [](Unrounded => NeverBeatsGross)
<1>1. ASSUME SInv, Unrounded PROVE NeverBeatsGross
  <2>1. CASE result = Unsettled
    BY <2>1 DEF Unsettled, NeverBeatsGross
  <2>2. CASE \E amount \in Amounts, mode \in Modes : Answered(route, amount, mode)
    <3>1. PICK amount \in Amounts, mode \in Modes :
              result = Simulated(Exact, route, amount, mode) /\ ask.amount = amount
      BY <1>1, <2>2 DEF Answered, Unrounded
    <3>2. route \in Routes
      BY <1>1 DEF SInv
    <3>3. result.executable => Leq(result.final, result.gross) \/ Leq(result.final, amount)
      BY <3>1, <3>2, AnswerBounded
    <3>4. \A x : Widened(x) = x
      BY <1>1 DEF Widened
    <3> QED  BY <3>1, <3>3, <3>4 DEF NeverBeatsGross
  <2> QED  BY <1>1, <2>1, <2>2 DEF SInv
<1> QED  BY <1>1, SInvHolds, PTL

-----------------------------------------------------------------------------
(* SizeIsLargest: one curve through a book.                                *)

\* What goes into a conversion of a walk, and what comes out.
Given(op, walk) == IF op = "SELL_BASE" THEN walk.base ELSE walk.quote
Taken(op, walk) == IF op = "SELL_BASE" THEN walk.quote ELSE walk.base

\* The walk for what goes in, and for what comes out.
Forth(op, amount, levels) ==
    IF op = "SELL_BASE" THEN ForBase(Exact, amount, levels) ELSE ForQuote(Exact, amount, levels)
Back(op, amount, levels) ==
    IF op = "SELL_BASE" THEN ForQuote(Exact, amount, levels) ELSE ForBase(Exact, amount, levels)

\* A walk through a book, either way.
OnBook(walk, levels) ==
    walk \in Walk(Exact) /\ \E op : \E x \in NonNegatives : walk = Forth(op, x, levels)

LEMMA WalkKeeps ==
    ASSUME NEW op, NEW x \in NonNegatives, NEW levels \in Seq(MetLevel)
    PROVE  /\ Forth(op, x, levels) \in Walk(Exact) /\ OnBook(Forth(op, x, levels), levels)
           /\ Plus(Given(op, Forth(op, x, levels)), Forth(op, x, levels).left) = x
           /\ Back(op, x, levels) \in Walk(Exact) /\ OnBook(Back(op, x, levels), levels)
           /\ Plus(Taken(op, Back(op, x, levels)), Back(op, x, levels).left) = x
<1>1. ForBase(Exact, x, levels) \in Walk(Exact) /\ ForQuote(Exact, x, levels) \in Walk(Exact)
  BY WalkTypes, ExactSized
<1>2. OnBook(ForBase(Exact, x, levels), levels)
  <2>1. ForBase(Exact, x, levels) = Forth("SELL_BASE", x, levels)
    BY DEF Forth
  <2> QED  BY <1>1, <2>1 DEF OnBook
<1>3. OnBook(ForQuote(Exact, x, levels), levels)
  <2>1. ForQuote(Exact, x, levels) = Forth("BUY_BASE", x, levels)
    BY DEF Forth
  <2> QED  BY <1>1, <2>1 DEF OnBook
<1>4. /\ Plus(ForBase(Exact, x, levels).base, ForBase(Exact, x, levels).left) = x
      /\ Plus(ForQuote(Exact, x, levels).quote, ForQuote(Exact, x, levels).left) = x
  BY ForBaseKeeps, ForQuoteKeeps
<1>5. CASE op = "SELL_BASE"
  <2>1. Forth(op, x, levels) = ForBase(Exact, x, levels) /\ Back(op, x, levels) = ForQuote(Exact, x, levels)
    BY <1>5 DEF Forth, Back
  <2> QED  BY <2>1, <1>1, <1>2, <1>3, <1>4, <1>5 DEF Given, Taken
<1>6. CASE op # "SELL_BASE"
  <2>1. Forth(op, x, levels) = ForQuote(Exact, x, levels) /\ Back(op, x, levels) = ForBase(Exact, x, levels)
    BY <1>6 DEF Forth, Back
  <2> QED  BY <2>1, <1>1, <1>2, <1>3, <1>4, <1>6 DEF Given, Taken
<1> QED  BY <1>5, <1>6

(* What is left of an amount is what it exceeds what was taken of it by.    *)
LEMMA KeptIs ==
    ASSUME NEW taken \in NonNegatives, NEW left \in NonNegatives, NEW x, Plus(taken, left) = x
    PROVE  /\ x \in NonNegatives /\ Leq(taken, x)
           /\ left = Zero <=> taken = x
           /\ left = Zero <=> Leq(x, taken)
<1>1. taken \in Rational /\ left \in Rational /\ Leq(Zero, left)
  BY DEF NonNegatives
<1>2. x \in NonNegatives /\ x \in Rational /\ Leq(taken, x)
  BY <1>1, SignLaws, MoreLaws DEF NonNegatives
<1>3. left = Zero => taken = x
  BY <1>1, PlusLaws
<1>4. taken = x => left = Zero
  <2>1. Minus(Plus(left, taken), taken) = left /\ Plus(left, taken) = Plus(taken, left)
    BY <1>1, PlusLaws
  <2>2. Minus(taken, taken) = Zero
    BY <1>1, PlusLaws
  <2> QED  BY <2>1, <2>2
<1>5. Leq(x, taken) <=> taken = x
  BY <1>1, <1>2, OrderLaws
<1> QED  BY <1>2, <1>3, <1>4, <1>5

LEMMA GivenIs ==
    ASSUME NEW op, NEW walk \in Walk(Exact)
    PROVE  /\ Given(op, walk) \in NonNegatives /\ Taken(op, walk) \in NonNegatives
           /\ Given(op, walk) \in Rational /\ Taken(op, walk) \in Rational
  BY WalkIs DEF Given, Taken

(* Abreast is said of what goes in and what comes out alike.                *)
LEMMA AbreastIs ==
    ASSUME NEW op, NEW v, NEW w
    PROVE  Abreast(v, w) <=>
              \/ Given(op, v) = Given(op, w) /\ Taken(op, v) = Taken(op, w)
              \/ v.left = Zero /\ Less(Given(op, v), Given(op, w)) /\ Less(Taken(op, v), Taken(op, w))
              \/ w.left = Zero /\ Less(Given(op, w), Given(op, v)) /\ Less(Taken(op, w), Taken(op, v))
<1>1. CASE op = "SELL_BASE"
  BY <1>1 DEF Abreast, Given, Taken
<1>2. CASE op # "SELL_BASE"
  BY <1>2 DEF Abreast, Given, Taken
<1> QED  BY <1>1, <1>2

LEMMA ForthAndBack ==
    ASSUME NEW op, NEW x \in NonNegatives, NEW y \in NonNegatives, NEW levels \in Seq(MetLevel)
    PROVE  Abreast(Forth(op, x, levels), Back(op, y, levels))
<1>1. CASE op = "SELL_BASE"
  BY <1>1, WalksAbreast DEF Forth, Back
<1>2. CASE op # "SELL_BASE"
  <2>1. Abreast(ForBase(Exact, y, levels), ForQuote(Exact, x, levels))
    BY WalksAbreast
  <2>2. Abreast(ForQuote(Exact, x, levels), ForBase(Exact, y, levels))
    BY <2>1 DEF Abreast
  <2> QED  BY <1>2, <2>2 DEF Forth, Back
<1> QED  BY <1>1, <1>2

(* Walking back for what came out arrives where the walk did.               *)
LEMMA Echo ==
    ASSUME NEW op, NEW x \in NonNegatives, NEW levels \in Seq(MetLevel),
           NEW walk, walk = Forth(op, x, levels),
           NEW echo, echo = Back(op, Taken(op, walk), levels)
    PROVE  /\ echo.left = Zero /\ echo.base = walk.base /\ echo.quote = walk.quote
           /\ echo \in Walk(Exact)
<1>1. walk \in Walk(Exact) /\ Taken(op, walk) \in NonNegatives
  BY WalkKeeps, GivenIs
<1>2. PICK y \in NonNegatives : y = Taken(op, walk)
  BY <1>1
<1>3. echo \in Walk(Exact) /\ Plus(Taken(op, echo), echo.left) = y
  BY <1>2, WalkKeeps
<1>4. Taken(op, echo) \in NonNegatives /\ echo.left \in NonNegatives
  BY <1>3, GivenIs, WalkIs
<1>5. /\ Leq(Taken(op, echo), y) /\ (echo.left = Zero <=> Taken(op, echo) = y)
  BY <1>3, <1>4, KeptIs
<1>6. Abreast(walk, echo)
  BY <1>2, ForthAndBack
<1>7. ~Less(y, Taken(op, echo)) /\ (Less(Taken(op, echo), y) => Taken(op, echo) # y)
  BY <1>4, <1>5, OrderLaws DEF NonNegatives
<1>8. Given(op, walk) = Given(op, echo) /\ Taken(op, walk) = Taken(op, echo)
  BY <1>2, <1>5, <1>6, <1>7, AbreastIs
<1>9. echo.base = walk.base /\ echo.quote = walk.quote
  BY <1>8 DEF Given, Taken
<1> QED  BY <1>2, <1>3, <1>5, <1>8, <1>9

LEMMA SameWay ==
    ASSUME NEW op, NEW x \in NonNegatives, NEW y \in NonNegatives, NEW levels \in Seq(MetLevel)
    PROVE  Abreast(Forth(op, x, levels), Forth(op, y, levels))
<1>1. PICK v \in Walk(Exact) : v = Forth(op, x, levels)
  BY WalkKeeps
<1>2. PICK w \in Walk(Exact) : w = Forth(op, y, levels)
  BY WalkKeeps
<1>3. PICK f \in Walk(Exact) : /\ f = Back(op, Taken(op, v), levels) /\ f.left = Zero
                        /\ f.base = v.base /\ f.quote = v.quote
  BY <1>1, Echo
<1>4. PICK e \in Walk(Exact) : /\ e = Back(op, Taken(op, w), levels) /\ e.left = Zero
                        /\ e.base = w.base /\ e.quote = w.quote
  BY <1>2, Echo
<1>5. Abreast(v, e) /\ Abreast(w, f)
  <2>1. Taken(op, v) \in NonNegatives /\ Taken(op, w) \in NonNegatives
    BY GivenIs
  <2> QED  BY <2>1, <1>1, <1>2, <1>3, <1>4, ForthAndBack
<1>6. CASE e.left = Zero /\ Less(e.base, v.base) /\ Less(e.quote, v.quote)
  <2>1. Less(w.base, v.base) /\ Less(w.quote, v.quote)
    BY <1>4, <1>6
  <2>2. w.base # v.base /\ ~Less(v.base, w.base)
    <3>1. w.base \in Rational /\ v.base \in Rational
      BY WalkIs
    <3>2. ~Less(v.base, v.base)
      BY <3>1, OrderLaws
    <3>3. ~Less(v.base, w.base)
      BY <2>1, <3>1, OrderLaws, MoreLaws
    <3> QED  BY <2>1, <3>2, <3>3
  <2>3. w.left = Zero
    BY <1>3, <1>5, <2>2 DEF Abreast
  <2>4. Abreast(v, w)
    BY <2>1, <2>3 DEF Abreast
  <2> QED  BY <2>4, <1>1, <1>2
<1>7. CASE v.base = e.base /\ v.quote = e.quote
  BY <1>1, <1>2, <1>4, <1>7 DEF Abreast
<1>8. CASE v.left = Zero /\ Less(v.base, e.base) /\ Less(v.quote, e.quote)
  BY <1>1, <1>2, <1>4, <1>8 DEF Abreast
<1> QED  BY <1>5, <1>6, <1>7, <1>8 DEF Abreast

(* However two walks go through a book, they go along the same curve.       *)
LEMMA AnyAbreast ==
    ASSUME NEW levels \in Seq(MetLevel), NEW v, OnBook(v, levels), NEW w, OnBook(w, levels)
    PROVE  Abreast(v, w)
<1>1. PICK p : \E x \in NonNegatives : v = Forth(p, x, levels)
  BY DEF OnBook
<1>2. PICK r : \E y \in NonNegatives : w = Forth(r, y, levels)
  BY DEF OnBook
<1>3. PICK x \in NonNegatives : v = Forth(p, x, levels)
  BY <1>1
<1>4. PICK y \in NonNegatives : w = Forth(r, y, levels)
  BY <1>2
<1>5. CASE (p = "SELL_BASE") = (r = "SELL_BASE")
  <2>1. Forth(r, y, levels) = Forth(p, y, levels)
    BY <1>5 DEF Forth
  <2> QED  BY <1>3, <1>4, <2>1, SameWay
<1>6. CASE (p = "SELL_BASE") # (r = "SELL_BASE")
  <2>1. Forth(r, y, levels) = Back(p, y, levels)
    BY <1>6 DEF Forth, Back
  <2> QED  BY <1>3, <1>4, <2>1, ForthAndBack
<1> QED  BY <1>5, <1>6

(* What has come out grows with what has gone in.                           *)
LEMMA OnCurve ==
    ASSUME NEW levels \in Seq(MetLevel), NEW v, OnBook(v, levels), NEW w, OnBook(w, levels), NEW op
    PROVE  /\ Leq(Given(op, v), Given(op, w)) <=> Leq(v.base, w.base)
           /\ Leq(Taken(op, v), Taken(op, w)) <=> Leq(v.base, w.base)
           /\ Leq(v.quote, w.quote) <=> Leq(v.base, w.base)
<1>1. /\ v.base \in Rational /\ w.base \in Rational /\ v.quote \in Rational /\ w.quote \in Rational
  BY WalkIs DEF OnBook
<1>2. Abreast(v, w)
  BY AnyAbreast
<1>3. /\ Leq(v.base, w.base) <=> ~Less(w.base, v.base)
      /\ Leq(v.quote, w.quote) <=> ~Less(w.quote, v.quote)
      /\ ~(Less(v.base, w.base) /\ Less(w.base, v.base))
      /\ ~(Less(v.quote, w.quote) /\ Less(w.quote, v.quote))
      /\ ~Less(v.base, v.base) /\ ~Less(v.quote, v.quote)
  <2>1. /\ Less(w.base, v.base) <=> ~Leq(v.base, w.base)
        /\ Less(v.base, w.base) <=> ~Leq(w.base, v.base)
        /\ Less(v.base, v.base) <=> ~Leq(v.base, v.base)
        /\ Less(w.base, v.base) => Leq(w.base, v.base)
        /\ Leq(v.base, v.base)
    BY <1>1, OrderLaws, MoreLaws
  <2>2. /\ Less(w.quote, v.quote) <=> ~Leq(v.quote, w.quote)
        /\ Less(v.quote, w.quote) <=> ~Leq(w.quote, v.quote)
        /\ Less(v.quote, v.quote) <=> ~Leq(v.quote, v.quote)
        /\ Less(w.quote, v.quote) => Leq(w.quote, v.quote)
        /\ Leq(v.quote, v.quote)
    BY <1>1, OrderLaws, MoreLaws
  <2> QED  BY <2>1, <2>2
<1>4. Leq(v.quote, w.quote) <=> Leq(v.base, w.base)
  BY <1>2, <1>3 DEF Abreast
<1> QED  BY <1>4 DEF Given, Taken

(* A book that gives one walk an amount gives it to every walk for it.      *)
LEMMA Reaches ==
    ASSUME NEW levels \in Seq(MetLevel), NEW v, OnBook(v, levels), NEW op, NEW x \in NonNegatives,
           Leq(x, Given(op, v))
    PROVE  /\ Forth(op, x, levels).left = Zero /\ Given(op, Forth(op, x, levels)) = x
           /\ Leq(Forth(op, x, levels).base, v.base)
<1>1. PICK w \in Walk(Exact) : /\ w = Forth(op, x, levels) /\ OnBook(w, levels)
                        /\ Plus(Given(op, w), w.left) = x
  BY WalkKeeps
<1>2. Given(op, w) \in NonNegatives /\ w.left \in NonNegatives /\ Given(op, w) \in Rational
      /\ Given(op, v) \in Rational /\ x \in Rational
  BY <1>1, GivenIs, WalkIs DEF NonNegatives, OnBook
<1>3. Leq(Given(op, w), x) /\ (w.left = Zero <=> Given(op, w) = x)
  BY <1>1, <1>2, KeptIs
<1>4. Leq(Given(op, w), Given(op, v))
  BY <1>2, <1>3, OrderLaws
<1>5. Leq(w.base, v.base)
  BY <1>1, <1>4, OnCurve
<1>6. w.left = Zero
  <2>1. Abreast(w, v)
    BY <1>1, AnyAbreast
  <2>2. ~Less(Given(op, v), Given(op, w))
    BY <1>2, <1>4, OrderLaws
  <2>3. w.left = Zero \/ Given(op, w) = Given(op, v)
    BY <2>1, <2>2, AbreastIs
  <2>4. Given(op, w) = Given(op, v) => Given(op, w) = x
    BY <1>2, <1>3, OrderLaws
  <2> QED  BY <1>3, <2>3, <2>4
<1> QED  BY <1>1, <1>3, <1>5, <1>6

(* A walk for more goes as far.                                             *)
LEMMA Further ==
    ASSUME NEW levels \in Seq(MetLevel), NEW op, NEW x \in NonNegatives, NEW y \in NonNegatives,
           Leq(x, y)
    PROVE  Leq(Forth(op, x, levels).base, Forth(op, y, levels).base)
<1>1. PICK v \in Walk(Exact) : /\ v = Forth(op, x, levels) /\ OnBook(v, levels)
                        /\ Plus(Given(op, v), v.left) = x
  BY WalkKeeps
<1>2. PICK w \in Walk(Exact) : /\ w = Forth(op, y, levels) /\ OnBook(w, levels)
                        /\ Plus(Given(op, w), w.left) = y
  BY WalkKeeps
<1>3. /\ Given(op, v) \in NonNegatives /\ v.left \in NonNegatives /\ Given(op, v) \in Rational
      /\ Given(op, w) \in NonNegatives /\ w.left \in NonNegatives /\ Given(op, w) \in Rational
      /\ x \in Rational /\ y \in Rational
  BY GivenIs, WalkIs DEF NonNegatives
<1>4. Leq(Given(op, v), x) /\ (w.left = Zero => Given(op, w) = y)
  BY <1>1, <1>2, <1>3, KeptIs
<1>5. Leq(Given(op, v), Given(op, w))
  <2>1. Leq(Given(op, v), y)
    BY <1>3, <1>4, OrderLaws
  <2>2. w.left = Zero => ~Less(Given(op, w), Given(op, v))
    BY <1>3, <1>4, <2>1, OrderLaws
  <2>3. Abreast(v, w)
    BY <1>1, <1>2, AnyAbreast
  <2>4. Given(op, v) = Given(op, w) \/ Less(Given(op, v), Given(op, w))
    BY <2>2, <2>3, AbreastIs
  <2> QED  BY <1>3, <2>4, OrderLaws, MoreLaws
<1>6. Leq(v.base, w.base)
  BY <1>1, <1>2, <1>5, OnCurve
<1> QED  BY <1>1, <1>2, <1>6

-----------------------------------------------------------------------------
(* SizeIsLargest: all that a book displays.                                *)

\* A book with an end.
Ends(levels) == levels \in Seq(MetLevel) /\ \A k \in 1..Len(levels) : levels[k].quantity \in Positives

\* The base of the first k levels.
Totals(sum, levels, n) ==
    /\ sum[0] = Zero
    /\ \A k \in 1..n : /\ sum[k - 1] \in NonNegatives /\ sum[k] \in NonNegatives
                       /\ sum[k] = Plus(sum[k - 1], levels[k].quantity)

LEMMA TotalsExist ==
    ASSUME NEW levels, Ends(levels), NEW n \in Nat, n = Len(levels)
    PROVE  \E sum : Totals(sum, levels, n) /\ TotalBase(Exact, levels) = sum[n] /\ sum[n] \in NonNegatives
<1> DEFINE Of(k) == levels[k].quantity
           step == [pair \in NonNegatives \X (1..n) |-> Plus(pair[1], Of(pair[2]))]
           Turns(f, l) == f = [k \in 0..l |-> IF k = 0 THEN Zero ELSE Plus(f[k - 1], Of(k))]
<1>1. Zero \in NonNegatives
  BY ZeroOne, SignLaws
<1>2. \A k \in 1..n : Of(k) \in NonNegatives /\ Of(k) \in Rational
  BY SignLaws DEF Ends, Positives
<1> HIDE DEF Of
<1>3. ASSUME NEW x \in NonNegatives, NEW k \in 1..n PROVE Plus(x, Of(k)) \in NonNegatives
  BY <1>2, SignLaws DEF NonNegatives
<1>4. step \in [NonNegatives \X (1..n) -> NonNegatives]
  BY <1>3
<1>5. ASSUME NEW x \in NonNegatives, NEW k \in 1..n PROVE step[<<x, k>>] = Plus(x, Of(k))
  OBVIOUS
<1> HIDE DEF step
<1>6. PICK g : g \in LoopOf(step, Zero, n, NonNegatives)
  BY <1>1, <1>4, LoopExists
<1>7. Turns(g, n)
  <2>1. g \in [0..n -> NonNegatives] /\ g[0] = Zero
    BY <1>6 DEF LoopOf
  <2>2. ASSUME NEW k \in 1..n PROVE g[k] = Plus(g[k - 1], Of(k))
    <3>1. g[k - 1] \in NonNegatives /\ g[k] = step[<<g[k - 1], k>>]
      BY <1>6 DEF LoopOf
    <3> QED  BY <3>1, <1>5
  <2> QED  BY <2>1, <2>2
<1>8. PICK sum : Turns(sum, n) /\ TotalBase(Exact, levels) = sum[n]
  <2>1. \E sum : Turns(sum, n)
    BY <1>7
  <2> QED  BY <2>1, Zenon DEF TotalBase, Of, Add, Subtract, Multiply, Divide, Rounded
<1>9. sum[0] = Zero /\ \A k \in 1..n : sum[k] = Plus(sum[k - 1], Of(k))
  BY <1>8
<1>10. \A k \in 0..n : sum[k] \in NonNegatives
  <2>1. \A k \in 1..n : sum[k - 1] \in NonNegatives => sum[k] = step[<<sum[k - 1], k>>]
    BY <1>5, <1>9
  <2>2. sum[0] \in NonNegatives
    BY <1>1, <1>9
  <2> QED  BY <2>1, <2>2, <1>4, LoopStays
<1>11. Totals(sum, levels, n)
  <2>1. ASSUME NEW k \in 1..n
        PROVE  /\ sum[k - 1] \in NonNegatives /\ sum[k] \in NonNegatives
               /\ sum[k] = Plus(sum[k - 1], levels[k].quantity)
    <3>1. k - 1 \in 0..n /\ k \in 0..n
      OBVIOUS
    <3> QED  BY <3>1, <1>9, <1>10 DEF Of
  <2> QED  BY <2>1, <1>9 DEF Totals
<1> QED  BY <1>8, <1>10, <1>11

\* A walk holds all the base so far, or wants no more.
Emptied(walk, total) == Leq(walk.base, total) /\ (walk.left = Zero \/ walk.base = total)

LEMMA EmptiedStep ==
    ASSUME NEW walk \in Walk(Exact), NEW level \in MetLevel, level.quantity \in Positives,
           NEW total \in NonNegatives, Emptied(walk, total)
    PROVE  Emptied(TakeBase(Exact, walk, level), Plus(total, level.quantity))
<1>1. PICK next : next = TakeBase(Exact, walk, level)
  OBVIOUS
<1>2. PICK t \in NonNegatives : TakesBase(walk, level, t, next)
  BY <1>1, TakeIs
<1>3. PICK q \in Positives : q = level.quantity /\ q \in Rational /\ q \in Positives \cup {Infinity}
  BY DEF Positives
<1>4. /\ t = Least(walk.left, q) /\ next.left = Minus(walk.left, t) /\ next.base = Plus(walk.base, t)
  BY <1>2, <1>3 DEF TakesBase
<1>5. /\ walk.left \in Rational /\ walk.base \in Rational /\ t \in Rational /\ total \in Rational
      /\ walk.left \in NonNegatives
  BY WalkIs DEF NonNegatives
<1>6. Leq(t, q)
  BY <1>3, <1>4, <1>5, OrderLaws, MoreLaws DEF Least
<1>7. Leq(Plus(walk.base, t), Plus(total, q))
  BY <1>3, <1>5, <1>6, SumLaws DEF Emptied
<1>8. CASE t = walk.left
  <2>1. next.left = Zero
    BY <1>4, <1>5, <1>8, PlusLaws
  <2> QED  BY <2>1, <1>1, <1>3, <1>4, <1>7 DEF Emptied
<1>9. CASE t # walk.left
  <2>1. t = q
    BY <1>4, <1>9 DEF Least
  <2>2. walk.left # Zero
    BY <1>3, <1>4, <1>9, NothingLeft
  <2>3. next.base = Plus(total, q)
    BY <1>4, <2>1, <2>2 DEF Emptied
  <2> QED  BY <2>3, <1>1, <1>3, <1>4, <1>7 DEF Emptied
<1> QED  BY <1>8, <1>9

LEMMA WalkEmpties ==
    ASSUME NEW levels, Ends(levels), NEW x \in NonNegatives
    PROVE  Emptied(ForBase(Exact, x, levels), TotalBase(Exact, levels))
<1>1. PICK n \in Nat : n = Len(levels) /\ levels \in Seq(MetLevel)
  BY DEF Ends
<1>2. PICK sum : Totals(sum, levels, n) /\ TotalBase(Exact, levels) = sum[n] /\ sum[n] \in NonNegatives
  BY <1>1, TotalsExist
<1>3. PICK f : BaseWalk(Exact, f, x, levels) /\ ForBase(Exact, x, levels) = f[n]
  BY <1>1, ForBaseIs, ExactSized
<1>4. /\ f \in [0..n -> Walk(Exact)] /\ f[0] = Untouched(x)
      /\ \A k \in 1..n : levels[k] \in MetLevel /\ f[k] = TakeBase(Exact, f[k - 1], levels[k])
  BY <1>1, <1>3 DEF BaseWalk
<1> DEFINE Bad == {k \in 0..n : ~Emptied(f[k], sum[k])}
<1>5. SUFFICES ASSUME Bad # {} PROVE FALSE
  BY <1>2, <1>3
<1>6. 0 \notin Bad
  <2>1. f[0].base = Zero /\ sum[0] = Zero
    BY <1>2, <1>4 DEF Untouched, Totals
  <2>2. Leq(Zero, Zero)
    BY ZeroOne, OrderLaws
  <2> QED  BY <2>1, <2>2 DEF Emptied
<1>7. PICK k \in 1..n : k \in Bad /\ (k - 1) \notin Bad
  <2>1. Bad \in SUBSET (0..n)
    OBVIOUS
  <2> HIDE DEF Bad
  <2> QED  BY <1>5, <1>6, <2>1, FirstBreak
<1>8. PICK walk \in Walk(Exact) : walk = f[k - 1] /\ Emptied(walk, sum[k - 1])
  BY <1>4, <1>7
<1>9. PICK level \in MetLevel : level = levels[k] /\ level.quantity \in Positives
  BY <1>1, <1>4 DEF Ends
<1>10. PICK total \in NonNegatives : total = sum[k - 1] /\ sum[k] = Plus(total, level.quantity)
  BY <1>2, <1>9 DEF Totals
<1>11. Emptied(f[k], sum[k])
  <2>1. f[k] = TakeBase(Exact, walk, level)
    BY <1>4, <1>8, <1>9
  <2> QED  BY <2>1, <1>8, <1>9, <1>10, EmptiedStep
<1> QED  BY <1>7, <1>11

(* The total is base that a walk can have, and no walk has more.            *)
LEMMA TotalIs ==
    ASSUME NEW levels, Ends(levels)
    PROVE  /\ TotalBase(Exact, levels) \in NonNegatives
           /\ \A x \in NonNegatives : Leq(x, TotalBase(Exact, levels)) => ForBase(Exact, x, levels).left = Zero
           /\ \A x \in NonNegatives : ForBase(Exact, x, levels).left = Zero => Leq(x, TotalBase(Exact, levels))
<1>1. PICK n \in Nat : n = Len(levels) /\ levels \in Seq(MetLevel)
  BY DEF Ends
<1>2. PICK total \in NonNegatives : total = TotalBase(Exact, levels)
  <2>1. \E sum : Totals(sum, levels, n) /\ TotalBase(Exact, levels) = sum[n] /\ sum[n] \in NonNegatives
    BY <1>1, TotalsExist
  <2> QED  BY <2>1
<1>3. ASSUME NEW x \in NonNegatives
      PROVE  \E w \in Walk(Exact) : /\ w = ForBase(Exact, x, levels) /\ OnBook(w, levels) /\ Emptied(w, total)
                             /\ Plus(w.base, w.left) = x /\ (w.left = Zero <=> w.base = x)
                             /\ (w.left = Zero <=> Leq(x, w.base))
  <2>1. PICK w \in Walk(Exact) : w = ForBase(Exact, x, levels) /\ Plus(w.base, w.left) = x
    BY <1>1, WalkTypes, ForBaseKeeps, ExactSized
  <2>2. Forth("SELL_BASE", x, levels) = w
    BY <2>1 DEF Forth
  <2>3. OnBook(w, levels)
    BY <1>1, <2>2, WalkKeeps
  <2>4. Emptied(w, total)
    BY <1>2, <2>1, WalkEmpties
  <2> QED  BY <2>1, <2>3, <2>4, WalkIs, KeptIs
<1>4. PICK v \in Walk(Exact) : v = ForBase(Exact, total, levels) /\ OnBook(v, levels) /\ v.left = Zero /\ v.base = total
  BY <1>3 DEF Emptied
<1>5. ASSUME NEW x \in NonNegatives, Leq(x, total) PROVE ForBase(Exact, x, levels).left = Zero
  <2>1. Leq(x, Given("SELL_BASE", v))
    BY <1>4, <1>5 DEF Given
  <2>2. Forth("SELL_BASE", x, levels).left = Zero
    BY <2>1, <1>1, <1>4, Reaches
  <2> QED  BY <2>2 DEF Forth
<1>6. ASSUME NEW x \in NonNegatives, ForBase(Exact, x, levels).left = Zero PROVE Leq(x, total)
  BY <1>3, <1>6 DEF Emptied
<1> QED  BY <1>2, <1>5, <1>6

-----------------------------------------------------------------------------
(* SizeIsLargest: the rules, and the largest order within them.            *)

LEMMA NextLot ==
    ASSUME NEW j \in Int, NEW k \in Int, NEW lot \in Nat \ {0},
           Less(Num(k * lot), Plus(Num(j * lot), Num(lot)))
    PROVE  k <= j
<1>1. PICK a \in Int, b \in Int : a = k * lot /\ b = j * lot
  OBVIOUS
<1>2. Worth(Num(a), a, 1) /\ Worth(Num(b), b, 1) /\ Worth(Num(lot), lot, 1)
  BY NumIs
<1>3. 1 \in Nat \ {0}
  OBVIOUS
<1>4. Worth(Plus(Num(b), Num(lot)), b + lot, 1)
  BY <1>1, <1>2, <1>3, PartOps
<1>5. b + lot \in Int
  OBVIOUS
<1>6. a < b + lot
  BY <1>1, <1>2, <1>3, <1>4, <1>5, PartOps
<1>7. SUFFICES ASSUME k >= j + 1 PROVE FALSE
  OBVIOUS
<1>8. k * lot >= (j + 1) * lot
  BY <1>7
<1>9. (j + 1) * lot = j * lot + lot
  OBVIOUS
<1> QED  BY <1>1, <1>6, <1>8, <1>9

(* Rounding down to a lot keeps the order, and what is whole already.       *)
LEMMA FlooredGrows ==
    ASSUME NEW x \in Rational, NEW y \in Rational, NEW lot \in Nat, Leq(x, y)
    PROVE  Leq(Floored(Exact, x, lot), Floored(Exact, y, lot))
<1>1. CASE lot = 0
  BY <1>1 DEF Floored, Add, Subtract, Multiply, Divide, Rounded
<1>2. CASE lot # 0
  <2>1. PICK k \in Int : Floored(Exact, x, lot) = Num(k * lot) /\ Leq(Num(k * lot), x)
    BY <1>2, FlooredIs
  <2>2. PICK j \in Int : Floored(Exact, y, lot) = Num(j * lot) /\ Less(y, Plus(Num(j * lot), Num(lot)))
    BY <1>2, FlooredIs
  <2>3. PICK m \in Int, n \in Int : m = k * lot /\ n = j * lot
    OBVIOUS
  <2>4. Num(m) \in Rational /\ Num(n) \in Rational /\ Num(lot) \in Rational
    BY NumOrder
  <2>5. PICK z \in Rational : z = Plus(Num(n), Num(lot))
    BY <2>4, Closed
  <2>6. Leq(Num(m), y)
    BY <2>1, <2>3, <2>4, OrderLaws
  <2>7. Less(Num(m), z)
    BY <2>2, <2>3, <2>4, <2>5, <2>6, MixLaws
  <2>8. k <= j
    BY <1>2, <2>3, <2>5, <2>7, NextLot
  <2>9. m <= n
    BY <2>3, <2>8
  <2> QED  BY <2>1, <2>2, <2>3, <2>9, NumOrder
<1> QED  BY <1>1, <1>2

LEMMA FlooredTwice ==
    ASSUME NEW x \in Rational, NEW lot \in Nat
    PROVE  Floored(Exact, Floored(Exact, x, lot), lot) = Floored(Exact, x, lot)
<1>1. CASE lot = 0
  BY <1>1 DEF Floored, Add, Subtract, Multiply, Divide, Rounded
<1>2. CASE lot # 0
  <2>1. PICK k \in Int : Floored(Exact, x, lot) = Num(k * lot)
    BY <1>2, FlooredIs
  <2>2. PICK m \in Int : m = k * lot
    OBVIOUS
  <2>3. PICK r \in Rational : r = Floored(Exact, x, lot) /\ r = Num(m)
    BY <2>1, <2>2, NumOrder
  <2>4. PICK j \in Int : /\ Floored(Exact, r, lot) = Num(j * lot) /\ Leq(Num(j * lot), r)
                         /\ Less(r, Plus(Num(j * lot), Num(lot)))
    BY <1>2, FlooredIs
  <2>5. k <= j
    BY <1>2, <2>2, <2>3, <2>4, NextLot
  <2>6. PICK n \in Int : n = j * lot
    OBVIOUS
  <2>7. m <= n
    BY <2>2, <2>5, <2>6
  <2>8. Num(n) \in Rational /\ Num(m) \in Rational /\ Leq(Num(m), Num(n))
    BY <2>7, NumOrder
  <2>9. Num(n) = Num(m)
    BY <2>3, <2>4, <2>6, <2>8, OrderLaws
  <2> QED  BY <2>3, <2>4, <2>6, <2>9
<1> QED  BY <1>1, <1>2

\* An order that the book and the rules have room for, in whole lots.
InLimits(rules, q, levels) ==
    /\ q \in NonNegatives /\ ForBase(Exact, q, levels).left = Zero
    /\ ~Less(rules.maxQty, q) /\ ~Less(rules.maxNotional, ForBase(Exact, q, levels).quote)
    /\ Floored(Exact, q, rules.step) = q

LEMMA CapIs ==
    ASSUME NEW y \in NonNegatives, NEW max \in Positives \cup {Infinity}
    PROVE  /\ Least(y, max) \in NonNegatives /\ Leq(Least(y, max), y) /\ ~Less(max, Least(y, max))
           /\ \A x \in NonNegatives : ~Less(max, x) /\ Leq(x, y) => Leq(x, Least(y, max))
           /\ \A x \in NonNegatives : Leq(x, y) /\ ~Less(max, y) => ~Less(max, x)
<1>1. y \in Rational /\ \A x \in NonNegatives : x \in Rational
  BY DEF NonNegatives
<1>2. Least(y, max) \in NonNegatives /\ Leq(Least(y, max), y)
  BY LeastIs
<1>3. CASE max = Infinity
  <2>1. ASSUME NEW x \in Rational PROVE ~Less(Infinity, x)
    <3>1. x[1] \in Int /\ x[2] \in Nat \ {0}
      BY DEF Rational
    <3> QED  BY <3>1 DEF Less, Infinity
  <2>2. Least(y, max) = y
    BY <1>1, <1>3, LeastOfInfinity
  <2> QED  BY <2>1, <2>2, <1>1, <1>2, <1>3
<1>4. CASE max \in Positives
  <2>1. max \in Rational
    BY <1>4 DEF Positives
  <2>2. \A x \in Rational : Less(max, x) <=> ~Leq(x, max)
    BY <2>1, OrderLaws
  <2>3. Least(y, max) = y \/ Least(y, max) = max
    BY DEF Least
  <2>4. Leq(Least(y, max), max)
    BY <1>1, <2>1, OrderLaws, MoreLaws DEF Least
  <2>5. ASSUME NEW x \in NonNegatives, Leq(x, y), Leq(y, max) PROVE Leq(x, max)
    BY <1>1, <2>1, <2>5, OrderLaws
  <2> QED  BY <1>1, <1>2, <2>2, <2>3, <2>4, <2>5 DEF NonNegatives
<1> QED  BY <1>3, <1>4

LEMMA BaseAt ==
    ASSUME NEW levels \in Seq(MetLevel),
           NEW q \in NonNegatives, ForBase(Exact, q, levels).left = Zero
    PROVE  /\ ForBase(Exact, q, levels) \in Walk(Exact) /\ OnBook(ForBase(Exact, q, levels), levels)
           /\ ForBase(Exact, q, levels).base = q
<1>1. PICK v \in Walk(Exact) : v = ForBase(Exact, q, levels) /\ Plus(v.base, v.left) = q
  BY WalkTypes, ForBaseKeeps, ExactSized
<1>2. Forth("SELL_BASE", q, levels) = v
  BY <1>1 DEF Forth
<1>3. OnBook(v, levels)
  BY <1>2, WalkKeeps
<1>4. v.base = q
  BY <1>1, WalkIs, KeptIs
<1> QED  BY <1>1, <1>3, <1>4

(* An amount of quote buys what costs no more, and nothing else.            *)
LEMMA Affords ==
    ASSUME NEW levels \in Seq(MetLevel),
           NEW q \in NonNegatives, ForBase(Exact, q, levels).left = Zero,
           NEW c \in NonNegatives
    PROVE  Leq(q, ForQuote(Exact, c, levels).base) <=> Leq(ForBase(Exact, q, levels).quote, c)
<1>1. PICK v \in Walk(Exact) : v = ForBase(Exact, q, levels) /\ OnBook(v, levels) /\ v.base = q
  BY BaseAt
<1>2. PICK w \in Walk(Exact) : w = ForQuote(Exact, c, levels) /\ Plus(w.quote, w.left) = c
  BY WalkTypes, ForQuoteKeeps, ExactSized
<1>3. Forth("BUY_BASE", c, levels) = w
  BY <1>2 DEF Forth
<1>4. OnBook(w, levels)
  BY <1>3, WalkKeeps
<1>5. /\ v.quote \in NonNegatives /\ v.quote \in Rational /\ w.quote \in Rational /\ c \in Rational
      /\ Leq(w.quote, c)
  BY <1>2, WalkIs, KeptIs DEF NonNegatives
<1>6. ASSUME Leq(q, w.base) PROVE Leq(v.quote, c)
  <2>1. Leq(v.quote, w.quote)
    BY <1>1, <1>4, <1>6, OnCurve
  <2> QED  BY <2>1, <1>5, OrderLaws
<1>7. ASSUME Leq(v.quote, c) PROVE Leq(q, w.base)
  <2>1. Taken("SELL_BASE", v) = v.quote /\ Forth("SELL_BASE", q, levels) = v
        /\ Back("SELL_BASE", v.quote, levels) = Forth("BUY_BASE", v.quote, levels)
    BY <1>1 DEF Taken, Forth, Back
  <2>2. Forth("BUY_BASE", v.quote, levels).base = v.base
    BY <2>1, Echo
  <2>3. Leq(Forth("BUY_BASE", v.quote, levels).base, Forth("BUY_BASE", c, levels).base)
    BY <1>5, <1>7, Further
  <2> QED  BY <1>1, <1>3, <2>2, <2>3
<1> QED  BY <1>1, <1>2, <1>6, <1>7

\* No order within the limits is for more.
LargestIn(rules, b, levels) ==
    InLimits(rules, b, levels) /\ \A q : InLimits(rules, q, levels) => Leq(q, b)

LEMMA MostIs ==
    ASSUME NEW levels, Ends(levels), NEW rules, RulesOK(rules),
           NEW most, most = Least(TotalBase(Exact, levels), rules.maxQty)
    PROVE  /\ most \in NonNegatives
           /\ \A q : InLimits(rules, q, levels) => Leq(q, most)
           /\ \A q \in NonNegatives : Leq(q, most) =>
                 ForBase(Exact, q, levels).left = Zero /\ ~Less(rules.maxQty, q)
<1>1. PICK total \in NonNegatives : total = TotalBase(Exact, levels)
  BY TotalIs
<1>2. PICK max \in Positives \cup {Infinity} : max = rules.maxQty
  BY DEF RulesOK
<1>3. /\ most \in NonNegatives /\ Leq(most, total) /\ ~Less(max, most)
      /\ \A x \in NonNegatives : ~Less(max, x) /\ Leq(x, total) => Leq(x, most)
  BY <1>1, <1>2, CapIs
<1>4. \A x \in NonNegatives : Leq(x, most) => ~Less(max, x)
  BY <1>2, <1>3, CapIs
<1>5. ASSUME NEW q \in NonNegatives, Leq(q, most) PROVE Leq(q, total)
  BY <1>3, <1>5, OrderLaws DEF NonNegatives
<1>6. ASSUME NEW q, InLimits(rules, q, levels) PROVE Leq(q, most)
  BY <1>1, <1>2, <1>3, <1>6, TotalIs DEF InLimits
<1> QED  BY <1>1, <1>2, <1>3, <1>4, <1>5, <1>6, TotalIs

LEMMA LargestSold ==
    ASSUME NEW levels, Ends(levels), NEW rules, RulesOK(rules), NEW leg, leg.op = "SELL_BASE",
           NEW most, most = Least(TotalBase(Exact, levels), rules.maxQty)
    PROVE  LargestIn(rules, LargestBase(Exact, leg, levels, rules, most), levels)
<1>1. levels \in Seq(MetLevel) /\ most \in NonNegatives /\ rules.step \in Nat
  BY MostIs DEF Ends, RulesOK
<1>2. PICK cap \in NonNegatives :
          /\ cap = Least(most, Affordable(Exact, rules.maxNotional, levels)) /\ Leq(cap, most)
          /\ \A q \in NonNegatives : Leq(q, most) /\ ForBase(Exact, q, levels).left = Zero =>
                (Leq(q, cap) <=> ~Less(rules.maxNotional, ForBase(Exact, q, levels).quote))
  <2>1. CASE rules.maxNotional = Infinity
    <3>1. Least(most, Affordable(Exact, rules.maxNotional, levels)) = most /\ Leq(most, most)
      BY <1>1, <2>1, LeastOfInfinity, OrderLaws DEF Affordable, NonNegatives
    <3>2. ASSUME NEW x \in NonNegatives PROVE ~Less(Infinity, x)
      BY CapIs, LeastOfInfinity DEF NonNegatives
    <3>3. ASSUME NEW q \in NonNegatives, ForBase(Exact, q, levels).left = Zero
          PROVE  ~Less(rules.maxNotional, ForBase(Exact, q, levels).quote)
      <4>1. ForBase(Exact, q, levels).quote \in NonNegatives
        BY <1>1, WalkTypes, WalkIs, ExactSized
      <4> QED  BY <4>1, <3>2, <2>1
    <3> QED  BY <3>1, <3>3, <1>1
  <2>2. CASE rules.maxNotional # Infinity
    <3>1. PICK c \in NonNegatives : c = rules.maxNotional /\ c \in Rational
      BY <2>2, SignLaws DEF RulesOK, Positives
    <3>2. PICK a \in NonNegatives : a = ForQuote(Exact, c, levels).base
                                     /\ Affordable(Exact, rules.maxNotional, levels) = a
      <4>1. ForQuote(Exact, c, levels).base \in NonNegatives
        BY <1>1, WalkTypes, WalkIs, ExactSized
      <4> QED  BY <4>1, <2>2, <3>1 DEF Affordable
    <3>3. PICK cap : cap = Least(most, a)
      OBVIOUS
    <3>4. cap \in NonNegatives /\ cap \in Rational /\ most \in Rational /\ a \in Rational
      BY <1>1, <3>3 DEF Least, NonNegatives
    <3>5. Leq(cap, most) /\ Leq(cap, a) /\ \A q \in Rational : Leq(q, most) /\ Leq(q, a) => Leq(q, cap)
      BY <3>3, <3>4, OrderLaws, MoreLaws DEF Least
    <3>6. ASSUME NEW q \in NonNegatives, Leq(q, most), ForBase(Exact, q, levels).left = Zero
          PROVE  Leq(q, cap) <=> ~Less(rules.maxNotional, ForBase(Exact, q, levels).quote)
      <4>1. q \in Rational /\ ForBase(Exact, q, levels).quote \in Rational
        BY <1>1, WalkTypes, WalkIs, ExactSized DEF NonNegatives
      <4>2. Leq(q, a) <=> Leq(ForBase(Exact, q, levels).quote, c)
        BY <1>1, <3>2, <3>6, Affords
      <4>3. Leq(q, a) <=> Leq(q, cap)
        BY <3>4, <3>5, <3>6, <4>1, OrderLaws
      <4>4. Leq(ForBase(Exact, q, levels).quote, c) <=> ~Less(c, ForBase(Exact, q, levels).quote)
        BY <3>1, <4>1, OrderLaws
      <4> QED  BY <3>1, <4>2, <4>3, <4>4
    <3> QED  BY <3>2, <3>3, <3>4, <3>5, <3>6
  <2> QED  BY <2>1, <2>2
<1>3. PICK b \in NonNegatives : /\ b = Floored(Exact, cap, rules.step) /\ Leq(b, cap)
                                /\ b = LargestBase(Exact, leg, levels, rules, most)
                                /\ Floored(Exact, b, rules.step) = b
  BY <1>1, <1>2, FlooredType, FlooredTwice DEF LargestBase, NonNegatives
<1>4. InLimits(rules, b, levels)
  <2>1. Leq(b, most)
    BY <1>1, <1>2, <1>3, OrderLaws DEF NonNegatives
  <2>2. ForBase(Exact, b, levels).left = Zero /\ ~Less(rules.maxQty, b)
    BY <2>1, MostIs
  <2> QED  BY <2>1, <2>2, <1>2, <1>3 DEF InLimits
<1>5. ASSUME NEW q, InLimits(rules, q, levels) PROVE Leq(q, b)
  <2>1. q \in NonNegatives /\ Leq(q, most)
    BY <1>5, MostIs DEF InLimits
  <2>2. Leq(q, cap) /\ Floored(Exact, q, rules.step) = q
    BY <2>1, <1>2, <1>5 DEF InLimits
  <2>3. Leq(Floored(Exact, q, rules.step), Floored(Exact, cap, rules.step))
    BY <2>1, <2>2, <1>1, FlooredGrows DEF NonNegatives
  <2> QED  BY <2>2, <2>3, <1>3
<1> QED  BY <1>3, <1>4, <1>5 DEF LargestIn

LEMMA LargestBought ==
    ASSUME NEW levels, Ends(levels), NEW rules, RulesOK(rules), NEW leg, leg.op # "SELL_BASE",
           NEW most, most = Least(TotalBase(Exact, levels), rules.maxQty)
    PROVE  LargestIn(rules, LargestBase(Exact, leg, levels, rules, most), levels)
<1>1. /\ levels \in Seq(MetLevel) /\ most \in NonNegatives /\ most \in Rational /\ rules.step \in Nat
      /\ rules.maxNotional \in Positives \cup {Infinity}
  BY MostIs DEF Ends, RulesOK, NonNegatives
<1>2. PICK m \in NonNegatives : m = Floored(Exact, most, rules.step) /\ Leq(m, most) /\ m \in Rational
  BY <1>1, FlooredType
<1>9. CASE rules.maxNotional = Infinity
  <2>1. LargestBase(Exact, leg, levels, rules, most) = m
    BY <1>2, <1>9 DEF LargestBase
  <2>2. Floored(Exact, m, rules.step) = m
    BY <1>1, <1>2, FlooredTwice
  <2>3. InLimits(rules, m, levels)
    <3>1. ForBase(Exact, m, levels).left = Zero /\ ~Less(rules.maxQty, m)
      BY <1>2, MostIs
    <3>2. ForBase(Exact, m, levels).quote \in NonNegatives
      BY <1>1, WalkTypes, WalkIs, ExactSized
    <3>3. ~Less(rules.maxNotional, ForBase(Exact, m, levels).quote)
      BY <3>2, <1>9, CapIs, LeastOfInfinity DEF NonNegatives
    <3> QED  BY <3>1, <3>3, <2>2 DEF InLimits
  <2>4. ASSUME NEW q, InLimits(rules, q, levels) PROVE Leq(q, m)
    <3>1. q \in NonNegatives /\ q \in Rational /\ Leq(q, most) /\ Floored(Exact, q, rules.step) = q
      BY <2>4, MostIs DEF InLimits, NonNegatives
    <3>2. Leq(Floored(Exact, q, rules.step), Floored(Exact, most, rules.step))
      BY <3>1, <1>1, FlooredGrows
    <3> QED  BY <3>1, <3>2, <1>2
  <2> QED  BY <2>1, <2>3, <2>4 DEF LargestIn
<1>10. SUFFICES ASSUME rules.maxNotional # Infinity
                PROVE  LargestIn(rules, LargestBase(Exact, leg, levels, rules, most), levels)
  BY <1>9
<1>3. PICK v \in Walk(Exact) : /\ v = ForBase(Exact, m, levels) /\ OnBook(v, levels) /\ v.base = m
                        /\ v.quote \in NonNegatives
  <2>1. ForBase(Exact, m, levels).left = Zero
    BY <1>2, MostIs
  <2> QED  BY <2>1, <1>1, BaseAt, WalkIs
<1>4. PICK c \in NonNegatives :
          /\ c = Least(v.quote, rules.maxNotional) /\ Leq(c, v.quote) /\ ~Less(rules.maxNotional, c)
          /\ \A x \in NonNegatives : ~Less(rules.maxNotional, x) /\ Leq(x, v.quote) => Leq(x, c)
          /\ \A x \in NonNegatives : Leq(x, c) => ~Less(rules.maxNotional, x)
  <2>1. PICK c \in NonNegatives :
          /\ c = Least(v.quote, rules.maxNotional) /\ Leq(c, v.quote) /\ ~Less(rules.maxNotional, c)
          /\ \A x \in NonNegatives : ~Less(rules.maxNotional, x) /\ Leq(x, v.quote) => Leq(x, c)
    BY <1>1, <1>3, CapIs
  <2> QED  BY <2>1, <1>1, CapIs
<1>5. PICK w \in Walk(Exact) : w = ForQuote(Exact, c, levels) /\ Leq(w.base, m) /\ w.base \in NonNegatives
                        /\ w.base \in Rational
  <2>1. Leq(c, Given("BUY_BASE", v))
    BY <1>4 DEF Given
  <2>2. Leq(Forth("BUY_BASE", c, levels).base, v.base)
    BY <2>1, <1>1, <1>3, Reaches
  <2>3. Forth("BUY_BASE", c, levels) = ForQuote(Exact, c, levels)
    BY DEF Forth
  <2> QED  BY <2>2, <2>3, <1>1, <1>3, WalkTypes, WalkIs, ExactSized
<1>6. PICK b \in NonNegatives : /\ b = Floored(Exact, w.base, rules.step) /\ Leq(b, w.base) /\ b \in Rational
                                /\ b = LargestBase(Exact, leg, levels, rules, most)
                                /\ Floored(Exact, b, rules.step) = b
  <2>1. LargestBase(Exact, leg, levels, rules, most) = Floored(Exact, w.base, rules.step)
    BY <1>2, <1>3, <1>4, <1>5, <1>10 DEF LargestBase
  <2> QED  BY <2>1, <1>1, <1>5, FlooredType, FlooredTwice
<1>7. InLimits(rules, b, levels)
  <2>1. Leq(b, m)
    BY <1>2, <1>5, <1>6, OrderLaws
  <2>2. Leq(b, most)
    BY <1>1, <1>2, <1>6, <2>1, OrderLaws
  <2>3. ForBase(Exact, b, levels).left = Zero /\ ~Less(rules.maxQty, b)
    BY <2>2, MostIs
  <2>4. Leq(ForBase(Exact, b, levels).quote, c)
    BY <1>1, <1>5, <1>6, <2>3, Affords
  <2>5. ForBase(Exact, b, levels).quote \in NonNegatives
    BY <1>1, WalkTypes, WalkIs, ExactSized
  <2> QED  BY <2>3, <2>4, <2>5, <1>4, <1>6 DEF InLimits
<1>8. ASSUME NEW q, InLimits(rules, q, levels) PROVE Leq(q, b)
  <2>1. /\ q \in NonNegatives /\ q \in Rational /\ Leq(q, most) /\ ForBase(Exact, q, levels).left = Zero
        /\ Floored(Exact, q, rules.step) = q
    BY <1>8, MostIs DEF InLimits, NonNegatives
  <2>2. PICK x \in Walk(Exact) : x = ForBase(Exact, q, levels) /\ OnBook(x, levels) /\ x.base = q
                          /\ x.quote \in NonNegatives
    BY <2>1, <1>1, BaseAt, WalkIs
  <2>3. Leq(q, m)
    <3>1. Leq(Floored(Exact, q, rules.step), Floored(Exact, most, rules.step))
      BY <2>1, <1>1, FlooredGrows
    <3> QED  BY <3>1, <2>1, <1>2
  <2>4. Leq(x.quote, v.quote)
    BY <2>2, <2>3, <1>1, <1>3, OnCurve
  <2>5. Leq(x.quote, c)
    BY <2>2, <2>4, <1>4, <1>8 DEF InLimits
  <2>6. Leq(q, w.base)
    BY <2>1, <2>2, <2>5, <1>1, <1>5, Affords
  <2>7. Leq(Floored(Exact, q, rules.step), Floored(Exact, w.base, rules.step))
    BY <2>1, <2>6, <1>1, <1>5, FlooredGrows
  <2> QED  BY <2>1, <2>7, <1>6
<1> QED  BY <1>6, <1>7, <1>8 DEF LargestIn

LEMMA LargestBaseIs ==
    ASSUME NEW levels, Ends(levels), NEW rules, RulesOK(rules), NEW leg
    PROVE  LargestIn(rules, LargestBase(Exact, leg, levels, rules, Least(TotalBase(Exact, levels), rules.maxQty)),
                     levels)
<1>1. PICK most : most = Least(TotalBase(Exact, levels), rules.maxQty)
  OBVIOUS
<1>2. LargestIn(rules, LargestBase(Exact, leg, levels, rules, most), levels)
  BY <1>1, LargestSold, LargestBought
<1> QED  BY <1>1, <1>2

(* A smaller order is within the limits too.                                *)
LEMMA SmallerFits ==
    ASSUME NEW levels, Ends(levels), NEW rules, RulesOK(rules), NEW b, InLimits(rules, b, levels),
           NEW q \in NonNegatives, Leq(q, b), Floored(Exact, q, rules.step) = q
    PROVE  InLimits(rules, q, levels) /\ Leq(ForBase(Exact, q, levels).quote, ForBase(Exact, b, levels).quote)
<1>1. levels \in Seq(MetLevel) /\ b \in NonNegatives
  BY DEF Ends, InLimits
<1>2. PICK v \in Walk(Exact) : v = ForBase(Exact, b, levels) /\ OnBook(v, levels) /\ v.base = b
                        /\ v.quote \in NonNegatives
  BY <1>1, BaseAt, WalkIs DEF InLimits
<1>3. ForBase(Exact, q, levels).left = Zero
  <2>1. Leq(q, Given("SELL_BASE", v))
    BY <1>2 DEF Given
  <2>2. Forth("SELL_BASE", q, levels).left = Zero
    BY <2>1, <1>1, <1>2, Reaches
  <2> QED  BY <2>2 DEF Forth
<1>4. PICK w \in Walk(Exact) : w = ForBase(Exact, q, levels) /\ OnBook(w, levels) /\ w.base = q
                        /\ w.quote \in NonNegatives
  BY <1>1, <1>3, BaseAt, WalkIs
<1>5. Leq(w.quote, v.quote)
  BY <1>1, <1>2, <1>4, OnCurve
<1>6. rules.maxQty \in Positives \cup {Infinity} /\ rules.maxNotional \in Positives \cup {Infinity}
  BY DEF RulesOK
<1>7. ~Less(rules.maxQty, q)
  <2>1. ~Less(rules.maxQty, b)
    BY DEF InLimits
  <2> QED  BY <2>1, <1>1, <1>6, CapIs
<1>8. ~Less(rules.maxNotional, w.quote)
  <2>1. ~Less(rules.maxNotional, v.quote)
    BY <1>2 DEF InLimits
  <2> QED  BY <2>1, <1>2, <1>4, <1>5, <1>6, CapIs
<1> QED  BY <1>2, <1>3, <1>4, <1>5, <1>7, <1>8 DEF InLimits

\* An order that the exchange takes.
Orders(rules, q, levels) ==
    /\ InLimits(rules, q, levels)
    /\ q # Zero
    /\ ~Less(q, rules.minQty) /\ ~Less(ForBase(Exact, q, levels).quote, rules.minNotional)

(* What is above a minimum stays above it as it grows.                      *)
LEMMA AboveMinimum ==
    ASSUME NEW min \in NonNegatives, NEW x \in NonNegatives, NEW y \in NonNegatives, Leq(x, y)
    PROVE  /\ ~Less(x, min) => ~Less(y, min)
           /\ x # Zero => y # Zero
<1>1. min \in Rational /\ x \in Rational /\ y \in Rational /\ Zero \in Rational /\ Leq(Zero, x)
  BY ZeroOne DEF NonNegatives
<1> QED  BY <1>1, OrderLaws

LEMMA BiggerOrders ==
    ASSUME NEW levels, Ends(levels), NEW rules, RulesOK(rules), NEW q, Orders(rules, q, levels),
           NEW b, InLimits(rules, b, levels), Leq(q, b)
    PROVE  Orders(rules, b, levels)
<1>1. /\ q \in NonNegatives /\ b \in NonNegatives /\ Floored(Exact, q, rules.step) = q
      /\ rules.minQty \in NonNegatives /\ rules.minNotional \in NonNegatives
      /\ levels \in Seq(MetLevel)
  BY DEF Orders, InLimits, RulesOK, Ends
<1>2. Leq(ForBase(Exact, q, levels).quote, ForBase(Exact, b, levels).quote)
  BY <1>1, SmallerFits
<1>3. ForBase(Exact, q, levels).quote \in NonNegatives /\ ForBase(Exact, b, levels).quote \in NonNegatives
  BY <1>1, WalkTypes, WalkIs, ExactSized
<1>4. b # Zero /\ ~Less(b, rules.minQty)
  BY <1>1, AboveMinimum DEF Orders
<1>5. ~Less(ForBase(Exact, b, levels).quote, rules.minNotional)
  BY <1>1, <1>2, <1>3, AboveMinimum DEF Orders
<1> QED  BY <1>4, <1>5 DEF Orders

(* Where an order can be taken, the capacity is what the largest stands for. *)
LEMMA CapacityIs ==
    ASSUME NEW levels, Ends(levels), NEW rules, RulesOK(rules), NEW leg,
           NEW q, Orders(rules, q, levels)
    PROVE  \E b : /\ LargestIn(rules, b, levels) /\ Orders(rules, b, levels)
                  /\ Capacity(Exact, leg, levels, rules) = Given(leg.op, ForBase(Exact, b, levels))
                  /\ Capacity(Exact, leg, levels, rules) \in NonNegatives
                  /\ Leq(Given(leg.op, ForBase(Exact, q, levels)), Capacity(Exact, leg, levels, rules))
<1>1. PICK b : /\ b = LargestBase(Exact, leg, levels, rules, Least(TotalBase(Exact, levels), rules.maxQty))
               /\ LargestIn(rules, b, levels)
  BY LargestBaseIs
<1>2. Orders(rules, b, levels) /\ InLimits(rules, b, levels) /\ InLimits(rules, q, levels) /\ Leq(q, b)
  BY <1>1, BiggerOrders DEF LargestIn, Orders
<1>3. levels \in Seq(MetLevel)
  BY DEF Ends
<1>4. PICK v \in Walk(Exact) : v = ForBase(Exact, b, levels) /\ OnBook(v, levels) /\ v.base = b
  BY <1>2, <1>3, BaseAt DEF InLimits
<1>5. PICK w \in Walk(Exact) : w = ForBase(Exact, q, levels) /\ OnBook(w, levels) /\ w.base = q
  BY <1>2, <1>3, BaseAt DEF InLimits
<1>6. Capacity(Exact, leg, levels, rules) = Given(leg.op, v)
  <2>1. Capacity(Exact, leg, levels, rules) = InputFor(Exact, leg, levels, rules, b)
    BY <1>1 DEF Capacity
  <2>2. InputFor(Exact, leg, levels, rules, b) = IF leg.op = "SELL_BASE" THEN b ELSE v.quote
    BY <1>2, <1>4 DEF InputFor, Orders
  <2> QED  BY <2>1, <2>2, <1>4 DEF Given
<1>7. Leq(Given(leg.op, w), Given(leg.op, v))
  BY <1>2, <1>3, <1>4, <1>5, OnCurve
<1>8. Given(leg.op, v) \in NonNegatives
  BY GivenIs
<1> QED  BY <1>1, <1>2, <1>4, <1>5, <1>6, <1>7, <1>8

\* An order, of what it is given what it takes, and what it brings after the fee.
Brings(order, op, fee, levels, rules, q) ==
    /\ Orders(rules, q, levels)
    /\ order.executable
    /\ order.output = Times(Taken(op, ForBase(Exact, q, levels)), Minus(One, fee))

LEMMA FilledExecutes ==
    ASSUME NEW leg, NEW amount, NEW fee \in Share, NEW rules, NEW quantity, quantity # Zero,
           NEW walk \in Walk(Exact), walk.left = Zero, ~Rejects(rules, quantity, walk.quote)
    PROVE  /\ Filled(Exact, leg, amount, fee, rules, quantity, TRUE, walk).executable
           /\ Filled(Exact, leg, amount, fee, rules, quantity, TRUE, walk).output
                 = Times(Taken(leg.op, walk), Minus(One, fee))
<1>1. PICK gross \in NonNegatives :
          /\ gross = Taken(leg.op, walk)
          /\ gross = IF leg.op = "SELL_BASE" THEN walk.quote ELSE walk.base
          /\ Minus(gross, Times(gross, fee)) = Times(gross, Minus(One, fee))
  BY WalkIs, FeeOf DEF Taken
<1>2. PICK consumed : consumed = IF leg.op = "SELL_BASE" THEN walk.base ELSE walk.quote
  OBVIOUS
<1>3. PICK rejected \in BOOLEAN : rejected = Rejects(rules, quantity, walk.quote) /\ ~rejected
  BY DEF Rejects
<1>4. PICK executable \in BOOLEAN :
          executable = (TRUE /\ walk.left = Zero /\ quantity # Zero /\ ~rejected) /\ executable
  BY <1>3
<1>5. PICK unspent : unspent = IF Leq(amount, consumed) THEN Zero ELSE Minus(amount, consumed)
  OBVIOUS
<1> DEFINE filled == [input |-> amount, quantity |-> quantity, consumed |-> consumed,
                      unspent |-> unspent, notional |-> walk.quote,
                      output |-> Times(gross, Minus(One, fee)),
                      executable |-> executable, rejected |-> rejected]
<1>6. Filled(Exact, leg, amount, fee, rules, quantity, TRUE, walk) = filled
  BY <1>1, <1>2, <1>3, <1>4, <1>5 DEF Filled, Add, Subtract, Multiply, Divide, Rounded
<1>7. filled.executable = executable /\ filled.output = Times(gross, Minus(One, fee))
  OBVIOUS
<1> HIDE DEF filled
<1> QED  BY <1>1, <1>4, <1>6, <1>7

(* An amount between one that fits exactly and the capacity is converted,   *)
(* into no less.                                                            *)
LEMMA LegFits ==
    ASSUME NEW levels, Ends(levels), levels # <<>>, NEW rules, RulesOK(rules), NEW leg,
           NEW fee \in Share, NEW q, Orders(rules, q, levels), NEW y \in NonNegatives,
           Leq(Given(leg.op, ForBase(Exact, q, levels)), y), Leq(y, Capacity(Exact, leg, levels, rules)),
           NEW order, order = Leg(Exact, leg, y, "depth", fee, levels, rules)
    PROVE  \E r : /\ Brings(order, leg.op, fee, levels, rules, r)
                  /\ Leq(q, r) /\ Leq(Given(leg.op, ForBase(Exact, r, levels)), y)
<1>1. /\ levels \in Seq(MetLevel) /\ rules.step \in Nat /\ InLimits(rules, q, levels)
      /\ q \in NonNegatives /\ q \in Rational /\ Floored(Exact, q, rules.step) = q
  BY DEF Ends, RulesOK, Orders, InLimits, NonNegatives
<1>2. PICK b : /\ InLimits(rules, b, levels)
               /\ Capacity(Exact, leg, levels, rules) = Given(leg.op, ForBase(Exact, b, levels))
  BY CapacityIs DEF LargestIn
<1>3. PICK v \in Walk(Exact) : v = ForBase(Exact, b, levels) /\ OnBook(v, levels) /\ v.base = b
                        /\ b \in NonNegatives /\ b \in Rational
  BY <1>1, <1>2, BaseAt DEF InLimits, NonNegatives
<1>4. PICK u \in Walk(Exact) : u = ForBase(Exact, q, levels) /\ OnBook(u, levels) /\ u.base = q
  BY <1>1, BaseAt DEF InLimits
<1>5. PICK f \in Walk(Exact) : /\ f = Forth(leg.op, y, levels) /\ OnBook(f, levels)
                        /\ f.left = Zero /\ Given(leg.op, f) = y /\ Leq(f.base, b)
                        /\ f.base \in NonNegatives /\ f.base \in Rational
  <2>1. Leq(y, Given(leg.op, v))
    BY <1>2, <1>3
  <2> QED  BY <2>1, <1>1, <1>3, Reaches, WalkKeeps, WalkIs
<1>6. PICK r \in NonNegatives : /\ r = Floored(Exact, f.base, rules.step) /\ Leq(r, f.base)
                                /\ Floored(Exact, r, rules.step) = r /\ r \in Rational
  BY <1>1, <1>5, FlooredType, FlooredTwice
<1>7. Leq(q, r)
  <2>1. Leq(q, f.base)
    BY <1>1, <1>4, <1>5, OnCurve
  <2>2. Leq(Floored(Exact, q, rules.step), Floored(Exact, f.base, rules.step))
    BY <2>1, <1>1, <1>5, FlooredGrows
  <2> QED  BY <2>2, <1>1, <1>6
<1>8. Orders(rules, r, levels)
  <2>1. Leq(r, b)
    BY <1>3, <1>5, <1>6, OrderLaws
  <2>2. InLimits(rules, r, levels)
    BY <2>1, <1>2, <1>6, SmallerFits
  <2> QED  BY <2>2, <1>7, BiggerOrders
<1>9. PICK w \in Walk(Exact) : w = ForBase(Exact, r, levels) /\ OnBook(w, levels) /\ w.base = r /\ w.left = Zero
  BY <1>1, <1>8, BaseAt DEF Orders, InLimits
<1>10. Leq(Given(leg.op, w), y)
  BY <1>1, <1>5, <1>6, <1>9, OnCurve
<1>11. OrderQuantity(Exact, leg, y, levels, rules.step) = r /\ Enough(Exact, leg, y, "depth", levels)
  <2>1. CASE leg.op = "SELL_BASE"
    BY <2>1, <1>5, <1>6 DEF OrderQuantity, Enough, Given
  <2>2. CASE leg.op # "SELL_BASE"
    BY <2>2, <1>5, <1>6, OrderLaws, ZeroOne DEF OrderQuantity, Enough, Forth
  <2> QED  BY <2>1, <2>2
<1>12. ~Rejects(rules, r, w.quote)
  BY <1>8, <1>9 DEF Rejects, Orders, InLimits
<1>13. order = Filled(Exact, leg, y, fee, rules, r, TRUE, w)
  <2>1. PICK enough \in BOOLEAN : enough = Enough(Exact, leg, y, "depth", levels) /\ enough = TRUE
    BY <1>11
  <2>2. Walked(Exact, leg, y, "depth", fee, rules, levels) = Filled(Exact, leg, y, fee, rules, r, enough, w)
    BY <2>1, <1>9, <1>11 DEF Walked
  <2> QED  BY <2>1, <2>2 DEF Leg
<1>14. order.executable /\ order.output = Times(Taken(leg.op, w), Minus(One, fee))
  <2>1. r # Zero
    BY <1>8 DEF Orders
  <2>2. w \in Walk(Exact) /\ w.left = Zero /\ ~Rejects(rules, r, w.quote)
    BY <1>9, <1>12
  <2>3. PICK filled : filled = Filled(Exact, leg, y, fee, rules, r, TRUE, w) /\ order = filled
    BY <1>13
  <2>4. filled.executable /\ filled.output = Times(Taken(leg.op, w), Minus(One, fee))
    BY <2>1, <2>2, <2>3, FilledExecutes
  <2> QED  BY <2>3, <2>4
<1> QED  BY <1>7, <1>8, <1>9, <1>10, <1>14 DEF Brings

(* An order that leaves nothing unspent takes exactly what it is given.     *)
LEMMA ExactIs ==
    ASSUME NEW levels, Ends(levels), NEW rules, RulesOK(rules), NEW leg,
           NEW fee \in Share, NEW x \in NonNegatives,
           NEW order, order = Leg(Exact, leg, x, "depth", fee, levels, rules),
           order.executable, order.unspent = Zero
    PROVE  /\ levels # <<>>
           /\ \E q : Brings(order, leg.op, fee, levels, rules, q)
                     /\ Given(leg.op, ForBase(Exact, q, levels)) = x
<1>1. levels \in Seq(MetLevel) /\ rules.step \in Nat
  BY DEF Ends, RulesOK
<1>2. levels # <<>> /\ Executed(order, leg, x, "depth", fee, levels, rules.step)
  BY <1>1, ExecutedIs DEF Displayed
<1>3. PICK q \in NonNegatives : q = order.quantity /\ ForBase(Exact, q, levels).left = Zero
  BY <1>2 DEF Executed
<1>4. PICK z \in NonNegatives : q = Floored(Exact, z, rules.step)
  <2>1. q = OrderQuantity(Exact, leg, x, levels, rules.step)
    BY <1>2, <1>3 DEF Executed
  <2> QED  BY <2>1, <1>1, OrderQuantityIs, ExactSized
<1>5. PICK w \in Walk(Exact) : w = ForBase(Exact, q, levels) /\ w.left = Zero
  BY <1>1, <1>3, WalkTypes, ExactSized
<1>6. order.consumed = Given(leg.op, w) /\ order.output = Times(Taken(leg.op, w), Minus(One, fee))
      /\ order.unspent = IF Leq(x, order.consumed) THEN Zero ELSE Minus(x, order.consumed)
  BY <1>2, <1>3, <1>5 DEF Executed, Given, Taken
<1>7. Given(leg.op, w) = x
  <2>1. Leq(Given(leg.op, w), x)
    BY <1>1, <1>2, <1>6, NeverOverspends
  <2>2. Given(leg.op, w) \in Rational /\ x \in Rational
    BY GivenIs DEF NonNegatives
  <2>3. Leq(x, Given(leg.op, w)) \/ Minus(x, Given(leg.op, w)) = Zero
    BY <1>6
  <2> QED  BY <2>1, <2>2, <2>3, OrderLaws, MinusSign
<1>8. ~Rejects(rules, q, w.quote)
  <2>1. PICK enough \in BOOLEAN : enough = Enough(Exact, leg, x, "depth", levels)
    BY DEF Enough
  <2>2. q = OrderQuantity(Exact, leg, x, levels, rules.step)
    BY <1>2, <1>3 DEF Executed
  <2>3. Walked(Exact, leg, x, "depth", fee, rules, levels) = Filled(Exact, leg, x, fee, rules, q, enough, w)
    BY <2>1, <2>2, <1>5 DEF Walked
  <2>4. order = Filled(Exact, leg, x, fee, rules, q, enough, w)
    BY <2>3, <1>2 DEF Leg
  <2> QED  BY <2>4, FilledType, ExactSized
<1>9. Floored(Exact, q, rules.step) = q
  BY <1>1, <1>4, FlooredTwice DEF NonNegatives
<1>10. Orders(rules, q, levels)
  BY <1>5, <1>8, <1>9 DEF Orders, InLimits, Rejects
<1> QED  BY <1>2, <1>5, <1>6, <1>7, <1>10 DEF Brings

-----------------------------------------------------------------------------
(* SizeIsLargest: what must go into a leg.                                 *)

LEMMA NoneIs == None \notin NonNegatives
<1>1. None[1] = -1 /\ None[2] = 1 /\ Zero[1] = 0 /\ Zero[2] = 1
  BY DEF None, Zero
<1>2. ~Leq(Zero, None)
  BY <1>1 DEF Leq
<1> QED  BY <1>2 DEF NonNegatives

(* What a book that ends is worth is what its quantities cost.              *)
LEMMA TakesWorth ==
    ASSUME NEW walk \in Walk(Exact), NEW level \in MetLevel, level.quantity \in Positives
    PROVE  TakeWorth(Exact, walk, level) = TakeQuote(Exact, walk, level)
<1>1. PICK l \in NonNegatives, b \in Rational, c \in Rational :
          l = walk.left /\ b = walk.base /\ c = walk.quote /\ l \in Rational
          /\ walk = [left |-> l, base |-> b, quote |-> c]
  <2>1. walk = [left |-> walk.left, base |-> walk.base, quote |-> walk.quote]
    BY DEF Walk
  <2> QED  BY <2>1, WalkIs
<1>2. PICK p \in Positives, q \in Positives :
          p = level.price /\ q = level.quantity /\ p \in Rational /\ q \in Rational
          /\ Less(Zero, p) /\ Zero \in Rational
  BY LevelIs, ZeroOne DEF Positives
<1>3. PICK worth : worth = Least(l, Times(p, q))
  OBVIOUS
<1>4. TakeWorth(Exact, walk, level)
          = [left |-> Minus(l, worth), base |-> Plus(b, Over(worth, p)), quote |-> Plus(c, worth)]
  <2>1. \A x, y : Add(Exact, x, y) = Plus(x, y) /\ Subtract(Exact, x, y) = Minus(x, y)
                  /\ Multiply(Exact, x, y) = Times(x, y) /\ Divide(Exact, x, y) = Over(x, y)
    BY ExactOps
  <2> QED  BY <2>1, <1>1, <1>2, <1>3 DEF TakeWorth
<1>5. PICK take : take = Least(q, Over(l, p))
  OBVIOUS
<1>6. TakeQuote(Exact, walk, level)
          = IF Leq(l, Zero) THEN walk
            ELSE [left |-> Minus(l, Times(take, p)), base |-> Plus(b, take),
                  quote |-> Plus(c, Times(take, p))]
  <2>1. \A x, y : Add(Exact, x, y) = Plus(x, y) /\ Subtract(Exact, x, y) = Minus(x, y)
                  /\ Multiply(Exact, x, y) = Times(x, y) /\ Divide(Exact, x, y) = Over(x, y)
    BY ExactOps
  <2> QED  BY <2>1, <1>1, <1>2, <1>5 DEF TakeQuote
<1>7. CASE Leq(l, Zero)
  <2>1. l = Zero
    BY <1>1, <1>2, <1>7, OrderLaws DEF NonNegatives
  <2>2. Times(p, q) \in NonNegatives
    BY <1>2, SignLaws
  <2>3. worth = Zero
    BY <2>1, <2>2, <1>3 DEF Least, NonNegatives
  <2>4. Over(worth, p) = Zero
    <3>1. Over(Times(Zero, p), p) = Zero /\ Times(Zero, p) = Zero
      BY <1>2, TimesLaws
    <3> QED  BY <3>1, <2>3
  <2>5. Minus(l, worth) = l /\ Plus(b, Over(worth, p)) = b /\ Plus(c, worth) = c
    BY <2>1, <2>3, <2>4, <1>1, <1>2, PlusLaws
  <2> QED  BY <2>5, <1>1, <1>4, <1>6, <1>7
<1>8. CASE ~Leq(l, Zero)
  <2>1. /\ Over(l, p) \in Rational /\ Times(Over(l, p), p) = l
        /\ Times(q, p) \in Rational /\ Times(p, q) = Times(q, p) /\ Over(Times(q, p), p) = q
    <3>1. Over(l, p) \in Rational /\ Times(q, p) \in Rational
      BY <1>1, <1>2, Closed
    <3>2. Times(Over(l, p), p) = l
      BY <1>1, <1>2, TimesLaws
    <3>3. Times(p, q) = Times(q, p) /\ Over(Times(q, p), p) = q
      BY <1>2, TimesLaws
    <3> QED  BY <3>1, <3>2, <3>3
  <2>2. worth = Times(take, p) /\ Over(worth, p) = take
    <3>1. CASE Leq(q, Over(l, p))
      <4>1. Leq(Times(q, p), Times(Over(l, p), p))
        BY <3>1, <2>1, <1>2, OrderLaws, MoreLaws
      <4>2. take = q /\ worth = Times(q, p)
        BY <3>1, <4>1, <2>1, <1>1, <1>3, <1>5, OrderLaws DEF Least
      <4> QED  BY <4>2, <2>1
    <3>2. CASE ~Leq(q, Over(l, p))
      <4>1. Leq(Times(Over(l, p), p), Times(q, p))
        BY <3>2, <2>1, <1>2, OrderLaws, MoreLaws
      <4>2. take = Over(l, p) /\ worth = l
        BY <3>2, <4>1, <2>1, <1>3, <1>5 DEF Least
      <4> QED  BY <4>2, <2>1
    <3> QED  BY <3>1, <3>2
  <2> QED  BY <2>2, <1>4, <1>6, <1>8
<1> QED  BY <1>7, <1>8

LEMMA WorthIs ==
    ASSUME NEW amount \in NonNegatives, NEW levels, Ends(levels)
    PROVE  ForWorth(Exact, amount, levels) = ForQuote(Exact, amount, levels)
<1> DEFINE L == Len(levels)
           Turns(f, n) == f = [k \in 0..n |-> IF k = 0 THEN Untouched(amount)
                                              ELSE TakeWorth(Exact, f[k - 1], levels[k])]
<1>1. /\ levels \in Seq(MetLevel) /\ L \in Nat
      /\ \A k \in 1..L : levels[k] \in MetLevel /\ levels[k].quantity \in Positives
  BY DEF Ends
<1>2. PICK spent : QuoteWalk(Exact, spent, amount, levels) /\ ForQuote(Exact, amount, levels) = spent[L]
  BY <1>1, ForQuoteIs, ExactSized
<1>3. /\ spent \in [0..L -> Walk(Exact)] /\ spent[0] = Untouched(amount)
      /\ \A k \in 1..L : spent[k] = TakeQuote(Exact, spent[k - 1], levels[k])
  BY <1>2 DEF QuoteWalk
<1> HIDE DEF L
<1>4. \A k \in 1..L : spent[k] = TakeWorth(Exact, spent[k - 1], levels[k])
  <2>1. ASSUME NEW k \in 1..L PROVE spent[k] = TakeWorth(Exact, spent[k - 1], levels[k])
    <3>1. spent[k - 1] \in Walk(Exact)
      BY <1>1, <1>3
    <3> QED  BY <3>1, <1>1, <1>3, TakesWorth
  <2> QED  BY <2>1
<1>5. Turns(spent, L)
  BY <1>1, <1>3, <1>4
<1>6. PICK after : Turns(after, L) /\ ForWorth(Exact, amount, levels) = after[L]
  <2>1. \E after : Turns(after, L)
    BY <1>5
  <2> QED  BY <2>1, Zenon DEF ForWorth, L
<1>7. after[0] = Untouched(amount)
      /\ \A k \in 1..L : after[k] = TakeWorth(Exact, after[k - 1], levels[k])
  BY <1>1, <1>6
<1>8. \A k \in 0..L : after[k] = spent[k]
  <2> DEFINE Bad == {k \in 0..L : after[k] # spent[k]}
  <2>1. SUFFICES ASSUME Bad # {} PROVE FALSE
    OBVIOUS
  <2>2. PICK k \in 1..L : k \in Bad /\ (k - 1) \notin Bad
    <3>1. Bad \in SUBSET (0..L) /\ 0 \notin Bad
      BY <1>3, <1>7
    <3> HIDE DEF Bad
    <3> QED  BY <1>1, <2>1, <3>1, FirstBreak
  <2>3. after[k - 1] = spent[k - 1]
    BY <1>1, <2>2
  <2> QED  BY <2>2, <2>3, <1>4, <1>7
<1> QED  BY <1>1, <1>2, <1>6, <1>8

\* The walk back for what a target is before the fee.
Target(walk, op, fee, levels, t, required) ==
    /\ walk \in Walk(Exact) /\ OnBook(walk, levels)
    /\ \E gross \in NonNegatives :
          /\ Times(gross, Minus(One, fee)) = t
          /\ Leq(Taken(op, walk), gross)
          /\ walk.left = Zero => Taken(op, walk) = gross
    /\ required = IF walk.left = Zero THEN Given(op, walk) ELSE None

LEMMA RequiredIs ==
    ASSUME NEW levels \in Seq(MetLevel), Ends(levels), levels # <<>>, NEW leg, leg.fee \in Share,
           NEW t \in NonNegatives
    PROVE  \E walk : Target(walk, leg.op, leg.fee, levels, t, RequiredInput(Exact, leg, levels, t))
<1>1. PICK keep \in Positives : keep = Minus(One, leg.fee)
  BY ShareFactors
<1>2. t \in Rational /\ keep \in Rational /\ Less(Zero, keep)
  BY DEF NonNegatives, Positives
<1>3. PICK gross \in NonNegatives : gross = Over(t, keep) /\ Times(gross, keep) = t
  <2>1. Over(t, keep) \in NonNegatives
    BY <1>2, SignLaws
  <2>2. Times(Over(t, keep), keep) = t
    BY <1>2, TimesLaws
  <2> QED  BY <2>1, <2>2
<1>4. PICK walk \in Walk(Exact) : /\ walk = Back(leg.op, gross, levels) /\ OnBook(walk, levels)
                           /\ Plus(Taken(leg.op, walk), walk.left) = gross
  BY WalkKeeps
<1>5. Taken(leg.op, walk) \in NonNegatives /\ walk.left \in NonNegatives
  BY GivenIs, WalkIs
<1>6. Leq(Taken(leg.op, walk), gross) /\ (walk.left = Zero => Taken(leg.op, walk) = gross)
  BY <1>4, <1>5, KeptIs
<1>7. RequiredInput(Exact, leg, levels, t) = IF walk.left = Zero THEN Given(leg.op, walk) ELSE None
  <2>1. CASE leg.op = "SELL_BASE"
    <3>1. walk = ForWorth(Exact, Over(t, Minus(One, leg.fee)), levels)
      BY <2>1, <1>1, <1>3, <1>4, WorthIs DEF Back
    <3> QED  BY <2>1, <3>1 DEF RequiredInput, Given, Add, Subtract, Multiply, Divide, Rounded
  <2>2. CASE leg.op # "SELL_BASE"
    <3>1. walk = ForBase(Exact, Over(t, Minus(One, leg.fee)), levels)
      BY <2>2, <1>1, <1>3, <1>4 DEF Back
    <3> QED  BY <2>2, <3>1 DEF RequiredInput, Given, Add, Subtract, Multiply, Divide, Rounded
  <2> QED  BY <2>1, <2>2
<1> QED  BY <1>1, <1>3, <1>4, <1>6, <1>7 DEF Target

(* No more comes out than was aimed at of what is not above what that needs. *)
LEMMA NoMoreOut ==
    ASSUME NEW levels \in Seq(MetLevel), Ends(levels), levels # <<>>, NEW leg, leg.fee \in Share,
           NEW t \in NonNegatives, NEW w \in Walk(Exact), OnBook(w, levels), NEW y \in NonNegatives,
           Leq(Given(leg.op, w), y),
           RequiredInput(Exact, leg, levels, t) = None \/ Leq(y, RequiredInput(Exact, leg, levels, t))
    PROVE  Leq(Times(Taken(leg.op, w), Minus(One, leg.fee)), t)
<1>1. PICK walk : Target(walk, leg.op, leg.fee, levels, t, RequiredInput(Exact, leg, levels, t))
  BY RequiredIs
<1>2. PICK gross \in NonNegatives : /\ Times(gross, Minus(One, leg.fee)) = t
                                    /\ Leq(Taken(leg.op, walk), gross)
  BY <1>1 DEF Target
<1>3. walk \in Walk(Exact) /\ OnBook(walk, levels)
  BY <1>1 DEF Target
<1>4. /\ Given(leg.op, w) \in Rational /\ Taken(leg.op, w) \in Rational
      /\ Given(leg.op, walk) \in Rational /\ Taken(leg.op, walk) \in Rational
      /\ Given(leg.op, walk) \in NonNegatives /\ gross \in Rational /\ y \in Rational
  BY <1>3, GivenIs DEF NonNegatives
<1>5. Leq(Taken(leg.op, w), Taken(leg.op, walk))
  <2>1. CASE walk.left = Zero
    <3>1. RequiredInput(Exact, leg, levels, t) = Given(leg.op, walk)
      BY <1>1, <2>1 DEF Target
    <3>2. Leq(y, Given(leg.op, walk))
      BY <3>1, <1>4, NoneIs
    <3>3. Leq(Given(leg.op, w), Given(leg.op, walk))
      BY <3>2, <1>4, OrderLaws
    <3> QED  BY <3>3, <1>3, OnCurve
  <2>2. CASE walk.left # Zero
    <3>1. Abreast(w, walk)
      BY <1>3, AnyAbreast
    <3>2. Taken(leg.op, w) = Taken(leg.op, walk) \/ Less(Taken(leg.op, w), Taken(leg.op, walk))
      BY <3>1, <2>2, AbreastIs
    <3> QED  BY <3>2, <1>4, OrderLaws, MoreLaws
  <2> QED  BY <2>1, <2>2
<1>6. Leq(Taken(leg.op, w), gross)
  BY <1>2, <1>4, <1>5, OrderLaws
<1>7. PICK keep \in Rational : keep = Minus(One, leg.fee) /\ Leq(Zero, keep)
  BY ShareFactors, MoreLaws, ZeroOne DEF Positives
<1>8. Leq(Times(Taken(leg.op, w), keep), Times(gross, keep))
  BY <1>4, <1>6, <1>7, OrderLaws
<1> QED  BY <1>2, <1>7, <1>8

(* What a target needs is no less than what brought no more than it.        *)
LEMMA NoLessIn ==
    ASSUME NEW levels \in Seq(MetLevel), Ends(levels), levels # <<>>, NEW leg, leg.fee \in Share,
           NEW t \in NonNegatives, NEW w \in Walk(Exact), OnBook(w, levels),
           Leq(Times(Taken(leg.op, w), Minus(One, leg.fee)), t)
    PROVE  \/ RequiredInput(Exact, leg, levels, t) = None
           \/ /\ RequiredInput(Exact, leg, levels, t) \in NonNegatives
              /\ Leq(Given(leg.op, w), RequiredInput(Exact, leg, levels, t))
<1>1. PICK walk : Target(walk, leg.op, leg.fee, levels, t, RequiredInput(Exact, leg, levels, t))
  BY RequiredIs
<1>2. SUFFICES ASSUME walk.left = Zero
               PROVE  /\ RequiredInput(Exact, leg, levels, t) \in NonNegatives
                      /\ Leq(Given(leg.op, w), RequiredInput(Exact, leg, levels, t))
  BY <1>1 DEF Target
<1>3. PICK gross \in NonNegatives : /\ Times(gross, Minus(One, leg.fee)) = t
                                    /\ Taken(leg.op, walk) = gross
  BY <1>1, <1>2 DEF Target
<1>4. walk \in Walk(Exact) /\ OnBook(walk, levels) /\ RequiredInput(Exact, leg, levels, t) = Given(leg.op, walk)
  BY <1>1, <1>2 DEF Target
<1>5. PICK keep \in Rational : keep = Minus(One, leg.fee) /\ Less(Zero, keep)
  BY ShareFactors DEF Positives
<1>6. Taken(leg.op, w) \in Rational /\ gross \in Rational
  BY GivenIs DEF NonNegatives
<1>7. Leq(Taken(leg.op, w), gross)
  <2>1. SUFFICES ASSUME Less(gross, Taken(leg.op, w)) PROVE FALSE
    BY <1>6, OrderLaws
  <2>2. PICK a \in Rational, b \in Rational : a = Times(gross, keep) /\ b = Times(Taken(leg.op, w), keep)
    BY <1>5, <1>6, Closed
  <2>3. Less(a, b)
    BY <2>1, <2>2, <1>5, <1>6, OrderLaws
  <2>4. Leq(b, a)
    BY <2>2, <1>3, <1>5
  <2> QED  BY <2>2, <2>3, <2>4, OrderLaws
<1>8. Leq(Given(leg.op, w), Given(leg.op, walk))
  BY <1>3, <1>4, <1>7, OnCurve
<1> QED  BY <1>4, <1>8, GivenIs

-----------------------------------------------------------------------------
(* SizeIsLargest: a leg that converts without a remainder.                 *)

\* Leg i makes exactly z of x.
ExactLeg(legs, i, pass, x, z) ==
    /\ x \in NonNegatives /\ z \in NonNegatives
    /\ legs[i].book /\ legs[i].fee \in Share /\ RulesOK(RulesOf(legs[i]))
    /\ Ends(LevelsOf(Exact, legs, i, pass)) /\ LevelsOf(Exact, legs, i, pass) # <<>>
    /\ \E q : /\ Orders(RulesOf(legs[i]), q, LevelsOf(Exact, legs, i, pass))
              /\ Given(legs[i].op, ForBase(Exact, q, LevelsOf(Exact, legs, i, pass))) = x
              /\ Times(Taken(legs[i].op, ForBase(Exact, q, LevelsOf(Exact, legs, i, pass))),
                       Minus(One, legs[i].fee)) = z

CapacityOf(legs, i, pass) == Capacity(Exact, legs[i], LevelsOf(Exact, legs, i, pass), RulesOf(legs[i]))
RequiredOf(legs, i, pass, t) == RequiredInput(Exact, legs[i], LevelsOf(Exact, legs, i, pass), t)

LEMMA CapacityCovers ==
    ASSUME NEW legs, NEW i, NEW pass, NEW x, NEW z, ExactLeg(legs, i, pass, x, z)
    PROVE  CapacityOf(legs, i, pass) \in NonNegatives /\ Leq(x, CapacityOf(legs, i, pass))
<1>1. PICK levels, rules, leg : /\ levels = LevelsOf(Exact, legs, i, pass) /\ rules = RulesOf(legs[i])
                                /\ leg = legs[i]
  OBVIOUS
<1>2. Ends(levels) /\ RulesOK(rules)
  BY <1>1 DEF ExactLeg
<1>3. PICK q : Orders(rules, q, levels) /\ Given(leg.op, ForBase(Exact, q, levels)) = x
  BY <1>1 DEF ExactLeg
<1>4. Capacity(Exact, leg, levels, rules) \in NonNegatives /\ Leq(x, Capacity(Exact, leg, levels, rules))
  BY <1>2, <1>3, CapacityIs
<1> QED  BY <1>1, <1>4 DEF CapacityOf

LEMMA RequiredCovers ==
    ASSUME NEW legs, NEW i, NEW pass, NEW x, NEW z, ExactLeg(legs, i, pass, x, z),
           NEW t \in NonNegatives
    PROVE  /\ RequiredOf(legs, i, pass, t) \in NonNegatives \cup {None}
           /\ Leq(z, t) => \/ RequiredOf(legs, i, pass, t) = None
                           \/ /\ RequiredOf(legs, i, pass, t) \in NonNegatives
                              /\ Leq(x, RequiredOf(legs, i, pass, t))
<1>1. PICK levels, rules, leg : /\ levels = LevelsOf(Exact, legs, i, pass) /\ rules = RulesOf(legs[i])
                                /\ leg = legs[i]
  OBVIOUS
<1>2. levels \in Seq(MetLevel) /\ Ends(levels) /\ levels # <<>> /\ leg.fee \in Share
  BY <1>1 DEF ExactLeg, Ends
<1>3. PICK q : /\ Orders(rules, q, levels) /\ Given(leg.op, ForBase(Exact, q, levels)) = x
               /\ Times(Taken(leg.op, ForBase(Exact, q, levels)), Minus(One, leg.fee)) = z
  BY <1>1 DEF ExactLeg
<1>4. PICK w \in Walk(Exact) : w = ForBase(Exact, q, levels) /\ OnBook(w, levels)
  BY <1>2, <1>3, BaseAt DEF Orders, InLimits
<1>5. PICK required : required = RequiredInput(Exact, leg, levels, t)
  OBVIOUS
<1>6. required \in NonNegatives \cup {None}
  <2>1. PICK walk : Target(walk, leg.op, leg.fee, levels, t, required)
    BY <1>2, <1>5, RequiredIs
  <2>2. walk \in Walk(Exact) /\ required = IF walk.left = Zero THEN Given(leg.op, walk) ELSE None
    BY <2>1 DEF Target
  <2> QED  BY <2>2, GivenIs
<1>7. Leq(z, t) => required = None \/ (required \in NonNegatives /\ Leq(x, required))
  BY <1>2, <1>3, <1>4, <1>5, NoLessIn
<1> QED  BY <1>1, <1>5, <1>6, <1>7 DEF RequiredOf

(* Given no less, and no more than its capacity, it makes no less, and no   *)
(* more than any target that what it is given suffices for.                 *)
LEMMA LegCarries ==
    ASSUME NEW legs, NEW i, NEW pass, NEW x, NEW z, ExactLeg(legs, i, pass, x, z),
           NEW y \in NonNegatives, Leq(x, y), Leq(y, CapacityOf(legs, i, pass)),
           NEW order, order = Leg(Exact, legs[i], y, "depth", legs[i].fee, LevelsOf(Exact, legs, i, pass),
                                  RulesOf(legs[i]))
    PROVE  /\ order.executable /\ order.output \in NonNegatives /\ Leq(z, order.output)
           /\ \A t \in NonNegatives :
                 RequiredOf(legs, i, pass, t) = None \/ Leq(y, RequiredOf(legs, i, pass, t))
                     => Leq(order.output, t)
<1>1. PICK levels, rules, leg : /\ levels = LevelsOf(Exact, legs, i, pass) /\ rules = RulesOf(legs[i])
                                /\ leg = legs[i]
  OBVIOUS
<1>2. /\ Ends(levels) /\ levels \in Seq(MetLevel) /\ levels # <<>> /\ leg.fee \in Share
      /\ RulesOK(rules)
  BY <1>1 DEF ExactLeg, Ends
<1>3. PICK q : /\ Orders(rules, q, levels) /\ Given(leg.op, ForBase(Exact, q, levels)) = x
               /\ Times(Taken(leg.op, ForBase(Exact, q, levels)), Minus(One, leg.fee)) = z
  BY <1>1 DEF ExactLeg
<1>4. PICK r : /\ Brings(order, leg.op, leg.fee, levels, rules, r)
               /\ Leq(q, r) /\ Leq(Given(leg.op, ForBase(Exact, r, levels)), y)
  <2>1. Leq(y, Capacity(Exact, leg, levels, rules)) /\ order = Leg(Exact, leg, y, "depth", leg.fee, levels, rules)
    BY <1>1 DEF CapacityOf
  <2> QED  BY <2>1, <1>2, <1>3, LegFits
<1>5. Orders(rules, r, levels) /\ order.executable
  BY <1>4 DEF Brings
<1>6. PICK u \in Walk(Exact) : u = ForBase(Exact, q, levels) /\ OnBook(u, levels) /\ u.base = q
  BY <1>2, <1>3, BaseAt DEF Orders, InLimits
<1>7. PICK w \in Walk(Exact) : w = ForBase(Exact, r, levels) /\ OnBook(w, levels) /\ w.base = r
  BY <1>2, <1>5, BaseAt DEF Orders, InLimits
<1>8. PICK keep \in Rational :
          keep = Minus(One, leg.fee) /\ Leq(Zero, keep) /\ keep \in NonNegatives
  BY <1>2, ShareFactors, MoreLaws, ZeroOne, SignLaws DEF Positives
<1>9. order.output = Times(Taken(leg.op, w), keep) /\ z = Times(Taken(leg.op, u), keep)
  BY <1>3, <1>4, <1>6, <1>7, <1>8 DEF Brings
<1>10. /\ Taken(leg.op, w) \in NonNegatives /\ Taken(leg.op, w) \in Rational
       /\ Taken(leg.op, u) \in Rational
  BY GivenIs
<1>11. order.output \in NonNegatives
  BY <1>8, <1>9, <1>10, SignLaws
<1>12. Leq(z, order.output)
  <2>1. Leq(Taken(leg.op, u), Taken(leg.op, w))
    BY <1>2, <1>4, <1>6, <1>7, OnCurve
  <2> QED  BY <2>1, <1>8, <1>9, <1>10, OrderLaws
<1>13. ASSUME NEW t \in NonNegatives,
              RequiredOf(legs, i, pass, t) = None \/ Leq(y, RequiredOf(legs, i, pass, t))
       PROVE  Leq(order.output, t)
  <2>1. RequiredInput(Exact, leg, levels, t) = None \/ Leq(y, RequiredInput(Exact, leg, levels, t))
    BY <1>1, <1>13 DEF RequiredOf
  <2>2. Leq(Given(leg.op, w), y)
    BY <1>4, <1>7
  <2>3. Leq(Times(Taken(leg.op, w), Minus(One, leg.fee)), t)
    BY <2>1, <2>2, <1>2, <1>7, NoMoreOut
  <2> QED  BY <2>3, <1>8, <1>9
<1> QED  BY <1>5, <1>11, <1>12, <1>13

\* A pass that walks the books under the rules.
WalksBooks(pass) == PassOK(pass) /\ pass.reference = FALSE /\ pass.mode = "depth"

LEMMA LevelsEnd ==
    ASSUME NEW legs, NEW i, legs[i] \in LegType, NEW pass, PassOK(pass)
    PROVE  Ends(LevelsOf(Exact, legs, i, pass))
<1>1. PICK haircut \in Share, shock \in Share :
          LevelsOf(Exact, legs, i, pass) = Effective(Exact, legs[i], haircut, shock)
  BY ZeroShare DEF LevelsOf, PassOK
<1>2. PICK levels : levels = Effective(Exact, legs[i], haircut, shock)
  OBVIOUS
<1>3. PICK leg \in LegType : leg = legs[i]
  OBVIOUS
<1>4. levels \in Seq(MetLevel) /\ Len(levels) = Len(leg.levels)
      /\ \A k \in 1..Len(leg.levels) : levels[k].quantity \in Positives
  <2>1. /\ Effective(Exact, leg, haircut, shock) \in Seq(MetLevel)
        /\ Len(Effective(Exact, leg, haircut, shock)) = Len(leg.levels)
        /\ \A k \in 1..Len(leg.levels) : Effective(Exact, leg, haircut, shock)[k].quantity \in Positives
    BY EffectiveExact
  <2> QED  BY <2>1, <1>2, <1>3
<1> QED  BY <1>1, <1>2, <1>4 DEF Ends

LEMMA RulesAre ==
    ASSUME NEW leg \in LegType, OwnFilters(leg)
    PROVE  RulesOK(RulesOf(leg))
  BY TypedFiltersOK, NormalisedType DEF RulesOf

(* The legs of a run that leaves nothing unspent are exact.                 *)
LEMMA ExactRun ==
    ASSUME NEW pass, WalksBooks(pass), NEW legs, LegsOK(legs, pass), NEW n \in Nat, n = Len(legs),
           \A i \in 1..n : OwnFilters(legs[i]),
           NEW amount \in NonNegatives,
           NEW run, Chained(Exact, run, legs, amount, pass, n), run.executable,
           \A i \in 1..Len(run.done) : run.done[i].unspent = Zero, NEW i \in 1..n
    PROVE  ExactLeg(legs, i, pass, Entering(run.done, amount, i), Entering(run.done, amount, i + 1))
<1>1. Len(run.done) = n /\ i \in 1..Len(run.done) /\ run.done[i].executable /\ legs[i].book
  BY DEF Chained
<1>2. PICK x \in NonNegatives, order \in LegResult(Exact) :
          /\ x = Entering(run.done, amount, i) /\ order = run.done[i]
          /\ order = PassLeg(Exact, legs, i, x, pass)
  <2>1. LegOfRun(run, legs, amount, pass, i)
    BY <1>1, RunLeg
  <2> QED  BY <2>1 DEF LegOfRun
<1>3. PICK leg \in LegType : leg = legs[i] /\ OwnFilters(leg)
  BY DEF LegsOK
<1>4. PICK levels : levels = LevelsOf(Exact, legs, i, pass) /\ Ends(levels)
  BY <1>3, LevelsEnd DEF WalksBooks
<1>5. PICK rules : rules = RulesOf(leg) /\ RulesOK(rules)
  BY <1>3, RulesAre
<1>6. PICK fee \in Share : fee = leg.fee
  BY <1>3 DEF LegType, Share
<1>7. order = Leg(Exact, leg, x, "depth", fee, levels, rules)
  BY <1>2, <1>3, <1>4, <1>5, <1>6 DEF PassLeg, PassFee, PassRules, WalksBooks
<1>8. order.executable /\ order.unspent = Zero /\ order.output \in NonNegatives
  BY <1>1, <1>2 DEF LegResult, Sized
<1>9. levels # <<>> /\ \E q : Brings(order, leg.op, fee, levels, rules, q)
                              /\ Given(leg.op, ForBase(Exact, q, levels)) = x
  <2>1. Ends(levels) /\ RulesOK(rules) /\ order.executable /\ order.unspent = Zero
    BY <1>4, <1>5, <1>8
  <2>2. order = Leg(Exact, leg, x, "depth", fee, levels, rules)
    BY <1>7
  <2>3. levels # <<>>
    BY <2>1, <2>2, ExactIs
  <2>4. \E q : Brings(order, leg.op, fee, levels, rules, q) /\ Given(leg.op, ForBase(Exact, q, levels)) = x
    BY <2>1, <2>2, ExactIs
  <2> QED  BY <2>3, <2>4
<1>10. PICK q : Brings(order, leg.op, fee, levels, rules, q) /\ Given(leg.op, ForBase(Exact, q, levels)) = x
  BY <1>9
<1>11. Entering(run.done, amount, i + 1) = order.output
  <2>1. i + 1 # 1 /\ (i + 1) - 1 = i
    OBVIOUS
  <2> QED  BY <2>1, <1>2 DEF Entering
<1>12. ExactLeg(legs, i, pass, x, order.output)
  BY <1>1, <1>3, <1>4, <1>5, <1>6, <1>8, <1>9, <1>10 DEF ExactLeg, Brings
<1> QED  BY <1>2, <1>11, <1>12

-----------------------------------------------------------------------------
(* SizeIsLargest: capacities carried back to the start.                    *)

\* x holds what enters each leg of an exact run, and what leaves the last.
ExactRoute(legs, pass, n, x) ==
    /\ WalksBooks(pass) /\ LegsOK(legs, pass) /\ n = Len(legs)
    /\ \A i \in 1..n : ExactLeg(legs, i, pass, x[i], x[i + 1])

Aim == NonNegatives \cup {None}

\* What leg i's capacity asks of the legs before it: target[k] of leg i - k.
TargetsOf(target, legs, i, pass) ==
    /\ target[0] = CapacityOf(legs, i, pass) /\ target[0] \in Aim
    /\ \A k \in 1..(i - 1) :
          /\ target[k - 1] \in Aim /\ target[k] \in Aim
          /\ target[k] = IF target[k - 1] = None THEN None
                         ELSE RequiredOf(legs, i - k, pass, target[k - 1])

LEMMA TargetsExist ==
    ASSUME NEW legs, NEW pass, NEW n \in Nat, NEW x, ExactRoute(legs, pass, n, x), NEW i \in 1..n,
           NEW met, \A j \in 1..n : met[j] = LevelsOf(Exact, legs, j, pass)
    PROVE  \E target : TargetsOf(target, legs, i, pass) /\ CarriedBack(Exact, legs, i, met) = target[i - 1]
<1> DEFINE First == Capacity(Exact, legs[i], met[i], RulesOf(legs[i]))
           Turn(t, k) == CarriedOver(Exact, legs[i - k], met[i - k], t)
           Turns(f, l) == f = [k \in 0..l |-> IF k = 0 THEN First ELSE Turn(f[k - 1], k)]
<1>1. PICK m \in Nat : m = i - 1
  OBVIOUS
<1> DEFINE step == [pair \in Aim \X (1..m) |-> Turn(pair[1], pair[2])]
<1>2. First \in Aim /\ First = CapacityOf(legs, i, pass)
  <2>1. First = CapacityOf(legs, i, pass)
    BY DEF CapacityOf
  <2>2. ExactLeg(legs, i, pass, x[i], x[i + 1])
    BY DEF ExactRoute
  <2> QED  BY <2>1, <2>2, CapacityCovers DEF Aim
<1>3. ASSUME NEW t \in Aim, NEW k \in 1..m
      PROVE  /\ Turn(t, k) \in Aim
             /\ Turn(t, k) = IF t = None THEN None ELSE RequiredOf(legs, i - k, pass, t)
  <2>1. PICK j \in 1..n : j = i - k /\ met[j] = LevelsOf(Exact, legs, j, pass)
    BY <1>1
  <2>2. Turn(t, k) = IF t = None THEN None ELSE RequiredOf(legs, i - k, pass, t)
    BY <2>1 DEF CarriedOver, RequiredOf
  <2>3. ExactLeg(legs, j, pass, x[j], x[j + 1])
    BY DEF ExactRoute
  <2>4. t # None => RequiredOf(legs, j, pass, t) \in Aim
    BY <2>3, RequiredCovers DEF Aim
  <2> QED  BY <2>1, <2>2, <2>4 DEF Aim
<1> HIDE DEF First, Turn
<1>4. step \in [Aim \X (1..m) -> Aim]
  BY <1>3
<1>5. ASSUME NEW t \in Aim, NEW k \in 1..m PROVE step[<<t, k>>] = Turn(t, k)
  OBVIOUS
<1> HIDE DEF step
<1>6. PICK g : g \in LoopOf(step, First, m, Aim)
  BY <1>2, <1>4, LoopExists
<1>7. Turns(g, m)
  <2>1. g \in [0..m -> Aim] /\ g[0] = First
    BY <1>6 DEF LoopOf
  <2>2. ASSUME NEW k \in 1..m PROVE g[k] = Turn(g[k - 1], k)
    <3>1. g[k - 1] \in Aim /\ g[k] = step[<<g[k - 1], k>>]
      BY <1>6 DEF LoopOf
    <3> QED  BY <3>1, <1>5
  <2> QED  BY <2>1, <2>2
<1>8. PICK target : Turns(target, i - 1) /\ CarriedBack(Exact, legs, i, met) = target[i - 1]
  <2>1. \E target : Turns(target, i - 1)
    BY <1>1, <1>7
  <2> QED  BY <2>1, Zenon DEF CarriedBack, First, Turn
<1>9. target[0] = First /\ \A k \in 1..m : target[k] = Turn(target[k - 1], k)
  BY <1>1, <1>8
<1>10. \A k \in 0..m : target[k] \in Aim
  <2>1. \A k \in 1..m : target[k - 1] \in Aim => target[k] = step[<<target[k - 1], k>>]
    BY <1>5, <1>9
  <2>2. target[0] \in Aim
    BY <1>2, <1>9
  <2> QED  BY <2>1, <2>2, <1>4, LoopStays
<1>11. TargetsOf(target, legs, i, pass)
  <2>1. ASSUME NEW k \in 1..m
        PROVE  /\ target[k - 1] \in Aim /\ target[k] \in Aim
               /\ target[k] = IF target[k - 1] = None THEN None
                              ELSE RequiredOf(legs, i - k, pass, target[k - 1])
    <3>1. k - 1 \in 0..m /\ k \in 0..m
      OBVIOUS
    <3> QED  BY <3>1, <1>3, <1>9, <1>10
  <2> QED  BY <2>1, <1>1, <1>2, <1>9 DEF TargetsOf
<1> QED  BY <1>8, <1>11

(* No target is below what an exact run gives its leg.                      *)
LEMMA TargetsCover ==
    ASSUME NEW legs, NEW pass, NEW n \in Nat, NEW x, ExactRoute(legs, pass, n, x), NEW i \in 1..n,
           NEW target, TargetsOf(target, legs, i, pass)
    PROVE  target[i - 1] = None \/ (target[i - 1] \in NonNegatives /\ Leq(x[1], target[i - 1]))
<1> DEFINE Covers(k) == target[k] = None \/ (target[k] \in NonNegatives /\ Leq(x[i - k], target[k]))
           Bad == {k \in 0..(i - 1) : ~Covers(k)}
<1>1. PICK m \in Nat : m = i - 1
  OBVIOUS
<1>2. Covers(0)
  <2>1. ExactLeg(legs, i, pass, x[i], x[i + 1])
    BY DEF ExactRoute
  <2>2. Leq(x[i], target[0]) /\ target[0] \in NonNegatives
    BY <2>1, CapacityCovers DEF TargetsOf
  <2>3. i - 0 = i
    OBVIOUS
  <2> QED  BY <2>2, <2>3
<1>3. ASSUME NEW k \in 1..m, Covers(k - 1) PROVE Covers(k)
  <2>1. PICK j \in 1..n : j = i - k /\ j + 1 = i - (k - 1)
    BY <1>1
  <2>2. ExactLeg(legs, j, pass, x[j], x[j + 1])
    BY DEF ExactRoute
  <2>3. target[k] = IF target[k - 1] = None THEN None ELSE RequiredOf(legs, i - k, pass, target[k - 1])
    BY <1>1 DEF TargetsOf
  <2>4. CASE target[k - 1] = None
    BY <2>3, <2>4
  <2>5. CASE target[k - 1] # None
    <3>1. target[k - 1] \in NonNegatives /\ Leq(x[j + 1], target[k - 1])
      BY <2>1, <2>5, <1>3
    <3>2. target[k] = RequiredOf(legs, j, pass, target[k - 1])
      BY <2>1, <2>3, <2>5
    <3>3. target[k] = None \/ (target[k] \in NonNegatives /\ Leq(x[j], target[k]))
      BY <3>1, <3>2, <2>2, RequiredCovers
    <3> QED  BY <3>3, <2>1
  <2> QED  BY <2>4, <2>5
<1>4. Covers(m)
  <2>1. SUFFICES ASSUME Bad # {} PROVE FALSE
    BY <1>1
  <2>2. PICK k \in 1..m : k \in Bad /\ (k - 1) \notin Bad
    <3>1. Bad \in SUBSET (0..m) /\ 0 \notin Bad
      BY <1>1, <1>2
    <3> HIDE DEF Bad
    <3> QED  BY <2>1, <3>1, FirstBreak
  <2>3. ~Covers(k) /\ Covers(k - 1)
    BY <1>1, <2>2
  <2> HIDE DEF Covers
  <2> QED  BY <1>3, <2>3
<1>5. i - m = 1
  BY <1>1
<1> QED  BY <1>1, <1>4, <1>5

-----------------------------------------------------------------------------
(* SizeIsLargest: the scarcest leg, and its trial.                         *)

\* A target of leg i, carried back to what enters the route for it.
Asks(target, legs, i, pass, s) == TargetsOf(target, legs, i, pass) /\ target[i - 1] = s

\* No more than any capacity asks of the start, and no less than x does.
StartsAt(start, legs, pass, n, x) ==
    /\ start \in [1..n -> Aim] /\ start[1] # None
    /\ \A i \in 1..n : /\ start[i] = None \/ Leq(x[1], start[i])
                       /\ \E target : Asks(target, legs, i, pass, start[i])

LEMMA StartsAre ==
    ASSUME NEW legs, NEW pass, NEW n \in Nat \ {0}, NEW x, ExactRoute(legs, pass, n, x),
           NEW met, \A j \in 1..n : met[j] = LevelsOf(Exact, legs, j, pass)
    PROVE  StartsAt(StartsOf(Exact, legs, met), legs, pass, n, x)
<1>1. legs \in Seq(LegType) /\ n = Len(legs) /\ DOMAIN legs = 1..n
  BY DEF ExactRoute, LegsOK
<1>2. PICK start : start = [i \in 1..n |-> CarriedBack(Exact, legs, i, met)]
                   /\ start = StartsOf(Exact, legs, met)
  BY <1>1 DEF StartsOf
<1>3. ASSUME NEW i \in 1..n
      PROVE  /\ start[i] \in Aim
             /\ start[i] = None \/ Leq(x[1], start[i])
             /\ \E target : Asks(target, legs, i, pass, start[i])
             /\ i = 1 => start[i] # None
  <2>1. PICK target : TargetsOf(target, legs, i, pass) /\ start[i] = target[i - 1]
    BY <1>2, TargetsExist
  <2>2. target[i - 1] = None \/ (target[i - 1] \in NonNegatives /\ Leq(x[1], target[i - 1]))
    BY <2>1, TargetsCover
  <2>3. CapacityOf(legs, i, pass) \in NonNegatives
    BY CapacityCovers DEF ExactRoute
  <2>4. i = 1 => target[i - 1] = CapacityOf(legs, i, pass)
    BY <2>1 DEF TargetsOf
  <2> QED  BY <2>1, <2>2, <2>3, <2>4, NoneIs DEF Aim, Asks
<1>4. start \in [1..n -> Aim] /\ start[1] # None
  <2>1. \A i \in 1..n : start[i] \in Aim
    BY <1>3
  <2>2. DOMAIN start = 1..n /\ start = [i \in 1..n |-> start[i]] /\ 1 \in 1..n
    BY <1>2
  <2>3. start[1] # None
    BY <2>2, <1>3
  <2> QED  BY <2>1, <2>2, <2>3
<1> QED  BY <1>2, <1>3, <1>4 DEF StartsAt

\* Of the first m starts, one that no other is below.
Scarce(start, i, m) ==
    /\ i \in 1..m /\ start[i] # None
    /\ \A j \in 1..m : \/ start[j] = None \/ Less(start[i], start[j])
                       \/ (start[i] = start[j] /\ i <= j)

LEMMA ScarceExists ==
    ASSUME NEW n \in Nat \ {0}, NEW start \in [1..n -> Aim], start[1] # None
    PROVE  \E i : Scarce(start, i, n)
<1> DEFINE Bad == {k \in 0..(n - 1) : ~ \E i : Scarce(start, i, k + 1)}
<1>1. Scarce(start, 1, 0 + 1)
  BY DEF Scarce
<1>2. ASSUME NEW m \in 1..(n - 1), NEW i, Scarce(start, i, m) PROVE \E k : Scarce(start, k, m + 1)
  <2>1. /\ i \in 1..m /\ i \in 1..n /\ m + 1 \in 1..n /\ start[i] # None
        /\ \A j \in 1..m : \/ start[j] = None \/ Less(start[i], start[j])
                           \/ (start[i] = start[j] /\ i <= j)
    BY <1>2 DEF Scarce
  <2>2. PICK a \in NonNegatives : a = start[i] /\ a \in Rational
    BY <2>1 DEF Aim, NonNegatives
  <2>3. CASE start[m + 1] = None
    <3>1. Scarce(start, i, m + 1)
      BY <2>1, <2>3 DEF Scarce
    <3> QED  BY <3>1
  <2>4. CASE start[m + 1] # None
    <3>1. PICK b \in NonNegatives : b = start[m + 1] /\ b \in Rational
      BY <2>1, <2>4 DEF Aim, NonNegatives
    <3>2. CASE Less(b, a)
      <4>1. ASSUME NEW j \in 1..m PROVE start[j] = None \/ Less(b, start[j])
        <5>1. CASE start[j] = None
          BY <5>1
        <5>2. CASE start[j] # None
          <6>1. PICK c \in Rational : c = start[j]
            BY <2>1, <5>2 DEF Aim, NonNegatives
          <6>2. Less(a, c) \/ a = c
            BY <2>1, <2>2, <6>1, <5>2
          <6>3. Less(b, c)
            BY <2>2, <3>1, <3>2, <6>1, <6>2, MixLaws, MoreLaws
          <6> QED  BY <6>1, <6>3
        <5> QED  BY <5>1, <5>2
      <4>2. Scarce(start, m + 1, m + 1)
        BY <3>1, <2>4, <4>1 DEF Scarce
      <4> QED  BY <4>2
    <3>3. CASE ~Less(b, a)
      <4>1. Less(a, b) \/ a = b
        BY <2>2, <3>1, <3>3, MoreLaws
      <4>2. Scarce(start, i, m + 1)
        BY <2>1, <2>2, <3>1, <4>1 DEF Scarce
      <4> QED  BY <4>2
    <3> QED  BY <3>2, <3>3
  <2> QED  BY <2>3, <2>4
<1>3. Bad = {}
  <2>1. SUFFICES ASSUME Bad # {} PROVE FALSE
    OBVIOUS
  <2>2. PICK m \in Nat : m = n - 1
    OBVIOUS
  <2>3. PICK k \in 1..m : k \in Bad /\ (k - 1) \notin Bad
    <3>1. Bad \in SUBSET (0..m) /\ 0 \notin Bad
      BY <1>1, <2>2
    <3> HIDE DEF Bad
    <3> QED  BY <2>1, <3>1, FirstBreak
  <2>4. (k - 1) + 1 = k
    OBVIOUS
  <2>5. k \in 1..(n - 1) /\ ~ (\E i : Scarce(start, i, k + 1)) /\ \E i : Scarce(start, i, k)
    BY <2>2, <2>3, <2>4
  <2> HIDE DEF Bad
  <2> QED  BY <1>2, <2>5
<1>4. (n - 1) + 1 = n /\ n - 1 \in 0..(n - 1)
  OBVIOUS
<1> QED  BY <1>3, <1>4

LEMMA ScarcestIs ==
    ASSUME NEW n \in Nat \ {0}, NEW start \in [1..n -> Aim], start[1] # None
    PROVE  /\ Scarcest(start) \in 1..n /\ start[Scarcest(start)] \in NonNegatives
           /\ \A j \in 1..n : start[j] = None \/ Leq(start[Scarcest(start)], start[j])
<1> DEFINE Right(i) == /\ start[i] # None
                       /\ \A j \in DOMAIN start : start[j] = None
                              \/ Less(start[i], start[j])
                              \/ (start[i] = start[j] /\ i <= j)
<1>1. \E i \in DOMAIN start : Right(i)
  BY ScarceExists DEF Scarce
<1>2. Scarcest(start) = CHOOSE i \in DOMAIN start : Right(i)
  BY DEF Scarcest
<1>3. PICK i : i = Scarcest(start) /\ i \in DOMAIN start /\ Right(i)
  <2> HIDE DEF Right
  <2> QED  BY <1>1, <1>2
<1>4. i \in 1..n /\ start[i] # None
  BY <1>3
<1>5. PICK a \in NonNegatives : a = start[i] /\ a \in Rational
  BY <1>4 DEF Aim, NonNegatives
<1>6. ASSUME NEW j \in 1..n, start[j] # None PROVE Leq(a, start[j])
  <2>1. PICK c \in Rational : c = start[j]
    BY <1>6 DEF Aim, NonNegatives
  <2>2. Less(a, c) \/ a = c
    BY <1>3, <1>5, <1>6, <2>1
  <2> QED  BY <1>5, <2>1, <2>2, MoreLaws, OrderLaws
<1> QED  BY <1>3, <1>4, <1>5, <1>6

(* A size that no capacity asks less than fits every leg of the route.      *)
LEMMA SizeFits ==
    ASSUME NEW legs, NEW pass, NEW n \in Nat \ {0}, NEW x, ExactRoute(legs, pass, n, x),
           NEW start, StartsAt(start, legs, pass, n, x),
           NEW s \in NonNegatives, Leq(x[1], s),
           \A j \in 1..n : start[j] = None \/ Leq(s, start[j])
    PROVE  RunRoute(Exact, legs, s, pass).executable
<1>1. PassOK(pass) /\ LegsOK(legs, pass) /\ n \in Nat /\ n = Len(legs)
      /\ pass.reference = FALSE /\ pass.mode = "depth"
  BY DEF ExactRoute, WalksBooks
<1>2. PICK after : RunTurns(Exact, after, legs, s, pass, n) /\ RunRoute(Exact, legs, s, pass) = after[n]
  BY <1>1, RunRouteTurns, ExactSized
<1> DEFINE Within(k, y) == \A j \in (k + 1)..n : \A target :
                               Asks(target, legs, j, pass, start[j]) =>
                                   target[j - (k + 1)] = None \/ Leq(y, target[j - (k + 1)])
           Fine(k) == /\ after[k].executable /\ Leq(x[k + 1], after[k].current)
                      /\ Within(k, after[k].current)
           Bad == {k \in 0..n : ~Fine(k)}
<1>3. Fine(0)
  <2>1. after[0].executable /\ after[0].current = s
    BY <1>2 DEF RunTurns, Entered
  <2>2. ASSUME NEW j \in (0 + 1)..n, NEW target, Asks(target, legs, j, pass, start[j])
        PROVE  target[j - (0 + 1)] = None \/ Leq(s, target[j - (0 + 1)])
    <3>1. target[j - 1] = start[j] /\ j \in 1..n /\ j - (0 + 1) = j - 1
      BY <2>2 DEF Asks
    <3> QED  BY <3>1
  <2>3. 0 + 1 = 1
    OBVIOUS
  <2> QED  BY <2>1, <2>2, <2>3
<1>4. ASSUME NEW k \in 1..n, Fine(k - 1) PROVE Fine(k)
  <2>1. PICK run \in RouteRun(Exact) : run = after[k - 1] /\ run.executable
    BY <1>2, <1>4 DEF RunTurns
  <2>2. PICK y \in NonNegatives : y = run.current /\ Leq(x[k], y) /\ Within(k - 1, y)
    <3>1. (k - 1) + 1 = k /\ run.current \in NonNegatives
      BY DEF RouteRun, Sized
    <3> QED  BY <3>1, <2>1, <1>4
  <2>3. ExactLeg(legs, k, pass, x[k], x[k + 1])
    BY DEF ExactRoute
  <2>4. Leq(y, CapacityOf(legs, k, pass))
    <3>1. PICK target : Asks(target, legs, k, pass, start[k])
      BY DEF StartsAt
    <3>2. target[0] = CapacityOf(legs, k, pass)
      BY <3>1 DEF Asks, TargetsOf
    <3>3. k \in ((k - 1) + 1)..n /\ k - ((k - 1) + 1) = 0
      OBVIOUS
    <3>4. target[0] = None \/ Leq(y, target[0])
      BY <2>2, <3>1, <3>3
    <3>5. CapacityOf(legs, k, pass) \in NonNegatives
      BY <2>3, CapacityCovers
    <3> QED  BY <3>2, <3>4, <3>5, NoneIs
  <2>5. PICK order : order = Leg(Exact, legs[k], y, "depth", legs[k].fee, LevelsOf(Exact, legs, k, pass),
                                 RulesOf(legs[k]))
    OBVIOUS
  <2>6. /\ order.executable /\ order.output \in NonNegatives /\ Leq(x[k + 1], order.output)
        /\ \A t \in NonNegatives :
              RequiredOf(legs, k, pass, t) = None \/ Leq(y, RequiredOf(legs, k, pass, t))
                  => Leq(order.output, t)
    BY <2>2, <2>3, <2>4, <2>5, LegCarries
  <2>7. after[k].executable /\ after[k].current = order.output
    <3>1. after[k] = Continued(Exact, run, legs[k], LevelsOf(Exact, legs, k, pass), pass)
      BY <1>2, <2>1 DEF RunTurns
    <3>2. legs[k].book
      BY <2>3 DEF ExactLeg
    <3>3. after[k] = Converted(run, order)
      BY <1>1, <2>1, <2>2, <2>5, <3>1, <3>2 DEF Continued
    <3> QED  BY <3>3, <2>6 DEF Converted
  <2>8. ASSUME NEW j \in (k + 1)..n, NEW target, Asks(target, legs, j, pass, start[j])
        PROVE  target[j - (k + 1)] = None \/ Leq(order.output, target[j - (k + 1)])
    <3>1. PICK i \in 1..(j - 1) : i = j - k
      OBVIOUS
    <3>2. j - ((k - 1) + 1) = i /\ i - 1 = j - (k + 1) /\ j - i = k /\ j \in ((k - 1) + 1)..n
      BY <3>1
    <3>3. target[i] = None \/ Leq(y, target[i])
      BY <2>2, <2>8, <3>2
    <3>4. /\ target[i - 1] \in Aim
          /\ target[i] = IF target[i - 1] = None THEN None ELSE RequiredOf(legs, k, pass, target[i - 1])
      BY <2>8, <3>1, <3>2 DEF Asks, TargetsOf
    <3>5. target[i - 1] = None \/ Leq(order.output, target[i - 1])
      BY <2>6, <3>3, <3>4 DEF Aim
    <3> QED  BY <3>2, <3>5
  <2> QED  BY <2>6, <2>7, <2>8
<1>5. Fine(n)
  <2>1. SUFFICES ASSUME Bad # {} PROVE FALSE
    OBVIOUS
  <2>2. PICK k \in 1..n : k \in Bad /\ (k - 1) \notin Bad
    <3>1. Bad \in SUBSET (0..n) /\ 0 \notin Bad
      BY <1>3
    <3> HIDE DEF Bad
    <3> QED  BY <2>1, <3>1, FirstBreak
  <2>3. ~Fine(k) /\ Fine(k - 1)
    BY <2>2
  <2> HIDE DEF Fine
  <2> QED  BY <1>4, <2>3
<1> QED  BY <1>2, <1>5

(* The estimate is no less than what enters an exact run.                   *)
LEMMA EstimateCovers ==
    ASSUME NEW legs, NEW pass, NEW n \in Nat \ {0}, NEW x, ExactRoute(legs, pass, n, x),
           DepthPass(pass) = pass
    PROVE  Leq(x[1], Estimate(Exact, legs, pass).size)
<1>1. legs \in Seq(LegType) /\ n = Len(legs) /\ DOMAIN legs = 1..n
  BY DEF ExactRoute, LegsOK
<1>2. PICK met : met = [i \in DOMAIN legs |-> LevelsOf(Exact, legs, i, pass)]
                 /\ \A i \in 1..n : met[i] = LevelsOf(Exact, legs, i, pass)
  <2> DEFINE levels == [i \in DOMAIN legs |-> LevelsOf(Exact, legs, i, pass)]
  <2>1. \A i \in 1..n : i \in DOMAIN legs
    BY <1>1
  <2>2. \A i \in 1..n : levels[i] = LevelsOf(Exact, legs, i, pass)
    BY <2>1, Zenon
  <2> QED  BY <2>2, Zenon
<1>3. PICK start : start = StartsOf(Exact, legs, met) /\ StartsAt(start, legs, pass, n, x)
  BY <1>2, StartsAre
<1>4. PICK i \in 1..n : i = Scarcest(start) /\ start[i] \in NonNegatives
                        /\ \A j \in 1..n : start[j] = None \/ Leq(start[i], start[j])
  <2>1. start \in [1..n -> Aim] /\ start[1] # None
    BY <1>3 DEF StartsAt
  <2> QED  BY <2>1, ScarcestIs
<1>5. PICK s \in NonNegatives : s = start[i] /\ Leq(x[1], s)
  <2>1. start[i] = None \/ Leq(x[1], start[i])
    BY <1>3 DEF StartsAt
  <2> QED  BY <2>1, <1>4, NoneIs
<1>6. RunRoute(Exact, legs, s, pass).executable
  BY <1>3, <1>4, <1>5, SizeFits
<1>7. Estimate(Exact, legs, pass) = LargestOf(Exact, legs, pass, start)
  <2>1. \A j \in DOMAIN legs : legs[j].book
    BY <1>1 DEF ExactRoute, ExactLeg
  <2>2. {j \in DOMAIN legs : ~legs[j].book} = {}
    BY <2>1
  <2> QED  BY <2>2, <1>2, <1>3, Zenon DEF Estimate
<1>8. LargestOf(Exact, legs, pass, start) = Tried(s, i, RunRoute(Exact, legs, s, pass))
  BY <1>4, <1>5, Zenon DEF LargestOf
<1>9. Tried(s, i, RunRoute(Exact, legs, s, pass)) = [size |-> s, leg |-> i]
  BY <1>6 DEF Tried
<1> QED  BY <1>5, <1>7, <1>8, <1>9

LEMMA AnswerIsLargest ==
    ASSUME NEW legs \in Routes, NEW amount \in Amounts, NEW mode \in Modes, mode # "top",
           NEW answer, answer = Simulated(Exact, legs, amount, mode), answer.executable,
           \A i \in DOMAIN answer.legs : answer.legs[i].unspent = Zero
    PROVE  Leq(amount, answer.size)
<1>1. PICK pass : pass = Pass(mode)
  OBVIOUS
<1>2. PICK run, reference : AnswerOf(Exact, answer, legs, amount, mode, run, reference)
  BY AnswerIs, ExactSized
<1>3. WalksBooks(pass) /\ LegsOK(legs, pass) /\ amount \in NonNegatives /\ legs # <<>>
      /\ legs \in Seq(LegType) /\ \A i \in 1..Len(legs) : OwnFilters(legs[i])
  <2>1. /\ PassOK(pass) /\ pass.reference = FALSE /\ pass.reference \in BOOLEAN
        /\ pass.mode = "depth"
    BY <1>1, PassIs
  <2> QED  BY <2>1, RoutesOK, AmountsOK, ExactSized DEF WalksBooks
<1>4. PICK n \in Nat \ {0} : n = Len(legs)
  BY <1>3
<1>5. /\ Chained(Exact, run, legs, amount, pass, n) /\ run.executable /\ answer.legs = run.done
      /\ answer.size = Estimate(Exact, legs, pass).size
  BY <1>1, <1>2, <1>4 DEF AnswerOf, RunIs, Add, Subtract, Multiply, Divide, Rounded
<1>6. \A i \in 1..Len(run.done) : run.done[i].unspent = Zero
  <2>1. run.done \in Seq(LegResult(Exact))
    BY <1>5 DEF Chained, RouteRun, Sized
  <2>2. DOMAIN answer.legs = 1..Len(run.done)
    BY <2>1, <1>5
  <2> QED  BY <2>2, <1>5
<1>7. PICK x : /\ x[1] = amount
               /\ \A i \in 1..(n + 1) : x[i] = Entering(run.done, amount, i)
  <2> DEFINE entering == [i \in 1..(n + 1) |-> Entering(run.done, amount, i)]
  <2>1. 1 \in 1..(n + 1) /\ Entering(run.done, amount, 1) = amount
    BY DEF Entering
  <2>2. entering[1] = amount /\ \A i \in 1..(n + 1) : entering[i] = Entering(run.done, amount, i)
    BY <2>1
  <2> QED  BY <2>2
<1>8. ASSUME NEW i \in 1..n PROVE ExactLeg(legs, i, pass, x[i], x[i + 1])
  <2>1. i \in 1..(n + 1) /\ i + 1 \in 1..(n + 1)
    OBVIOUS
  <2>2. ExactLeg(legs, i, pass, Entering(run.done, amount, i), Entering(run.done, amount, i + 1))
    BY <1>3, <1>4, <1>5, <1>6, ExactRun
  <2> QED  BY <2>1, <2>2, <1>7
<1>9. ExactRoute(legs, pass, n, x)
  BY <1>3, <1>4, <1>8 DEF ExactRoute
<1>10. DepthPass(pass) = pass
  <2>1. Pass(mode).mode = "depth"
    BY PassIs
  <2> QED  BY <2>1, <1>1 DEF DepthPass, Pass
<1>11. Leq(x[1], Estimate(Exact, legs, pass).size)
  BY <1>9, <1>10, EstimateCovers
<1> QED  BY <1>5, <1>7, <1>11

(***************************************************************************)
(* For every route, size, stress, fee and filter, wherever rounding        *)
(* changed nothing in the result: a size that the route converts without a *)
(* remainder is not above the largest size reported with it                *)
(* (_estimate_max_with_leg, _leg_capacity, _required_input).               *)
(***************************************************************************)
THEOREM SimulatorSizeIsLargest == Spec => [](Unrounded => SizeIsLargest)
<1>1. ASSUME SInv, Unrounded PROVE SizeIsLargest
  <2>1. CASE result = Unsettled
    BY <2>1 DEF Unsettled, SizeIsLargest
  <2>2. CASE \E amount \in Amounts, mode \in Modes : Answered(route, amount, mode)
    <3>1. PICK amount \in Amounts, mode \in Modes :
              result = Simulated(Exact, route, amount, mode) /\ ask.amount = amount /\ ask.mode = mode
      BY <1>1, <2>2 DEF Answered, Unrounded
    <3>2. route \in Routes
      BY <1>1 DEF SInv
    <3>3. ASSUME result.executable, mode # "top",
                 \A i \in DOMAIN result.legs : result.legs[i].unspent = Zero
          PROVE  Leq(amount, result.size)
      BY <3>1, <3>2, <3>3, AnswerIsLargest
    <3>4. \A x : Widened(x) = x
      BY <1>1 DEF Widened
    <3> QED  BY <3>1, <3>3, <3>4 DEF SizeIsLargest
  <2> QED  BY <1>1, <2>1, <2>2 DEF SInv
<1> QED  BY <1>1, SInvHolds, PTL
=============================================================================
