---------------------------- MODULE RatioProofs -----------------------------
(***************************************************************************)
(* Facts about the fractions of Ratio: they are in lowest terms, so equal  *)
(* values are equal fractions, and they form an ordered field.             *)
(***************************************************************************)
EXTENDS Ratio, FiniteSetTheorems, WellFoundedInduction, TLAPS

Smaller == {pair \in Nat \X Nat : pair[1] < pair[2]}

(* A nonempty set of naturals has a least element.                          *)
LEMMA LeastNatural ==
    ASSUME NEW S \in SUBSET Nat, S # {}
    PROVE  \E n \in S : \A m \in S : n <= m
<1>1. OpToRel(<, Nat) = Smaller
  BY DEF OpToRel, Smaller
<1>2. IsWellFoundedOn(Smaller, Nat)
  BY <1>1, NatLessThanWellFounded, Zenon
<1>3. PICK x \in S : \A y \in S : ~(<<y, x>> \in Smaller)
  BY <1>2, WFMin, Zenon
<1>4. ASSUME NEW y \in S PROVE x <= y
  <2>1. <<y, x>> \notin Smaller /\ <<y, x>> \in Nat \X Nat
    BY <1>3
  <2> QED  BY <2>1 DEF Smaller
<1> QED  BY <1>4

\* The numbers of a key: fractions, and Infinity.
Value == {x \in Int \X Nat : x[2] > 0 \/ x[1] > 0}

(* Values are ordered: Less is the opposite of Leq, Same is Leq both ways.  *)
LEMMA ValuesOrdered ==
    ASSUME NEW x \in Value, NEW y \in Value
    PROVE  /\ Less(x, y) <=> ~Leq(y, x)
           /\ Same(x, y) <=> Leq(x, y) /\ Leq(y, x)
           /\ Leq(x, y) \/ Leq(y, x)
<1>1. x[1] * y[2] \in Int /\ y[1] * x[2] \in Int
  BY DEF Value
<1> QED  BY <1>1 DEF Less, Leq, Same

LEMMA LeqTransitive ==
    ASSUME NEW x \in Value, NEW y \in Value, NEW z \in Value, Leq(x, y), Leq(y, z)
    PROVE  Leq(x, z)
<1>1. PICK a \in Int, b \in Nat : x[1] = a /\ x[2] = b /\ (b > 0 \/ a > 0)
  BY DEF Value
<1>2. PICK c \in Int, d \in Nat : y[1] = c /\ y[2] = d /\ (d > 0 \/ c > 0)
  BY DEF Value
<1>3. PICK e \in Int, f \in Nat : z[1] = e /\ z[2] = f /\ (f > 0 \/ e > 0)
  BY DEF Value
<1>4. a * d <= c * b /\ c * f <= e * d
  BY <1>1, <1>2, <1>3 DEF Leq
<1>5. a * f <= e * b
  <2>1. CASE d > 0
    <3>1. (a * d) * f <= (c * b) * f /\ (c * f) * b <= (e * d) * b
      BY <1>4
    <3>2. (c * b) * f = (c * f) * b /\ (a * d) * f = (a * f) * d /\ (e * d) * b = (e * b) * d
      OBVIOUS
    <3>3. (a * f) * d <= (e * b) * d
      BY <3>1, <3>2
    <3> QED  BY <3>3, <2>1
  <2>2. CASE d = 0
    <3>1. c > 0 /\ c * f <= 0
      BY <1>2, <1>4, <2>2
    <3>2. f = 0
      BY <3>1
    <3> QED  BY <3>2, <1>3
  <2> QED  BY <2>1, <2>2
<1> QED  BY <1>1, <1>3, <1>5 DEF Leq

(* Division and remainder.                                                  *)
LEMMA Division ==
    ASSUME NEW k \in Nat, NEW g \in Nat \ {0}
    PROVE  /\ k % g \in 0..(g - 1) /\ k \div g \in Nat
           /\ (k < g => k % g = k) /\ (g <= k => k \div g > 0)
OBVIOUS

\* What Euclid's algorithm needs for pairs whose second number is at most n.
GcdTo(f, n) ==
    \A p \in Nat \X (0..n) :
        f[p] = IF p[2] = 0 THEN p[1] ELSE f[<<p[2], p[1] % p[2]>>]

LEMMA GcdUpTo ==
    ASSUME NEW n \in Nat
    PROVE  \E f : GcdTo(f, n)
<1> DEFINE Bad == {m \in Nat : ~ \E f : GcdTo(f, m)}
<1>1. SUFFICES ASSUME Bad # {} PROVE FALSE
  OBVIOUS
<1>2. PICK m \in Bad : \A k \in Bad : m <= k
  BY <1>1, LeastNatural
<1>3. m # 0
  <2>1. GcdTo([p \in Nat \X (0..0) |-> p[1]], 0)
    BY DEF GcdTo
  <2> QED  BY <2>1
<1>4. PICK f : GcdTo(f, m - 1)
  <2>1. m - 1 \in Nat /\ ~(m <= m - 1)
    BY <1>3
  <2> QED  BY <2>1, <1>2
<1> DEFINE g == [p \in Nat \X (0..m) |-> IF p[2] = m THEN f[<<m, p[1] % m>>] ELSE f[p]]
<1>5. ASSUME NEW p \in Nat \X (0..m)
      PROVE  g[p] = IF p[2] = 0 THEN p[1] ELSE g[<<p[2], p[1] % p[2]>>]
  <2>1. p[1] \in Nat /\ p[2] \in 0..m /\ p = <<p[1], p[2]>>
    OBVIOUS
  <2>2. p[2] # 0 => p[1] % p[2] \in 0..(p[2] - 1)
    BY <2>1
  <2>3. ASSUME p[2] # 0 PROVE g[<<p[2], p[1] % p[2]>>] = f[<<p[2], p[1] % p[2]>>]
    <3>1. /\ <<p[2], p[1] % p[2]>> \in Nat \X (0..m)
          /\ <<p[2], p[1] % p[2]>>[2] # m
      BY <2>1, <2>2, <2>3
    <3> QED  BY <3>1
  <2>4. CASE p[2] = m
    BY <2>3, <2>4, <1>3
  <2>5. CASE p[2] # m
    <3>1. p \in Nat \X (0..(m - 1))
      BY <2>1, <2>5
    <3>2. f[p] = IF p[2] = 0 THEN p[1] ELSE f[<<p[2], p[1] % p[2]>>]
      BY <3>1, <1>4 DEF GcdTo
    <3> QED  BY <2>3, <2>5, <3>2
  <2> QED  BY <2>4, <2>5
<1>6. GcdTo(g, m)
  <2> HIDE DEF g
  <2> QED  BY <1>5 DEF GcdTo
<1> QED  BY <1>6

LEMMA GcdAgrees ==
    ASSUME NEW n \in Nat, NEW m \in Nat, NEW f, NEW g, GcdTo(f, n), GcdTo(g, m),
           NEW p \in Nat \X (0..n), p[2] <= m
    PROVE  f[p] = g[p]
<1> DEFINE Both == {k \in Nat : k <= n /\ k <= m}
           Bad == {k \in Both : \E a \in Nat : f[<<a, k>>] # g[<<a, k>>]}
<1>1. Bad = {}
  <2>1. SUFFICES ASSUME Bad # {} PROVE FALSE
    OBVIOUS
  <2>2. PICK k \in Bad : \A j \in Bad : k <= j
    <3>1. Bad \in SUBSET Nat
      OBVIOUS
    <3> HIDE DEF Bad
    <3> QED  BY <3>1, <2>1, LeastNatural
  <2>3. PICK a \in Nat : f[<<a, k>>] # g[<<a, k>>]
    OBVIOUS
  <2>4. <<a, k>> \in Nat \X (0..n) /\ <<a, k>> \in Nat \X (0..m)
    OBVIOUS
  <2>5. f[<<a, k>>] = IF k = 0 THEN a ELSE f[<<k, a % k>>]
    BY <2>4 DEF GcdTo
  <2>6. g[<<a, k>>] = IF k = 0 THEN a ELSE g[<<k, a % k>>]
    BY <2>4 DEF GcdTo
  <2>7. k # 0
    BY <2>3, <2>5, <2>6
  <2>8. a % k \in 0..(k - 1)
    BY <2>7, Division
  <2>9. a % k \in Both /\ a % k \notin Bad
    <3>1. k \in Both
      OBVIOUS
    <3> DEFINE r == a % k
    <3>2. r \in Both /\ ~(k <= r)
      <4>1. r \in 0..(k - 1)
        BY <2>8
      <4> HIDE DEF r
      <4> QED  BY <4>1, <3>1
    <3> HIDE DEF r, Bad, Both
    <3>3. r \notin Bad
      BY <3>2, <2>2
    <3> QED  BY <3>2, <3>3 DEF r
  <2> QED  BY <2>3, <2>5, <2>6, <2>7, <2>9
<1>2. p = <<p[1], p[2]>> /\ p[1] \in Nat /\ p[2] \in Both
  OBVIOUS
<1> QED  BY <1>1, <1>2

(* Gcd is the function that its definition describes.                       *)
LEMMA GcdIs ==
    ASSUME NEW a \in Nat, NEW b \in Nat
    PROVE  Gcd[<<a, b>>] = IF b = 0 THEN a ELSE Gcd[<<b, a % b>>]
<1> DEFINE Part(n) == CHOOSE f : GcdTo(f, n)
           whole == [p \in Nat \X Nat |-> Part(p[2])[p]]
           Solves(f) == f = [p \in Nat \X Nat |->
                                IF p[2] = 0 THEN p[1] ELSE f[<<p[2], p[1] % p[2]>>]]
<1>1. ASSUME NEW n \in Nat PROVE GcdTo(Part(n), n)
  BY GcdUpTo
<1>2. ASSUME NEW p \in Nat \X Nat
      PROVE  whole[p] = IF p[2] = 0 THEN p[1] ELSE whole[<<p[2], p[1] % p[2]>>]
  <2> DEFINE q == <<p[2], p[1] % p[2]>>
  <2>1. p[1] \in Nat /\ p[2] \in Nat /\ p \in Nat \X (0..p[2])
    OBVIOUS
  <2>2. whole[p] = IF p[2] = 0 THEN p[1] ELSE Part(p[2])[q]
    <3> HIDE DEF Part
    <3>1. whole[p] = Part(p[2])[p]
      OBVIOUS
    <3> QED  BY <3>1, <2>1, <1>1 DEF GcdTo
  <2>3. ASSUME p[2] # 0 PROVE Part(p[2])[q] = whole[q]
    <3>1. p[1] % p[2] \in 0..(p[2] - 1)
      BY <2>1, <2>3
    <3>2. q \in Nat \X Nat /\ q \in Nat \X (0..p[2]) /\ q[2] \in Nat /\ q[2] <= q[2]
      BY <2>1, <3>1
    <3>3. whole[q] = Part(q[2])[q]
      <4> HIDE DEF Part, q
      <4> QED  BY <3>2
    <3> HIDE DEF Part, q, whole
    <3> QED  BY <1>1, <2>1, <3>2, <3>3, GcdAgrees
  <2> QED  BY <2>2, <2>3
<1>3. Solves(whole)
  <2> HIDE DEF Part
  <2>1. whole = [p \in Nat \X Nat |-> whole[p]]
    OBVIOUS
  <2> HIDE DEF whole
  <2> QED  BY <1>2, <2>1, Zenon
<1>4. Solves(Gcd)
  <2> HIDE DEF whole
  <2>1. Gcd = CHOOSE f : Solves(f)
    BY DEF Gcd
  <2> HIDE DEF Solves
  <2> QED  BY <2>1, <1>3
<1>5. <<a, b>> \in Nat \X Nat /\ <<a, b>>[1] = a /\ <<a, b>>[2] = b
  OBVIOUS
<1> QED  BY <1>4, <1>5

(* The divisor is at most either number that is not zero.                   *)
LEMMA GcdBounds ==
    ASSUME NEW a \in Nat, NEW b \in Nat
    PROVE  /\ Gcd[<<a, b>>] \in Nat
           /\ b > 0 => Gcd[<<a, b>>] \in 1..b
           /\ a > 0 => Gcd[<<a, b>>] \in 1..a
<1> DEFINE Fine(x, y) == /\ Gcd[<<x, y>>] \in Nat
                         /\ y > 0 => Gcd[<<x, y>>] \in 1..y
                         /\ x > 0 => Gcd[<<x, y>>] \in 1..x
           Bad == {y \in Nat : \E x \in Nat : ~Fine(x, y)}
<1>1. SUFFICES ASSUME Bad # {} PROVE FALSE
  BY Zenon
<1>2. PICK y \in Bad : \A z \in Bad : y <= z
  BY <1>1, LeastNatural
<1>3. PICK x \in Nat : ~Fine(x, y)
  BY <1>2
<1>4. Gcd[<<x, y>>] = IF y = 0 THEN x ELSE Gcd[<<y, x % y>>]
  BY GcdIs
<1>5. y > 0
  BY <1>3, <1>4
<1> DEFINE r == x % y
<1>6. r \in 0..(y - 1) /\ (x < y => r = x)
  BY <1>5, Division
<1>7. Fine(y, r)
  <2>1. r \notin Bad
    <3>1. r \in Nat /\ ~(y <= r)
      <4> HIDE DEF r
      <4> QED  BY <1>5, <1>6
    <3> HIDE DEF Bad, r
    <3> QED  BY <3>1, <1>2
  <2> QED  BY <2>1, <1>6
<1>8. Gcd[<<x, y>>] = Gcd[<<y, r>>]
  BY <1>4, <1>5
<1>9. x < y => r = x
  BY <1>6
<1> HIDE DEF r
<1> QED  BY <1>3, <1>5, <1>6, <1>7, <1>8, <1>9

Fraction == Nat \X (Nat \ {0})

LEMMA RatioType ==
    ASSUME NEW n \in Nat, NEW d \in Nat \ {0}
    PROVE  /\ Ratio(n, d) \in Fraction
           /\ n > 0 => Ratio(n, d)[1] > 0
<1> DEFINE g == Gcd[<<n, d>>]
<1>1. g \in 1..d /\ (n > 0 => g \in 1..n)
  BY GcdBounds
<1>2. Ratio(n, d) = <<n \div g, d \div g>>
  BY DEF Ratio, Abs
<1> HIDE DEF g
<1>3. ASSUME NEW k \in Nat PROVE k \div g \in Nat /\ (k >= g => k \div g > 0)
  <2>1. g \in Nat \ {0}
    BY <1>1
  <2> QED  BY <2>1, Division
<1> QED  BY <1>1, <1>2, <1>3 DEF Fraction

LEMMA FractionOps ==
    ASSUME NEW x \in Fraction, NEW y \in Fraction
    PROVE  /\ Plus(x, y) \in Fraction /\ Times(x, y) \in Fraction /\ Least(x, y) \in Fraction
           /\ x[1] > 0 => Plus(x, y)[1] > 0
           /\ y[1] > 0 => Plus(x, y)[1] > 0
           /\ y[1] > 0 => Over(x, y) \in Fraction
<1>1. PICK a \in Nat, b \in Nat \ {0} : x[1] = a /\ x[2] = b
  BY DEF Fraction
<1>2. PICK c \in Nat, d \in Nat \ {0} : y[1] = c /\ y[2] = d
  BY DEF Fraction
<1>3. /\ a * d \in Nat /\ c * b \in Nat /\ a * c \in Nat /\ b * d \in Nat \ {0}
      /\ (a > 0 => a * d > 0) /\ (c > 0 => c * b > 0) /\ (c > 0 => b * c \in Nat \ {0})
  <2>1. b * d > 0 /\ (a > 0 => a * d > 0) /\ (c > 0 => c * b > 0 /\ b * c > 0)
    OBVIOUS
  <2> QED  BY <2>1
<1>4. a * d + c * b \in Nat
  BY <1>3
<1>5. Plus(x, y) = Ratio(a * d + c * b, b * d) /\ Times(x, y) = Ratio(a * c, b * d)
  BY <1>1, <1>2 DEF Plus, Times
<1>6. Over(x, y) = Ratio(a * d, b * c)
  BY <1>1, <1>2 DEF Over
<1>7. Plus(x, y) \in Fraction /\ (a > 0 \/ c > 0 => Plus(x, y)[1] > 0)
  <2>1. a > 0 \/ c > 0 => a * d + c * b > 0
    BY <1>3
  <2> QED  BY <1>3, <1>4, <1>5, <2>1, RatioType
<1>8. Times(x, y) \in Fraction
  BY <1>3, <1>5, RatioType
<1>9. c > 0 => Over(x, y) \in Fraction
  BY <1>3, <1>6, RatioType
<1> QED  BY <1>1, <1>2, <1>7, <1>8, <1>9 DEF Least

-----------------------------------------------------------------------------
(* Lowest terms.                                                           *)

(* A product with a positive number determines the other factor.            *)
LEMMA Cancel ==
    ASSUME NEW a \in Int, NEW b \in Int, NEW c \in Nat \ {0}
    PROVE  /\ a * c = b * c => a = b
           /\ a * c <= b * c => a <= b
           /\ a * c < b * c => a < b
           /\ a < b => a * c < b * c
           /\ a <= b => a * c <= b * c
OBVIOUS

(* An exact quotient.                                                       *)
LEMMA Quotient ==
    ASSUME NEW m \in Int, NEW g \in Nat \ {0}
    PROVE  (m * g) \div g = m
OBVIOUS

Euclid(x, y, r) == \E k \in Nat : x = k * y + r

LEMMA Remainder ==
    ASSUME NEW x \in Nat, NEW y \in Nat \ {0}
    PROVE  Euclid(x, y, x % y)
<1>1. x \div y \in Nat /\ x = y * (x \div y) + (x % y)
  OBVIOUS
<1>2. PICK k \in Nat : k = x \div y
  BY <1>1
<1>3. PICK r \in Nat : r = x % y
  OBVIOUS
<1>4. y * k = k * y
  OBVIOUS
<1> QED  BY <1>1, <1>2, <1>3, <1>4 DEF Euclid

\* g divides both, and is a combination of them.
Divides(g, n) == \E k \in Nat : n = k * g
Combines(g, x, y) == \E u \in Int : \E v \in Int : g = u * x + v * y
DivisorOf(g, x, y) == Divides(g, x) /\ Divides(g, y) /\ Combines(g, x, y)

LEMMA DivisorStep ==
    ASSUME NEW x \in Nat, NEW y \in Nat, NEW r \in Nat, NEW g \in Nat,
           Euclid(x, y, r), DivisorOf(g, y, r)
    PROVE  DivisorOf(g, x, y)
<1>1. PICK k \in Nat : x = k * y + r
  BY DEF Euclid
<1>2. PICK m \in Nat : y = m * g
  BY DEF DivisorOf, Divides
<1>3. PICK n \in Nat : r = n * g
  BY DEF DivisorOf, Divides
<1>4. PICK u \in Int, v \in Int : g = u * y + v * r
  BY DEF DivisorOf, Combines
<1>5. Divides(g, x)
  <2>1. x = (k * m + n) * g
    BY <1>1, <1>2, <1>3
  <2> QED  BY <2>1 DEF Divides
<1>6. Combines(g, x, y)
  <2>1. r = x - k * y
    BY <1>1
  <2>2. g = u * y + v * (x - k * y)
    BY <1>4, <2>1
  <2>3. u * y + v * (x - k * y) = v * x + (u - v * k) * y
    OBVIOUS
  <2>4. u - v * k \in Int /\ g = v * x + (u - v * k) * y
    BY <2>2, <2>3
  <2> QED  BY <2>4 DEF Combines
<1> QED  BY <1>2, <1>5, <1>6 DEF DivisorOf, Divides

(* Gcd is the common divisor that the two numbers combine to.               *)
LEMMA GcdDivides ==
    ASSUME NEW a \in Nat, NEW b \in Nat
    PROVE  DivisorOf(Gcd[<<a, b>>], a, b)
<1> DEFINE Fine(x, y) == DivisorOf(Gcd[<<x, y>>], x, y)
           Bad == {y \in Nat : \E x \in Nat : ~Fine(x, y)}
<1>1. SUFFICES ASSUME Bad # {} PROVE FALSE
  BY Zenon
<1>2. PICK y \in Bad : \A z \in Bad : y <= z
  BY <1>1, LeastNatural
<1>3. PICK x \in Nat : ~Fine(x, y)
  BY <1>2
<1>4. Gcd[<<x, y>>] = IF y = 0 THEN x ELSE Gcd[<<y, x % y>>]
  BY GcdIs
<1>5. y # 0
  <2>1. SUFFICES ASSUME y = 0 PROVE FALSE
    OBVIOUS
  <2>2. Gcd[<<x, y>>] = x
    BY <1>4, <2>1
  <2>3. Divides(x, x)
    <3>1. x = 1 * x
      OBVIOUS
    <3> QED  BY <3>1 DEF Divides
  <2>4. Divides(x, y)
    <3>1. y = 0 * x
      BY <2>1
    <3> QED  BY <3>1 DEF Divides
  <2>5. Combines(x, x, y)
    <3>1. x = 1 * x + 0 * y
      BY <2>1
    <3> QED  BY <3>1 DEF Combines
  <2> QED  BY <2>2, <2>3, <2>4, <2>5, <1>3 DEF DivisorOf
<1> DEFINE r == x % y
<1>6. r \in 0..(y - 1) /\ Euclid(x, y, r)
  BY <1>5, Division, Remainder
<1>7. Fine(y, r)
  <2>1. r \notin Bad
    <3>1. r \in Nat /\ ~(y <= r)
      <4> HIDE DEF r
      <4> QED  BY <1>5, <1>6
    <3> HIDE DEF Bad, r
    <3> QED  BY <3>1, <1>2
  <2> QED  BY <2>1, <1>6
<1>8. Gcd[<<x, y>>] = Gcd[<<y, r>>]
  BY <1>4, <1>5
<1>9. Gcd[<<y, r>>] \in Nat
  BY <1>6, GcdBounds
<1> HIDE DEF r
<1> QED  BY <1>3, <1>5, <1>6, <1>7, <1>8, <1>9, DivisorStep

\* The terms have no common divisor.
Coprime(n, d) == \E u \in Int : \E v \in Int : u * n + v * d = 1

(* Fractions without a common divisor are equal when their values are.      *)
LEMMA LowestIsOne ==
    ASSUME NEW a \in Int, NEW b \in Nat \ {0}, NEW c \in Int, NEW d \in Nat \ {0},
           Coprime(a, b), Coprime(c, d), a * d = c * b
    PROVE  a = c /\ b = d
<1>1. ASSUME NEW p \in Int, NEW q \in Nat \ {0}, NEW s \in Int, NEW t \in Nat \ {0},
             Coprime(p, q), p * t = s * q
      PROVE  t >= q
  <2>1. PICK u \in Int, v \in Int : u * p + v * q = 1
    BY <1>1 DEF Coprime
  <2>2. t = (u * p + v * q) * t
    BY <2>1
  <2>3. (u * p + v * q) * t = u * (p * t) + v * q * t
    OBVIOUS
  <2>4. u * (p * t) + v * q * t = (u * s + v * t) * q
    BY <1>1
  <2>5. PICK k \in Int : k = u * s + v * t
    OBVIOUS
  <2>6. t = k * q
    BY <2>2, <2>3, <2>4, <2>5
  <2>7. k > 0
    BY <2>6
  <2> QED  BY <2>6, <2>7
<1>2. d >= b
  BY <1>1
<1>3. b >= d
  <2>1. c * b = a * d
    OBVIOUS
  <2> QED  BY <1>1, <2>1
<1>4. b = d
  BY <1>2, <1>3
<1> QED  BY <1>4, Cancel

(* What Ratio makes of a numerator and a positive denominator.              *)
LEMMA RatioIs ==
    ASSUME NEW n \in Int, NEW d \in Nat \ {0}
    PROVE  \E a \in Int, b \in Nat \ {0}, g \in Nat \ {0} :
               Ratio(n, d) = <<a, b>> /\ n = a * g /\ d = b * g /\ Coprime(a, b)
<1>1. PICK m \in Nat : m = Abs(n)
  BY DEF Abs
<1>2. PICK g \in Nat \ {0} : g = Gcd[<<m, d>>]
  BY GcdBounds
<1>3. DivisorOf(g, m, d)
  BY <1>2, GcdDivides
<1>4. PICK k \in Nat : m = k * g
  BY <1>3 DEF DivisorOf, Divides
<1>5. PICK b \in Nat : d = b * g
  BY <1>3 DEF DivisorOf, Divides
<1>6. b # 0
  BY <1>5
<1>7. PICK s \in {1, -1} : n = s * m /\ m = s * n
  <2>1. CASE n < 0
    BY <2>1, <1>1 DEF Abs
  <2>2. CASE ~(n < 0)
    BY <2>2, <1>1 DEF Abs
  <2> QED  BY <2>1, <2>2
<1>8. PICK a \in Int : a = s * k /\ k = s * a
  <2>1. CASE s = 1
    BY <2>1
  <2>2. CASE s = -1
    BY <2>2
  <2> QED  BY <2>1, <2>2
<1>9. n = a * g
  <2>1. s * m = s * (k * g) /\ s * (k * g) = (s * k) * g
    BY <1>4
  <2> QED  BY <2>1, <1>7, <1>8
<1>10. Ratio(n, d) = <<a, b>>
  <2>1. Ratio(n, d) = <<n \div g, d \div g>>
    BY <1>1, <1>2 DEF Ratio
  <2> QED  BY <2>1, <1>5, <1>9, Quotient
<1>11. Coprime(a, b)
  <2>1. PICK u \in Int, v \in Int : g = u * m + v * d
    BY <1>3 DEF DivisorOf, Combines
  <2>2. u * (k * g) + v * (b * g) = (u * k + v * b) * g
    OBVIOUS
  <2>3. 1 * g = (u * k + v * b) * g
    BY <2>1, <2>2, <1>4, <1>5
  <2>4. u * k + v * b \in Int /\ 1 \in Int
    OBVIOUS
  <2>5. u * k + v * b = 1
    BY <2>3, <2>4, Cancel
  <2>6. u * k = (u * s) * a
    BY <1>8
  <2>7. u * s \in Int /\ (u * s) * a + v * b = 1
    BY <2>5, <2>6
  <2> QED  BY <2>7 DEF Coprime
<1> QED  BY <1>6, <1>5, <1>9, <1>10, <1>11

(* Two ratios are equal when their values are.                              *)
LEMMA RatioSame ==
    ASSUME NEW n \in Int, NEW d \in Nat \ {0}, NEW m \in Int, NEW e \in Nat \ {0}
    PROVE  Ratio(n, d) = Ratio(m, e) <=> n * e = m * d
<1>1. PICK a \in Int, b \in Nat \ {0}, g \in Nat \ {0} :
          Ratio(n, d) = <<a, b>> /\ n = a * g /\ d = b * g /\ Coprime(a, b)
  BY RatioIs
<1>2. PICK p \in Int, q \in Nat \ {0}, h \in Nat \ {0} :
          Ratio(m, e) = <<p, q>> /\ m = p * h /\ e = q * h /\ Coprime(p, q)
  BY RatioIs
<1>3. n * e = (a * q) * (g * h) /\ m * d = (p * b) * (g * h)
  BY <1>1, <1>2
<1>4. g * h \in Nat \ {0}
  OBVIOUS
<1>5. n * e = m * d <=> a * q = p * b
  BY <1>3, <1>4, Cancel
<1>6. a * q = p * b => a = p /\ b = q
  BY <1>1, <1>2, LowestIsOne
<1> QED  BY <1>1, <1>2, <1>5, <1>6

-----------------------------------------------------------------------------
(* Arithmetic.                                                             *)

LEMMA RatioRational ==
    ASSUME NEW n \in Int, NEW d \in Nat \ {0}
    PROVE  Ratio(n, d) \in Rational
<1>1. PICK a \in Int, b \in Nat \ {0}, g \in Nat \ {0} :
          Ratio(n, d) = <<a, b>> /\ n = a * g /\ d = b * g /\ Coprime(a, b)
  BY RatioIs
<1>2. a * d = n * b
  BY <1>1
<1>3. Ratio(a, b) = <<a, b>>
  BY <1>1, <1>2, RatioSame
<1> QED  BY <1>1, <1>3 DEF Rational

LEMMA RationalForm ==
    ASSUME NEW x \in Rational
    PROVE  \E a \in Int, b \in Nat \ {0} : x = <<a, b>> /\ x = Ratio(a, b)
<1>1. x \in Int \X (Nat \ {0}) /\ x = Ratio(x[1], x[2])
  BY DEF Rational
<1> QED  BY <1>1

(* The operations are those of the values.                                  *)
LEMMA RatioOps ==
    ASSUME NEW n \in Int, NEW d \in Nat \ {0}, NEW m \in Int, NEW e \in Nat \ {0}
    PROVE  /\ Plus(Ratio(n, d), Ratio(m, e)) = Ratio(n * e + m * d, d * e)
           /\ Minus(Ratio(n, d), Ratio(m, e)) = Ratio(n * e - m * d, d * e)
           /\ Times(Ratio(n, d), Ratio(m, e)) = Ratio(n * m, d * e)
           /\ m > 0 => Over(Ratio(n, d), Ratio(m, e)) = Ratio(n * e, d * m)
           /\ Leq(Ratio(n, d), Ratio(m, e)) <=> n * e <= m * d
           /\ Less(Ratio(n, d), Ratio(m, e)) <=> n * e < m * d
<1>1. PICK a \in Int, b \in Nat \ {0}, g \in Nat \ {0} :
          Ratio(n, d) = <<a, b>> /\ n = a * g /\ d = b * g /\ Coprime(a, b)
  BY RatioIs
<1>2. PICK p \in Int, q \in Nat \ {0}, h \in Nat \ {0} :
          Ratio(m, e) = <<p, q>> /\ m = p * h /\ e = q * h /\ Coprime(p, q)
  BY RatioIs
<1>3. g * h \in Nat \ {0} /\ b * q \in Nat \ {0} /\ d * e \in Nat \ {0}
  OBVIOUS
<1>4. n * e = (a * q) * (g * h) /\ m * d = (p * b) * (g * h) /\ d * e = (b * q) * (g * h)
      /\ n * m = (a * p) * (g * h) /\ d * m = (b * p) * (g * h)
  BY <1>1, <1>2
<1>5. PICK i \in Nat \ {0} : i = g * h
  BY <1>3
<1>6. PICK s \in Int, t \in Int, v \in Nat \ {0}, w \in Int :
          s = a * q /\ t = p * b /\ v = b * q /\ w = a * p
  BY <1>3
<1>7. n * e = s * i /\ m * d = t * i /\ d * e = v * i /\ n * m = w * i /\ d * m = t * i
  BY <1>4, <1>5, <1>6
<1>8. v * i \in Nat \ {0}
  OBVIOUS
<1>9. ASSUME NEW k \in Int PROVE Ratio(k * i, v * i) = Ratio(k, v)
  <2>1. (k * i) * v = k * (v * i) /\ k * i \in Int
    OBVIOUS
  <2> QED  BY <2>1, <1>8, RatioSame
<1>10. Plus(Ratio(n, d), Ratio(m, e)) = Ratio(n * e + m * d, d * e)
  <2>1. Plus(Ratio(n, d), Ratio(m, e)) = Ratio(s + t, v)
    BY <1>1, <1>2, <1>6 DEF Plus
  <2>2. n * e + m * d = (s + t) * i /\ s + t \in Int
    BY <1>7
  <2> QED  BY <2>1, <2>2, <1>7, <1>9
<1>11. Minus(Ratio(n, d), Ratio(m, e)) = Ratio(n * e - m * d, d * e)
  <2>1. Minus(Ratio(n, d), Ratio(m, e)) = Ratio(s - t, v)
    BY <1>1, <1>2, <1>6 DEF Minus
  <2>2. n * e - m * d = (s - t) * i /\ s - t \in Int
    BY <1>7
  <2> QED  BY <2>1, <2>2, <1>7, <1>9
<1>12. Times(Ratio(n, d), Ratio(m, e)) = Ratio(n * m, d * e)
  <2>1. Times(Ratio(n, d), Ratio(m, e)) = Ratio(w, v)
    BY <1>1, <1>2, <1>6 DEF Times
  <2> QED  BY <2>1, <1>7, <1>9
<1>13. ASSUME m > 0 PROVE Over(Ratio(n, d), Ratio(m, e)) = Ratio(n * e, d * m)
  <2>1. p > 0
    BY <1>2, <1>13
  <2>2. b * p = t /\ t \in Nat \ {0}
    BY <2>1, <1>6
  <2>3. Over(Ratio(n, d), Ratio(m, e)) = Ratio(s, t)
    BY <2>2, <1>1, <1>2, <1>6 DEF Over
  <2>4. t * i \in Nat \ {0} /\ s * i \in Int /\ (s * i) * t = s * (t * i)
    BY <2>2
  <2>5. Ratio(s * i, t * i) = Ratio(s, t)
    BY <2>2, <2>4, RatioSame
  <2> QED  BY <2>3, <2>5, <1>7
<1>14. Leq(Ratio(n, d), Ratio(m, e)) <=> n * e <= m * d
  <2>1. Leq(Ratio(n, d), Ratio(m, e)) <=> s <= t
    BY <1>1, <1>2, <1>6 DEF Leq
  <2> QED  BY <2>1, <1>7, Cancel
<1>15. Less(Ratio(n, d), Ratio(m, e)) <=> n * e < m * d
  <2>1. Less(Ratio(n, d), Ratio(m, e)) <=> s < t
    BY <1>1, <1>2, <1>6 DEF Less
  <2> QED  BY <2>1, <1>7, Cancel
<1> QED  BY <1>10, <1>11, <1>12, <1>13, <1>14, <1>15

\* x is the fraction n / d.
Worth(x, n, d) == n \in Int /\ d \in Nat \ {0} /\ x = Ratio(n, d)

LEMMA WorthOps ==
    ASSUME NEW x, NEW n, NEW d, Worth(x, n, d), NEW y, NEW m, NEW e, Worth(y, m, e)
    PROVE  /\ Worth(Plus(x, y), n * e + m * d, d * e)
           /\ Worth(Minus(x, y), n * e - m * d, d * e)
           /\ Worth(Times(x, y), n * m, d * e)
           /\ m > 0 => Worth(Over(x, y), n * e, d * m)
<1>1. n \in Int /\ d \in Nat \ {0} /\ m \in Int /\ e \in Nat \ {0}
      /\ x = Ratio(n, d) /\ y = Ratio(m, e)
  BY DEF Worth
<1>2. d * e \in Nat \ {0} /\ n * e + m * d \in Int /\ n * e - m * d \in Int /\ n * m \in Int
      /\ n * e \in Int /\ (m > 0 => d * m \in Nat \ {0})
  BY <1>1
<1>3. /\ Plus(x, y) = Ratio(n * e + m * d, d * e)
      /\ Minus(x, y) = Ratio(n * e - m * d, d * e)
      /\ Times(x, y) = Ratio(n * m, d * e)
      /\ m > 0 => Over(x, y) = Ratio(n * e, d * m)
  <2>1. Plus(Ratio(n, d), Ratio(m, e)) = Ratio(n * e + m * d, d * e)
    BY <1>1, RatioOps
  <2>2. Minus(Ratio(n, d), Ratio(m, e)) = Ratio(n * e - m * d, d * e)
    BY <1>1, RatioOps
  <2>3. Times(Ratio(n, d), Ratio(m, e)) = Ratio(n * m, d * e)
    BY <1>1, RatioOps
  <2>4. m > 0 => Over(Ratio(n, d), Ratio(m, e)) = Ratio(n * e, d * m)
    BY <1>1, RatioOps
  <2> QED  BY <2>1, <2>2, <2>3, <2>4, <1>1, Zenon
<1>4. Worth(Plus(x, y), n * e + m * d, d * e)
  BY <1>2, <1>3, Zenon DEF Worth
<1>5. Worth(Minus(x, y), n * e - m * d, d * e)
  BY <1>2, <1>3, Zenon DEF Worth
<1>6. Worth(Times(x, y), n * m, d * e)
  BY <1>2, <1>3, Zenon DEF Worth
<1>7. m > 0 => Worth(Over(x, y), n * e, d * m)
  BY <1>2, <1>3, Zenon DEF Worth
<1> QED  BY <1>4, <1>5, <1>6, <1>7

LEMMA WorthLeq ==
    ASSUME NEW x, NEW n, NEW d, Worth(x, n, d), NEW y, NEW m, NEW e, Worth(y, m, e)
    PROVE  Leq(x, y) <=> n * e <= m * d
  BY RatioOps DEF Worth

LEMMA WorthLess ==
    ASSUME NEW x, NEW n, NEW d, Worth(x, n, d), NEW y, NEW m, NEW e, Worth(y, m, e)
    PROVE  Less(x, y) <=> n * e < m * d
  BY RatioOps DEF Worth

LEMMA WorthSame ==
    ASSUME NEW x, NEW n, NEW d, Worth(x, n, d), NEW y, NEW m, NEW e, Worth(y, m, e)
    PROVE  x = y <=> n * e = m * d
  BY RatioSame DEF Worth

\* n / d and m / e are one value.
Agree(n, d, m, e) == n * e = m * d

LEMMA WorthEqual ==
    ASSUME NEW x, NEW n, NEW d, Worth(x, n, d), NEW y, NEW m, NEW e, Worth(y, m, e),
           Agree(n, d, m, e)
    PROVE  x = y
  BY WorthSame DEF Agree

LEMMA WorthExists ==
    ASSUME NEW x \in Rational
    PROVE  \E a \in Int, b \in Nat \ {0} : Worth(x, a, b)
  BY RationalForm DEF Worth

LEMMA WorthRational ==
    ASSUME NEW x, NEW n, NEW d, Worth(x, n, d)
    PROVE  x \in Rational
  BY RatioRational DEF Worth

(* Whole numbers.                                                           *)
LEMMA NumIs ==
    ASSUME NEW n \in Int
    PROVE  Worth(Num(n), n, 1) /\ Num(n) \in Rational
<1>1. PICK a \in Int, b \in Nat \ {0}, g \in Nat \ {0} :
          Ratio(n, 1) = <<a, b>> /\ n = a * g /\ 1 = b * g /\ Coprime(a, b)
  <2>1. 1 \in Nat \ {0}
    OBVIOUS
  <2> QED  BY <2>1, RatioIs
<1>2. b = 1 /\ g = 1
  BY <1>1
<1>3. Num(n) = Ratio(n, 1) /\ 1 \in Nat \ {0}
  BY <1>1, <1>2 DEF Num
<1> QED  BY <1>3, RatioRational DEF Worth

LEMMA ZeroOne == Worth(Zero, 0, 1) /\ Worth(One, 1, 1) /\ Zero \in Rational /\ One \in Rational
<1>1. Zero = Num(0) /\ One = Num(1)
  BY DEF Zero, One, Num
<1> QED  BY <1>1, NumIs

(* The sign of a fraction is that of its numerator.                         *)
LEMMA SignIs ==
    ASSUME NEW x, NEW n \in Int, NEW d \in Nat \ {0}, Worth(x, n, d)
    PROVE  (Leq(Zero, x) <=> n >= 0) /\ (Less(Zero, x) <=> n > 0) /\ (x = Zero <=> n = 0)
<1>1. /\ Leq(Zero, x) <=> 0 * d <= n * 1
      /\ Less(Zero, x) <=> 0 * d < n * 1
      /\ Zero = x <=> 0 * d = n * 1
  BY ZeroOne, WorthLeq, WorthLess, WorthSame
<1> QED  BY <1>1

LEMMA Closed ==
    ASSUME NEW x \in Rational, NEW y \in Rational
    PROVE  /\ Plus(x, y) \in Rational /\ Minus(x, y) \in Rational /\ Times(x, y) \in Rational
           /\ Less(Zero, y) => Over(x, y) \in Rational
<1>1. PICK a \in Int, b \in Nat \ {0} : Worth(x, a, b)
  BY WorthExists
<1>2. PICK c \in Int, d \in Nat \ {0} : Worth(y, c, d)
  BY WorthExists
<1>3. Plus(x, y) \in Rational /\ Minus(x, y) \in Rational /\ Times(x, y) \in Rational
  BY <1>1, <1>2, WorthOps, WorthRational
<1>4. ASSUME Less(Zero, y) PROVE Over(x, y) \in Rational
  <2>1. c > 0
    BY <1>2, <1>4, SignIs
  <2>2. Worth(Over(x, y), a * d, b * c)
    BY <2>1, <1>1, <1>2, WorthOps, Zenon
  <2> QED  BY <2>2, WorthRational, Zenon
<1> QED  BY <1>3, <1>4

LEMMA PlusLaws ==
    ASSUME NEW x \in Rational, NEW y \in Rational, NEW z \in Rational
    PROVE  /\ Plus(x, y) = Plus(y, x)
           /\ Plus(Plus(x, y), z) = Plus(x, Plus(y, z))
           /\ Plus(x, Zero) = x /\ Plus(Zero, x) = x
           /\ Minus(x, Zero) = x /\ Minus(x, x) = Zero
           /\ Plus(Minus(x, y), y) = x
           /\ Minus(Plus(x, y), y) = x
           /\ Minus(x, Plus(y, z)) = Minus(Minus(x, y), z)
<1>1. PICK a \in Int, b \in Nat \ {0} : Worth(x, a, b)
  BY WorthExists
<1>2. PICK c \in Int, d \in Nat \ {0} : Worth(y, c, d)
  BY WorthExists
<1>3. PICK e \in Int, f \in Nat \ {0} : Worth(z, e, f)
  BY WorthExists
<1>4. Worth(Plus(x, y), a * d + c * b, b * d) /\ Worth(Plus(y, x), c * b + a * d, d * b)
      /\ Worth(Minus(x, y), a * d - c * b, b * d) /\ Worth(Plus(y, z), c * f + e * d, d * f)
  BY <1>1, <1>2, <1>3, WorthOps, Zenon
<1>5. Plus(x, y) = Plus(y, x)
  <2>1. Agree(a * d + c * b, b * d, c * b + a * d, d * b)
    BY DEF Agree
  <2> QED  BY <1>4, <2>1, WorthEqual
<1>6. Plus(Plus(x, y), z) = Plus(x, Plus(y, z))
  <2>1. Worth(Plus(Plus(x, y), z), (a * d + c * b) * f + e * (b * d), (b * d) * f)
        /\ Worth(Plus(x, Plus(y, z)), a * (d * f) + (c * f + e * d) * b, b * (d * f))
    BY <1>1, <1>3, <1>4, WorthOps, Zenon
  <2>2. Agree((a * d + c * b) * f + e * (b * d), (b * d) * f,
              a * (d * f) + (c * f + e * d) * b, b * (d * f))
    BY DEF Agree
  <2> QED  BY <2>1, <2>2, WorthEqual
<1>7. Plus(x, Zero) = x /\ Plus(Zero, x) = x /\ Minus(x, Zero) = x
  <2>1. Worth(Plus(x, Zero), a * 1 + 0 * b, b * 1) /\ Worth(Plus(Zero, x), 0 * b + a * 1, 1 * b)
        /\ Worth(Minus(x, Zero), a * 1 - 0 * b, b * 1)
    BY <1>1, ZeroOne, WorthOps, Zenon
  <2>2. a * 1 + 0 * b = a /\ 0 * b + a * 1 = a /\ a * 1 - 0 * b = a /\ b * 1 = b /\ 1 * b = b
    OBVIOUS
  <2> QED  BY <2>1, <2>2, <1>1 DEF Worth
<1>8. Minus(x, x) = Zero
  <2>1. Worth(Minus(x, x), a * b - a * b, b * b)
    BY <1>1, WorthOps, Zenon
  <2>2. a * b - a * b = 0 /\ b * b \in Nat \ {0}
    OBVIOUS
  <2> QED  BY <2>1, <2>2, SignIs
<1>9. Plus(Minus(x, y), y) = x
  <2>1. Worth(Plus(Minus(x, y), y), (a * d - c * b) * d + c * (b * d), (b * d) * d)
    BY <1>2, <1>4, WorthOps, Zenon
  <2>2. Agree((a * d - c * b) * d + c * (b * d), (b * d) * d, a, b)
    BY DEF Agree
  <2> QED  BY <2>1, <1>1, <2>2, WorthEqual
<1>10. Minus(Plus(x, y), y) = x
  <2>1. Worth(Minus(Plus(x, y), y), (a * d + c * b) * d - c * (b * d), (b * d) * d)
    BY <1>2, <1>4, WorthOps, Zenon
  <2>2. Agree((a * d + c * b) * d - c * (b * d), (b * d) * d, a, b)
    BY DEF Agree
  <2> QED  BY <2>1, <1>1, <2>2, WorthEqual
<1>11. Minus(x, Plus(y, z)) = Minus(Minus(x, y), z)
  <2>1. Worth(Minus(x, Plus(y, z)), a * (d * f) - (c * f + e * d) * b, b * (d * f))
        /\ Worth(Minus(Minus(x, y), z), (a * d - c * b) * f - e * (b * d), (b * d) * f)
    BY <1>1, <1>3, <1>4, WorthOps, Zenon
  <2>2. Agree(a * (d * f) - (c * f + e * d) * b, b * (d * f),
              (a * d - c * b) * f - e * (b * d), (b * d) * f)
    BY DEF Agree
  <2> QED  BY <2>1, <2>2, WorthEqual
<1> QED  BY <1>5, <1>6, <1>7, <1>8, <1>9, <1>10, <1>11

LEMMA TimesLaws ==
    ASSUME NEW x \in Rational, NEW y \in Rational, NEW z \in Rational
    PROVE  /\ Times(x, y) = Times(y, x)
           /\ Times(Times(x, y), z) = Times(x, Times(y, z))
           /\ Times(Plus(x, y), z) = Plus(Times(x, z), Times(y, z))
           /\ Times(x, One) = x
           /\ Times(Zero, x) = Zero
           /\ Less(Zero, y) => Times(Over(x, y), y) = x
           /\ Less(Zero, y) => Over(Times(x, y), y) = x
<1>1. PICK a \in Int, b \in Nat \ {0} : Worth(x, a, b)
  BY WorthExists
<1>2. PICK c \in Int, d \in Nat \ {0} : Worth(y, c, d)
  BY WorthExists
<1>3. PICK e \in Int, f \in Nat \ {0} : Worth(z, e, f)
  BY WorthExists
<1>4. Worth(Times(x, y), a * c, b * d) /\ Worth(Times(y, x), c * a, d * b)
      /\ Worth(Times(y, z), c * e, d * f) /\ Worth(Times(x, z), a * e, b * f)
      /\ Worth(Plus(x, y), a * d + c * b, b * d)
  BY <1>1, <1>2, <1>3, WorthOps, Zenon
<1>5. Times(x, y) = Times(y, x)
  <2>1. Agree(a * c, b * d, c * a, d * b)
    BY DEF Agree
  <2> QED  BY <1>4, <2>1, WorthEqual
<1>6. Times(Times(x, y), z) = Times(x, Times(y, z))
  <2>1. Worth(Times(Times(x, y), z), (a * c) * e, (b * d) * f)
        /\ Worth(Times(x, Times(y, z)), a * (c * e), b * (d * f))
    BY <1>1, <1>3, <1>4, WorthOps, Zenon
  <2>2. Agree((a * c) * e, (b * d) * f, a * (c * e), b * (d * f))
    BY DEF Agree
  <2> QED  BY <2>1, <2>2, WorthEqual
<1>7. Times(Plus(x, y), z) = Plus(Times(x, z), Times(y, z))
  <2>1. Worth(Times(Plus(x, y), z), (a * d + c * b) * e, (b * d) * f)
        /\ Worth(Plus(Times(x, z), Times(y, z)),
                 (a * e) * (d * f) + (c * e) * (b * f), (b * f) * (d * f))
    BY <1>3, <1>4, WorthOps, Zenon
  <2>2. Agree((a * d + c * b) * e, (b * d) * f,
              (a * e) * (d * f) + (c * e) * (b * f), (b * f) * (d * f))
    BY DEF Agree
  <2> QED  BY <2>1, <2>2, WorthEqual
<1>8. Times(x, One) = x
  <2>1. Worth(Times(x, One), a * 1, b * 1)
    BY <1>1, ZeroOne, WorthOps, Zenon
  <2>2. a * 1 = a /\ b * 1 = b
    OBVIOUS
  <2> QED  BY <2>1, <2>2, <1>1 DEF Worth
<1>9. Times(Zero, x) = Zero
  <2>1. Worth(Times(Zero, x), 0 * a, 1 * b)
    BY <1>1, ZeroOne, WorthOps, Zenon
  <2>2. 0 * a = 0 /\ 1 * b = b
    OBVIOUS
  <2> QED  BY <2>1, <2>2, SignIs
<1>10. ASSUME Less(Zero, y)
       PROVE  Times(Over(x, y), y) = x /\ Over(Times(x, y), y) = x
  <2>1. c > 0
    BY <1>2, <1>10, SignIs
  <2>2. Worth(Over(x, y), a * d, b * c)
    BY <2>1, <1>1, <1>2, WorthOps, Zenon
  <2>3. Worth(Times(Over(x, y), y), (a * d) * c, (b * c) * d)
    BY <2>2, <1>2, WorthOps, Zenon
  <2>4. Worth(Over(Times(x, y), y), (a * c) * d, (b * d) * c)
    BY <2>1, <1>2, <1>4, WorthOps, Zenon
  <2>5. Agree((a * d) * c, (b * c) * d, a, b) /\ Agree((a * c) * d, (b * d) * c, a, b)
    BY DEF Agree
  <2>6. Times(Over(x, y), y) = x
    BY <2>3, <2>5, <1>1, WorthEqual
  <2>7. Over(Times(x, y), y) = x
    BY <2>4, <2>5, <1>1, WorthEqual
  <2> QED  BY <2>6, <2>7
<1> QED  BY <1>5, <1>6, <1>7, <1>8, <1>9, <1>10

(* The order is total, and goes with the operations.                        *)
LEMMA OrderLaws ==
    ASSUME NEW x \in Rational, NEW y \in Rational, NEW z \in Rational
    PROVE  /\ Less(x, y) <=> ~Leq(y, x)
           /\ Leq(x, y) /\ Leq(y, x) => x = y
           /\ Leq(x, y) /\ Leq(y, z) => Leq(x, z)
           /\ Leq(x, x)
           /\ Leq(x, y) <=> Leq(Plus(x, z), Plus(y, z))
           /\ Leq(Zero, z) /\ Leq(x, y) => Leq(Times(x, z), Times(y, z))
           /\ Less(Zero, z) /\ Less(x, y) => Less(Times(x, z), Times(y, z))
<1>1. PICK a \in Int, b \in Nat \ {0} : Worth(x, a, b)
  BY WorthExists
<1>2. PICK c \in Int, d \in Nat \ {0} : Worth(y, c, d)
  BY WorthExists
<1>3. PICK e \in Int, f \in Nat \ {0} : Worth(z, e, f)
  BY WorthExists
<1>4. /\ Less(x, y) <=> a * d < c * b
      /\ Leq(x, y) <=> a * d <= c * b
      /\ Leq(y, x) <=> c * b <= a * d
      /\ Leq(x, x) <=> a * b <= a * b
      /\ x = y <=> a * d = c * b
  <2>1. Less(x, y) <=> a * d < c * b
    BY <1>1, <1>2, WorthLess, Zenon
  <2>2. Leq(x, y) <=> a * d <= c * b
    BY <1>1, <1>2, WorthLeq, Zenon
  <2>3. Leq(y, x) <=> c * b <= a * d
    BY <1>1, <1>2, WorthLeq, Zenon
  <2>4. Leq(x, x) <=> a * b <= a * b
    BY <1>1, WorthLeq, Zenon
  <2>5. x = y <=> a * d = c * b
    BY <1>1, <1>2, WorthSame
  <2> QED  BY <2>1, <2>2, <2>3, <2>4, <2>5
<1>5. a * d \in Int /\ c * b \in Int /\ a * b \in Int
  OBVIOUS
<1>6. Leq(x, y) /\ Leq(y, z) => Leq(x, z)
  <2>1. x \in Value /\ y \in Value /\ z \in Value
    BY DEF Value, Rational
  <2> QED  BY <2>1, LeqTransitive
<1>7. PICK i \in Nat \ {0} : i = f * f
  OBVIOUS
<1>8. Leq(x, y) <=> Leq(Plus(x, z), Plus(y, z))
  <2>1. Worth(Plus(x, z), a * f + e * b, b * f) /\ Worth(Plus(y, z), c * f + e * d, d * f)
    BY <1>1, <1>2, <1>3, WorthOps, Zenon
  <2>2. Leq(Plus(x, z), Plus(y, z))
            <=> (a * f + e * b) * (d * f) <= (c * f + e * d) * (b * f)
    BY <2>1, WorthLeq, Zenon
  <2>3. (a * f + e * b) * (d * f) = (a * d) * (f * f) + (e * b * d * f)
        /\ (c * f + e * d) * (b * f) = (c * b) * (f * f) + (e * b * d * f)
    OBVIOUS
  <2>4. (a * f + e * b) * (d * f) <= (c * f + e * d) * (b * f)
            <=> (a * d) * i <= (c * b) * i
    BY <2>3, <1>7
  <2> QED  BY <2>2, <2>4, <1>4, <1>5, Cancel
<1>9. /\ Leq(Times(x, z), Times(y, z)) <=> (a * d) * (e * f) <= (c * b) * (e * f)
      /\ Less(Times(x, z), Times(y, z)) <=> (a * d) * (e * f) < (c * b) * (e * f)
  <2>1. Worth(Times(x, z), a * e, b * f) /\ Worth(Times(y, z), c * e, d * f)
    BY <1>1, <1>2, <1>3, WorthOps, Zenon
  <2>2. /\ Leq(Times(x, z), Times(y, z)) <=> (a * e) * (d * f) <= (c * e) * (b * f)
        /\ Less(Times(x, z), Times(y, z)) <=> (a * e) * (d * f) < (c * e) * (b * f)
    BY <2>1, WorthLeq, WorthLess, Zenon
  <2>3. (a * e) * (d * f) = (a * d) * (e * f) /\ (c * e) * (b * f) = (c * b) * (e * f)
    OBVIOUS
  <2> QED  BY <2>2, <2>3
<1>10. (Leq(Zero, z) <=> e >= 0) /\ (Less(Zero, z) <=> e > 0)
  BY <1>3, SignIs
<1>11. ASSUME e > 0 PROVE e * f \in Nat \ {0}
  BY <1>11
<1>12. Less(Zero, z) /\ Less(x, y) => Less(Times(x, z), Times(y, z))
  BY <1>4, <1>5, <1>9, <1>10, <1>11, Cancel
<1>13. Leq(Zero, z) /\ Leq(x, y) => Leq(Times(x, z), Times(y, z))
  <2>1. CASE e > 0
    BY <2>1, <1>4, <1>5, <1>9, <1>11, Cancel
  <2>2. CASE e = 0
    <3>1. (a * d) * (e * f) = 0 /\ (c * b) * (e * f) = 0
      BY <2>2
    <3> QED  BY <3>1, <1>9
  <2> QED  BY <2>1, <2>2, <1>10
<1> QED  BY <1>4, <1>5, <1>6, <1>8, <1>12, <1>13

(* Signs.                                                                   *)
Positives == {x \in Rational : Less(Zero, x)}
NonNegatives == {x \in Rational : Leq(Zero, x)}

LEMMA Signed ==
    ASSUME NEW x \in Rational
    PROVE  \E a \in Int, b \in Nat \ {0} :
               /\ Worth(x, a, b)
               /\ (Leq(Zero, x) <=> a >= 0) /\ (Less(Zero, x) <=> a > 0) /\ (x = Zero <=> a = 0)
<1>1. PICK a \in Int, b \in Nat \ {0} : Worth(x, a, b)
  BY WorthExists
<1>2. (Leq(Zero, x) <=> a >= 0) /\ (Less(Zero, x) <=> a > 0) /\ (x = Zero <=> a = 0)
  BY <1>1, SignIs
<1> QED  BY <1>1, <1>2

LEMMA SignOf ==
    ASSUME NEW x, NEW n, NEW d, Worth(x, n, d)
    PROVE  /\ x \in NonNegatives <=> n >= 0
           /\ x \in Positives <=> n > 0
<1>1. n \in Int /\ d \in Nat \ {0} /\ x \in Rational
  BY WorthRational DEF Worth
<1> QED  BY <1>1, SignIs DEF Positives, NonNegatives

LEMMA SignLaws ==
    ASSUME NEW x \in Rational, NEW y \in Rational
    PROVE  /\ x \in Positives => x \in NonNegatives
           /\ x \in NonNegatives <=> x \in Positives \/ x = Zero
           /\ x \in NonNegatives /\ y \in NonNegatives => Plus(x, y) \in NonNegatives
           /\ x \in Positives /\ y \in NonNegatives => Plus(x, y) \in Positives
           /\ x \in NonNegatives /\ y \in NonNegatives => Times(x, y) \in NonNegatives
           /\ x \in Positives /\ y \in Positives => Times(x, y) \in Positives
           /\ x \in NonNegatives /\ y \in Positives => Over(x, y) \in NonNegatives
           /\ x \in Positives /\ y \in Positives => Over(x, y) \in Positives
<1>1. PICK a \in Int, b \in Nat \ {0} : Worth(x, a, b)
  BY WorthExists
<1>2. PICK c \in Int, d \in Nat \ {0} : Worth(y, c, d)
  BY WorthExists
<1>3. /\ x \in NonNegatives <=> a >= 0
      /\ x \in Positives <=> a > 0
      /\ y \in NonNegatives <=> c >= 0
      /\ y \in Positives <=> c > 0
      /\ x = Zero <=> a = 0
  BY <1>1, <1>2, SignOf, SignIs
<1>4. /\ Plus(x, y) \in NonNegatives <=> a * d + c * b >= 0
      /\ Plus(x, y) \in Positives <=> a * d + c * b > 0
  <2>1. Worth(Plus(x, y), a * d + c * b, b * d)
    BY <1>1, <1>2, WorthOps, Zenon
  <2> QED  BY <2>1, SignOf, Zenon
<1>5. /\ Times(x, y) \in NonNegatives <=> a * c >= 0
      /\ Times(x, y) \in Positives <=> a * c > 0
  <2>1. Worth(Times(x, y), a * c, b * d)
    BY <1>1, <1>2, WorthOps, Zenon
  <2> QED  BY <2>1, SignOf, Zenon
<1>6. c > 0 => /\ Over(x, y) \in NonNegatives <=> a * d >= 0
               /\ Over(x, y) \in Positives <=> a * d > 0
  <2>1. c > 0 => Worth(Over(x, y), a * d, b * c)
    BY <1>1, <1>2, WorthOps, Zenon
  <2> QED  BY <2>1, SignOf, Zenon
<1>7. /\ a >= 0 => a * d >= 0
      /\ a > 0 => a * d > 0
      /\ c >= 0 => c * b >= 0
      /\ a >= 0 /\ c >= 0 => a * c >= 0
      /\ a > 0 /\ c > 0 => a * c > 0
  OBVIOUS
<1>8. a * d \in Int /\ c * b \in Int /\ a * c \in Int
  OBVIOUS
<1>9. /\ a >= 0 /\ c >= 0 => a * d + c * b >= 0
      /\ a > 0 /\ c >= 0 => a * d + c * b > 0
  BY <1>7, <1>8
<1> QED  BY <1>3, <1>4, <1>5, <1>6, <1>7, <1>9

LEMMA MinusSign ==
    ASSUME NEW x \in Rational, NEW y \in Rational
    PROVE  /\ Minus(x, y) \in NonNegatives <=> Leq(y, x)
           /\ Minus(x, y) \in Positives <=> Less(y, x)
           /\ Minus(x, y) = Zero <=> x = y
<1>1. PICK a \in Int, b \in Nat \ {0} : Worth(x, a, b)
  BY WorthExists
<1>2. PICK c \in Int, d \in Nat \ {0} : Worth(y, c, d)
  BY WorthExists
<1>3. Worth(Minus(x, y), a * d - c * b, b * d)
  BY <1>1, <1>2, WorthOps, Zenon
<1>4. /\ Minus(x, y) \in NonNegatives <=> a * d - c * b >= 0
      /\ Minus(x, y) \in Positives <=> a * d - c * b > 0
  BY <1>3, SignOf, Zenon
<1>5. Minus(x, y) = Zero <=> a * d - c * b = 0
  <2>1. a * d - c * b \in Int /\ b * d \in Nat \ {0}
    OBVIOUS
  <2> QED  BY <2>1, <1>3, SignIs
<1>6. Leq(y, x) <=> c * b <= a * d
  BY <1>1, <1>2, WorthLeq, Zenon
<1>7. Less(y, x) <=> c * b < a * d
  BY <1>1, <1>2, WorthLess, Zenon
<1>8. x = y <=> a * d = c * b
  BY <1>1, <1>2, WorthSame
<1>9. a * d \in Int /\ c * b \in Int
  OBVIOUS
<1> QED  BY <1>4, <1>5, <1>6, <1>7, <1>8, <1>9

(* The fractions of whole numbers are ordered as these are.                 *)
LEMMA NumOrder ==
    ASSUME NEW m \in Int, NEW n \in Int
    PROVE  /\ Num(m) \in Rational
           /\ Leq(Num(m), Num(n)) <=> m <= n
           /\ Less(Num(m), Num(n)) <=> m < n
           /\ Num(m) \in Positives <=> m > 0
           /\ Num(m) \in NonNegatives <=> m >= 0
<1>1. Worth(Num(m), m, 1) /\ Num(m) \in Rational
  BY NumIs
<1>2. (Num(m) \in Positives <=> m > 0) /\ (Num(m) \in NonNegatives <=> m >= 0)
  BY <1>1, SignOf
<1> QED  BY <1>1, <1>2 DEF Leq, Less, Num

\* A part of the whole, short of all of it.
Share == {x \in Rational : Leq(Zero, x) /\ Less(x, One)}

LEMMA ShareFactors ==
    ASSUME NEW x \in Share
    PROVE  /\ Minus(One, x) \in Positives /\ Plus(One, x) \in Positives
           /\ Leq(Minus(One, x), One) /\ Leq(One, Plus(One, x))
<1>1. x \in Rational /\ x \in NonNegatives /\ Less(x, One) /\ One \in Rational
  BY ZeroOne DEF Share, NonNegatives
<1>2. One \in Positives
  <2>1. One = Num(1)
    BY DEF One, Num
  <2> QED  BY <2>1, NumOrder
<1>3. Minus(One, x) \in Positives /\ Plus(One, x) \in Positives
  BY <1>1, <1>2, MinusSign, SignLaws
<1>4. PICK a \in Int, b \in Nat \ {0} : Worth(x, a, b)
  BY <1>1, WorthExists
<1>5. a >= 0
  BY <1>1, <1>4, SignOf
<1>6. Worth(One, 1, 1)
  BY ZeroOne
<1>7. Leq(Minus(One, x), One)
  <2>1. Worth(Minus(One, x), 1 * b - a * 1, 1 * b)
    BY <1>4, <1>6, WorthOps, Zenon
  <2>2. Leq(Minus(One, x), One) <=> (1 * b - a * 1) * 1 <= 1 * (1 * b)
    BY <2>1, <1>6, WorthLeq, Zenon
  <2> QED  BY <2>2, <1>5
<1>8. Leq(One, Plus(One, x))
  <2>1. Worth(Plus(One, x), 1 * b + a * 1, 1 * b)
    BY <1>4, <1>6, WorthOps, Zenon
  <2>2. Leq(One, Plus(One, x)) <=> 1 * (1 * b) <= (1 * b + a * 1) * 1
    BY <2>1, <1>6, WorthLeq, Zenon
  <2> QED  BY <2>2, <1>5
<1> QED  BY <1>3, <1>7, <1>8

(* Parts of one size: sums and comparisons are those of the numerators.     *)
LEMMA PartOps ==
    ASSUME NEW d \in Nat \ {0}, NEW a \in Int, NEW b \in Int, NEW x, Worth(x, a, d),
           NEW y, Worth(y, b, d)
    PROVE  /\ Worth(Plus(x, y), a + b, d) /\ Worth(Minus(x, y), a - b, d)
           /\ Leq(x, y) <=> a <= b
           /\ Less(x, y) <=> a < b
           /\ x = y <=> a = b
<1>1. a * d < b * d <=> a < b
  BY Cancel
<1>2. a * d <= b * d <=> a <= b
  BY Cancel
<1>3. a * d = b * d <=> a = b
  BY Cancel
<1>4. /\ Leq(x, y) <=> a * d <= b * d
      /\ Less(x, y) <=> a * d < b * d
      /\ x = y <=> a * d = b * d
  <2>1. Leq(x, y) <=> a * d <= b * d
    BY WorthLeq, Zenon
  <2>2. Less(x, y) <=> a * d < b * d
    BY WorthLess, Zenon
  <2>3. x = y <=> a * d = b * d
    BY WorthSame
  <2> QED  BY <2>1, <2>2, <2>3
<1>5. Worth(Plus(x, y), a * d + b * d, d * d) /\ Worth(Minus(x, y), a * d - b * d, d * d)
  BY WorthOps, Zenon
<1>6. d * d \in Nat \ {0} /\ a * d + b * d \in Int /\ a * d - b * d \in Int
      /\ a + b \in Int /\ a - b \in Int
  OBVIOUS
<1>7. /\ (a * d + b * d) * d = (a + b) * (d * d)
      /\ (a * d - b * d) * d = (a - b) * (d * d)
  OBVIOUS
<1>8. Ratio(a * d + b * d, d * d) = Ratio(a + b, d) /\ Ratio(a * d - b * d, d * d) = Ratio(a - b, d)
  BY <1>6, <1>7, RatioSame
<1> QED  BY <1>1, <1>2, <1>3, <1>4, <1>5, <1>6, <1>8 DEF Worth

LEMMA Parts ==
    ASSUME NEW x \in Rational, NEW y \in Rational, NEW z \in Rational, NEW w \in Rational
    PROVE  \E d \in Nat \ {0}, a \in Int, b \in Int, c \in Int, e \in Int :
               Worth(x, a, d) /\ Worth(y, b, d) /\ Worth(z, c, d) /\ Worth(w, e, d)
<1>1. ASSUME NEW u, NEW n \in Int, NEW d \in Nat \ {0}, Worth(u, n, d), NEW k \in Nat \ {0}
      PROVE  Worth(u, n * k, d * k)
  <2>1. n * k \in Int /\ d * k \in Nat \ {0} /\ n * (d * k) = (n * k) * d
    OBVIOUS
  <2> QED  BY <2>1, <1>1, RatioSame DEF Worth
<1>2. PICK a1 \in Int, d1 \in Nat \ {0} : Worth(x, a1, d1)
  BY WorthExists
<1>3. PICK a2 \in Int, d2 \in Nat \ {0} : Worth(y, a2, d2)
  BY WorthExists
<1>4. PICK a3 \in Int, d3 \in Nat \ {0} : Worth(z, a3, d3)
  BY WorthExists
<1>5. PICK a4 \in Int, d4 \in Nat \ {0} : Worth(w, a4, d4)
  BY WorthExists
<1>6. PICK k1 \in Nat \ {0}, k2 \in Nat \ {0}, k3 \in Nat \ {0}, k4 \in Nat \ {0}, d \in Nat \ {0} :
          d1 * k1 = d /\ d2 * k2 = d /\ d3 * k3 = d /\ d4 * k4 = d
  <2>1. PICK p12 \in Nat \ {0}, p34 \in Nat \ {0} : p12 = d1 * d2 /\ p34 = d3 * d4
    OBVIOUS
  <2>2. PICK k1 \in Nat \ {0}, k2 \in Nat \ {0}, k3 \in Nat \ {0}, k4 \in Nat \ {0},
             d \in Nat \ {0} :
             k1 = d2 * p34 /\ k2 = d1 * p34 /\ k3 = p12 * d4 /\ k4 = p12 * d3 /\ d = p12 * p34
    OBVIOUS
  <2>3. d1 * k1 = d /\ d2 * k2 = d
    BY <2>1, <2>2
  <2>4. d3 * k3 = d /\ d4 * k4 = d
    BY <2>1, <2>2
  <2> QED  BY <2>3, <2>4
<1>7. Worth(x, a1 * k1, d) /\ Worth(y, a2 * k2, d) /\ Worth(z, a3 * k3, d) /\ Worth(w, a4 * k4, d)
  BY <1>1, <1>2, <1>3, <1>4, <1>5, <1>6
<1>8. a1 * k1 \in Int /\ a2 * k2 \in Int /\ a3 * k3 \in Int /\ a4 * k4 \in Int
  OBVIOUS
<1> QED  BY <1>7, <1>8

(* Sums keep the order.                                                     *)
LEMMA SumLaws ==
    ASSUME NEW x \in Rational, NEW y \in Rational, NEW z \in Rational, NEW w \in Rational
    PROVE  /\ Plus(Plus(x, y), Minus(z, y)) = Plus(x, z)
           /\ Leq(x, y) /\ Leq(z, w) => Leq(Plus(x, z), Plus(y, w))
           /\ Less(x, y) /\ Leq(z, w) => Less(Plus(x, z), Plus(y, w))
           /\ Less(x, y) => Leq(x, y)
           /\ Leq(x, y) /\ Less(y, z) => Less(x, z)
           /\ Less(x, y) /\ Leq(y, z) => Less(x, z)
           /\ Less(x, y) \/ x = y \/ Less(y, x)
           /\ Leq(Zero, y) => Leq(x, Plus(x, y)) /\ Leq(Minus(x, y), x)
           /\ Less(Zero, y) => Less(x, Plus(x, y))
<1>1. PICK d \in Nat \ {0}, a \in Int, b \in Int, c \in Int, e \in Int :
          Worth(x, a, d) /\ Worth(y, b, d) /\ Worth(z, c, d) /\ Worth(w, e, d)
  BY Parts
<1>2. Worth(Zero, 0, d)
  <2>1. 0 * d = 0 * 1
    OBVIOUS
  <2>2. Ratio(0, d) = Ratio(0, 1)
    BY <2>1, RatioSame
  <2> QED  BY <2>2, ZeroOne DEF Worth
<1>3. /\ Worth(Plus(x, y), a + b, d) /\ Worth(Minus(z, y), c - b, d) /\ Worth(Plus(x, z), a + c, d)
      /\ Worth(Plus(y, w), b + e, d) /\ Worth(Minus(x, y), a - b, d)
  BY <1>1, PartOps
<1>4. PICK s \in Int, t \in Int, u \in Int, v \in Int, r \in Int :
          s = a + b /\ t = c - b /\ u = a + c /\ v = b + e /\ r = a - b
  OBVIOUS
<1>5. /\ Worth(Plus(x, y), s, d) /\ Worth(Minus(z, y), t, d) /\ Worth(Plus(x, z), u, d)
      /\ Worth(Plus(y, w), v, d) /\ Worth(Minus(x, y), r, d)
  BY <1>3, <1>4
<1>6. Plus(Plus(x, y), Minus(z, y)) = Plus(x, z)
  <2>1. Worth(Plus(Plus(x, y), Minus(z, y)), s + t, d) /\ s + t = u /\ s + t \in Int
    BY <1>4, <1>5, PartOps
  <2> QED  BY <2>1, <1>5, PartOps
<1>7. /\ Leq(Plus(x, z), Plus(y, w)) <=> u <= v
      /\ Less(Plus(x, z), Plus(y, w)) <=> u < v
      /\ Leq(x, Plus(x, y)) <=> a <= s
      /\ Less(x, Plus(x, y)) <=> a < s
      /\ Leq(Minus(x, y), x) <=> r <= a
  BY <1>1, <1>5, PartOps
<1>8. /\ Leq(x, y) <=> a <= b
      /\ Less(x, y) <=> a < b
      /\ Less(y, x) <=> b < a
      /\ x = y <=> a = b
      /\ Leq(y, z) <=> b <= c
      /\ Less(y, z) <=> b < c
      /\ Less(x, z) <=> a < c
      /\ Leq(z, w) <=> c <= e
      /\ Leq(Zero, y) <=> 0 <= b
      /\ Less(Zero, y) <=> 0 < b
  BY <1>1, <1>2, PartOps
<1> QED  BY <1>4, <1>6, <1>7, <1>8

(* To divide by a price is to multiply by what one unit buys.               *)
LEMMA OverLaws ==
    ASSUME NEW x \in Rational, NEW y \in Rational, NEW p \in Positives
    PROVE  /\ Over(One, p) \in Positives
           /\ Over(x, p) = Times(x, Over(One, p))
           /\ Leq(Times(x, p), y) => Leq(x, Times(y, Over(One, p)))
<1>1. p \in Rational /\ One \in Rational /\ One \in Positives /\ Less(Zero, p)
  <2>1. One = Num(1)
    BY DEF One, Num
  <2> QED  BY <2>1, NumOrder DEF Positives
<1>2. Over(One, p) \in Positives /\ Over(One, p) \in Rational
  BY <1>1, SignLaws DEF Positives
<1>3. PICK a \in Int, b \in Nat \ {0} : Worth(x, a, b)
  BY WorthExists
<1>4. PICK c \in Int, d \in Nat \ {0} : Worth(p, c, d)
  BY <1>1, WorthExists
<1>5. c > 0
  BY <1>1, <1>4, SignIs
<1>6. Worth(Over(x, p), a * d, b * c)
  BY <1>3, <1>4, <1>5, WorthOps, Zenon
<1>7. Worth(Over(One, p), 1 * d, 1 * c)
  BY <1>4, <1>5, ZeroOne, WorthOps, Zenon
<1>8. Worth(Times(x, Over(One, p)), a * (1 * d), b * (1 * c))
  BY <1>3, <1>7, WorthOps, Zenon
<1>9. Over(x, p) = Times(x, Over(One, p))
  <2>1. Agree(a * d, b * c, a * (1 * d), b * (1 * c))
    BY DEF Agree
  <2> QED  BY <2>1, <1>6, <1>8, WorthEqual
<1>10. ASSUME Leq(Times(x, p), y) PROVE Leq(x, Times(y, Over(One, p)))
  <2>1. Times(x, p) \in Rational
    BY <1>1, Closed
  <2>2. Leq(Times(Times(x, p), Over(One, p)), Times(y, Over(One, p)))
    BY <1>2, <1>10, <2>1, OrderLaws, SignLaws DEF NonNegatives
  <2>3. Times(Times(x, p), Over(One, p)) = x
    <3>1. Worth(Times(x, p), a * c, b * d)
      BY <1>3, <1>4, WorthOps, Zenon
    <3>2. Worth(Times(Times(x, p), Over(One, p)), (a * c) * (1 * d), (b * d) * (1 * c))
      BY <3>1, <1>7, WorthOps, Zenon
    <3>3. Agree((a * c) * (1 * d), (b * d) * (1 * c), a, b)
      BY DEF Agree
    <3> QED  BY <3>2, <3>3, <1>3, WorthEqual
  <2> QED  BY <2>2, <2>3
<1> QED  BY <1>2, <1>9, <1>10

LEMMA MoreLaws ==
    ASSUME NEW x \in Rational, NEW y \in Rational
    PROVE  /\ Less(x, y) => Leq(x, y)
           /\ Less(x, y) \/ x = y \/ Less(y, x)
           /\ Leq(Zero, y) => Leq(x, Plus(x, y)) /\ Leq(Minus(x, y), x)
           /\ Less(Zero, y) => Less(x, Plus(x, y))
  BY SumLaws

LEMMA MixLaws ==
    ASSUME NEW x \in Rational, NEW y \in Rational, NEW z \in Rational
    PROVE  /\ Leq(x, y) /\ Less(y, z) => Less(x, z)
           /\ Less(x, y) /\ Leq(y, z) => Less(x, z)
           /\ Plus(Plus(x, y), Minus(z, y)) = Plus(x, z)
  BY SumLaws
=============================================================================
