------------------------------- MODULE Ratio -------------------------------
(***************************************************************************)
(* Exact fractions <<n, d>> in lowest terms; <<1, 0>> stands for           *)
(* Decimal("Infinity").  Decimal.tla rounds them, as simulator.py does;    *)
(* Universe.tla only ranks candidates by them.                             *)
(***************************************************************************)
EXTENDS Integers

Gcd[p \in Nat \X Nat] == IF p[2] = 0 THEN p[1] ELSE Gcd[<<p[2], p[1] % p[2]>>]

Abs(n) == IF n < 0 THEN -n ELSE n

Ratio(n, d) == LET g == Gcd[<<Abs(n), d>>] IN <<n \div g, d \div g>>

Zero == <<0, 1>>
One == <<1, 1>>
Infinity == <<1, 0>>

Rational == {x \in Int \X (Nat \ {0}) : x = Ratio(x[1], x[2])}

Num(n) == <<n, 1>>
Plus(x, y) == Ratio(x[1] * y[2] + y[1] * x[2], x[2] * y[2])
Minus(x, y) == Ratio(x[1] * y[2] - y[1] * x[2], x[2] * y[2])
Times(x, y) == Ratio(x[1] * y[1], x[2] * y[2])
Over(x, y) == Ratio(x[1] * y[2], x[2] * y[1])   \* for y above zero

Leq(x, y) == x[1] * y[2] <= y[1] * x[2]
Less(x, y) == x[1] * y[2] < y[1] * x[2]
Same(x, y) == x[1] * y[2] = y[1] * x[2]
Least(x, y) == IF Leq(x, y) THEN x ELSE y
=============================================================================
