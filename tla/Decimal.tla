------------------------------ MODULE Decimal -------------------------------
(***************************************************************************)
(* The arithmetic of Python's Decimal, which src/tri_arb/simulator.py uses *)
(* under the default context: an exact result, rounded half-even to a      *)
(* number of significant digits (28 there).  Values stay below ten to the  *)
(* power of digits, so that what is dropped is decimals.                   *)
(***************************************************************************)
EXTENDS Ratio

\* The most decimals that a value may have: 1000026 in the program.
CONSTANT MaxDecimals

ASSUME DecimalAssumption == MaxDecimals \in Nat

\* The digits of an arithmetic that drops none, to compare with.
Exact == 0

Power[n \in Nat] == IF n = 0 THEN 1 ELSE 10 * Power[n - 1]

\* With so many decimals, x takes more than the digits.
TooLong(digits, x, places) == Power[digits] * x[2] <= Abs(x[1]) * Power[places]

\* With p decimals x takes as many digits as there are, or more if it has none.
Fills(digits, x, p) == TooLong(digits, x, p + 1) /\ (p = 0 \/ ~TooLong(digits, x, p))

\* The integer nearest to n / d, of two the even one.
HalfEven(n, d) ==
    LET below == n \div d
        twice == 2 * (n % d)
    IN  IF twice > d \/ (twice = d /\ below % 2 = 1) THEN below + 1 ELSE below

\* A value so small that no number of decimals fills the digits stays as it is: here
\* there is none but zero.
Shortened(digits, x) ==
    LET unit == Power[CHOOSE p \in 0..MaxDecimals : Fills(digits, x, p)]
        units == HalfEven(Abs(x[1]) * unit, x[2])
    IN  IF \E p \in 0..MaxDecimals : Fills(digits, x, p)
        THEN Ratio(IF x[1] < 0 THEN -units ELSE units, unit) ELSE x

Rounded(digits, x) == IF digits = Exact THEN x ELSE Shortened(digits, x)

Add(digits, x, y) == Rounded(digits, Plus(x, y))
Subtract(digits, x, y) == Rounded(digits, Minus(x, y))
Multiply(digits, x, y) == Rounded(digits, Times(x, y))
Divide(digits, x, y) == Rounded(digits, Over(x, y))

\* simulator.py _quantize_down: the multiple of the lot at or below x, or the one
\* above where the quotient is rounded up to it.
Floored(digits, x, lot) ==
    LET lots == Divide(digits, x, Num(lot))
    IN  IF lot = 0 THEN x ELSE Num((lots[1] \div lots[2]) * lot)
=============================================================================
