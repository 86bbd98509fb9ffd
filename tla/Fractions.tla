------------------------------ MODULE Fractions ------------------------------
(***************************************************************************)
(* Exact rational numbers <<numerator, denominator>> with the least        *)
(* positive denominator, so that equal numbers are equal values.           *)
(***************************************************************************)
EXTENDS Integers

\* d divides n * q.
Clears(q, n, d) == (n * q) % d = 0

Fraction(n, d) ==
  LET q == CHOOSE k \in 1 .. d : Clears(k, n, d) /\ \A j \in 1 .. (k - 1) : ~Clears(j, n, d)
  IN  <<(n * q) \div d, q>>

Whole(n) == <<n, 1>>
Zero     == Whole(0)

Plus(a, b)  == Fraction(a[1] * b[2] + b[1] * a[2], a[2] * b[2])
Minus(a, b) == Fraction(a[1] * b[2] - b[1] * a[2], a[2] * b[2])
Times(a, b) == Fraction(a[1] * b[1], a[2] * b[2])
Over(a, b)  == Fraction(a[1] * b[2], a[2] * b[1])     \* b is positive

AtMost(a, b)   == a[1] * b[2] <= b[1] * a[2]
Smaller(a, b)  == IF AtMost(a, b) THEN a ELSE b
Positive(a)    == a[1] > 0
IsFraction(a)  == a \in Int \X (Nat \ {0}) /\ a = Fraction(a[1], a[2])
=============================================================================
