-------------------------- MODULE Fractions_proofs ---------------------------
(***************************************************************************)
(* The laws of the exact fractions of Fractions: a fraction has the least  *)
(* denominator that clears it, so that equal quotients are equal values,   *)
(* and sums, products, quotients and the order are those of the rationals. *)
(*                                                                         *)
(* Every law is reduced to integers: fractions are brought over a common   *)
(* denominator d, where they compare and add like their numerators (Num).  *)
(***************************************************************************)
EXTENDS Fractions, FiniteSetTheorems, WellFoundedInduction, TLAPS

\* A set of numbers that is not empty has a least one.
LEMMA FirstExists ==
  ASSUME NEW S, S \subseteq Nat, S # {}
  PROVE  \E x \in S : \A y \in S : x <= y
<1> DEFINE U == {0 .. n : n \in S}
           R == StrictSubsetOrdering(UNION U)
<1>1. \A n \in S : IsFiniteSet(0 .. n)
  <2> TAKE n \in S
  <2>1. n \in Int /\ 0 \in Int
    OBVIOUS
  <2> QED
    BY <2>1, FS_Interval
<1>2. U # {} /\ U \subseteq FiniteSubsetsOf(UNION U)
  BY <1>1 DEF FiniteSubsetsOf
<1>3. IsWellFoundedOn(R, FiniteSubsetsOf(UNION U))
  BY FS_StrictSubsetOrderingWellFounded
<1>4. \E s \in U : \A t \in U : <<t, s>> \notin R
  <2> HIDE DEF U, R
  <2> QED
    BY <1>2, <1>3, WFMin
<1>5. PICK s \in U : \A t \in U : t \subseteq s => t = s
  BY <1>4 DEF StrictSubsetOrdering
<1>6. PICK x \in S : s = 0 .. x
  BY <1>5
<1>7. ASSUME NEW y \in S, ~(x <= y) PROVE FALSE
  <2>1. 0 .. y \in U /\ 0 .. y \subseteq 0 .. x
    BY <1>7
  <2>2. 0 .. y = 0 .. x
    BY <1>5, <1>6, <2>1
  <2>3. x \in 0 .. x /\ x \notin 0 .. y
    BY <1>7
  <2> QED
    BY <2>2, <2>3
<1> QED
  BY <1>7

-----------------------------------------------------------------------------
(* Fractions.  A fraction stands for n / d when it is n / d multiplied     *)
(* out.                                                                    *)

\* The values that Fraction makes, and those that are equal to n / d.
Frac == {a \in Int \X (Nat \ {0}) : a = Fraction(a[1], a[2])}

Stands(a, n, d) == a \in Frac /\ a[1] * d = n * a[2]

\* What both sides are multiplied by makes no difference.
LEMMA Cancel ==
  ASSUME NEW x \in Int, NEW y \in Int, NEW k \in Nat \ {0}
  PROVE  (x * k = y * k) <=> (x = y)
OBVIOUS

\* Nor does it to the order.
LEMMA CancelOrder ==
  ASSUME NEW w \in Int, NEW x \in Int, NEW y \in Int, NEW z \in Int,
         NEW k \in Nat \ {0}, NEW l \in Nat \ {0}, w * k = y * l, x * k = z * l
  PROVE  w <= x <=> y <= z
<1>1. w <= x <=> w * k <= x * k
  OBVIOUS
<1>2. y <= z <=> y * l <= z * l
  OBVIOUS
<1> QED
  BY <1>1, <1>2

\* Division and its remainder.
LEMMA Divides ==
  ASSUME NEW a \in Int, NEW d \in Nat \ {0}
  PROVE  /\ a \div d \in Int
         /\ a % d = 0 <=> \E m \in Int : a = m * d
         /\ a % d = 0 => a = (a \div d) * d
         /\ \A m \in Int : a = m * d => a \div d = m
OBVIOUS

\* The denominators that clear n / d are those that clear any equal m / e.
LEMMA SameClears ==
  ASSUME NEW n \in Int, NEW d \in Nat \ {0}, NEW m \in Int, NEW e \in Nat \ {0},
         n * e = m * d, NEW k \in Nat, Clears(k, n, d)
  PROVE  Clears(k, m, e) /\ (n * k) \div d = (m * k) \div e
<1>1. n * k \in Int /\ m * k \in Int
  OBVIOUS
<1>2. PICK x \in Int : n * k = x * d
  BY <1>1, Divides DEF Clears
<1>3. (m * k) * d = (x * e) * d
  <2>1. (m * d) * k = (n * k) * e
    OBVIOUS
  <2> QED
    BY <2>1, <1>2
<1>4. m * k = x * e
  BY <1>3, Cancel
<1> QED
  BY <1>1, <1>2, <1>4, Divides DEF Clears

\* A quotient has a least denominator.
LEMMA LeastClears ==
  ASSUME NEW n \in Int, NEW d \in Nat \ {0}
  PROVE  \E q \in 1 .. d : Clears(q, n, d) /\ \A j \in 1 .. (q - 1) : ~Clears(j, n, d)
<1> DEFINE S == {k \in 1 .. d : Clears(k, n, d)}
<1>1. d \in S
  <2>1. n * d \in Int
    OBVIOUS
  <2> QED
    BY <2>1, Divides DEF Clears
<1>2. PICK q \in S : \A y \in S : q <= y
  <2>1. S \subseteq Nat /\ S # {}
    BY <1>1
  <2> HIDE DEF S
  <2> QED
    BY <2>1, FirstExists
<1> QED
  BY <1>2

\* Fraction takes that one.
LEMMA FractionIs ==
  ASSUME NEW n \in Int, NEW d \in Nat \ {0}
  PROVE  \E q \in 1 .. d : /\ Clears(q, n, d) /\ \A j \in 1 .. (q - 1) : ~Clears(j, n, d)
                           /\ Fraction(n, d) = <<(n * q) \div d, q>>
BY LeastClears, Zenon DEF Fraction

\* Equal quotients have one fraction.
LEMMA SameFraction ==
  ASSUME NEW n \in Int, NEW d \in Nat \ {0}, NEW m \in Int, NEW e \in Nat \ {0}, n * e = m * d
  PROVE  Fraction(n, d) = Fraction(m, e)
<1>1. PICK q \in 1 .. d : /\ Clears(q, n, d) /\ \A j \in 1 .. (q - 1) : ~Clears(j, n, d)
                          /\ Fraction(n, d) = <<(n * q) \div d, q>>
  BY FractionIs
<1>2. PICK r \in 1 .. e : /\ Clears(r, m, e) /\ \A j \in 1 .. (r - 1) : ~Clears(j, m, e)
                          /\ Fraction(m, e) = <<(m * r) \div e, r>>
  BY FractionIs
<1>3. q \in Nat /\ r \in Nat
  OBVIOUS
<1>4. Clears(q, m, e) /\ (n * q) \div d = (m * q) \div e
  <2>1. Clears(q, n, d)
    BY <1>1
  <2> HIDE <1>1, <1>2
  <2> QED
    BY <2>1, <1>3, SameClears
<1>5. Clears(r, n, d)
  <2>1. Clears(r, m, e) /\ m * d = n * e
    BY <1>2
  <2> QED
    BY <2>1, <1>3, SameClears
<1>6. q = r
  <2>1. ~(r < q) /\ ~(q < r)
    BY <1>1, <1>2, <1>4, <1>5
  <2> QED
    BY <1>3, <2>1
<1> QED
  BY <1>1, <1>2, <1>4, <1>6

\* A fraction is equal to what it was made of.
LEMMA FractionStands ==
  ASSUME NEW n \in Int, NEW d \in Nat \ {0}
  PROVE  Stands(Fraction(n, d), n, d)
<1>1. PICK q \in 1 .. d : /\ Clears(q, n, d)
                          /\ Fraction(n, d) = <<(n * q) \div d, q>>
  BY FractionIs
<1> DEFINE p == (n * q) \div d
<1>2. n * q \in Int /\ q \in Nat \ {0}
  BY <1>1
<1>3. p \in Int /\ n * q = p * d
  BY <1>1, <1>2, Divides DEF Clears
<1> HIDE DEF p
<1>4. Fraction(p, q) = Fraction(n, d)
  BY <1>2, <1>3, SameFraction
<1>5. Fraction(n, d) = <<p, q>>
  BY <1>1 DEF p
<1> QED
  BY <1>2, <1>3, <1>4, <1>5 DEF Stands, Frac

\* A fraction is its numerator over its denominator.
LEMMA Parts ==
  ASSUME NEW a \in Frac
  PROVE  /\ a[1] \in Int /\ a[2] \in Nat \ {0} /\ Stands(a, a[1], a[2])
         /\ a = <<a[1], a[2]>>
BY DEF Frac, Stands

\* Equal values are equal.
LEMMA EqualFractions ==
  ASSUME NEW a \in Frac, NEW b \in Frac, a[1] * b[2] = b[1] * a[2]
  PROVE  a = b
BY Parts, SameFraction DEF Frac

\* Fractions are equal when their quotients are.
LEMMA StandsEqual ==
  ASSUME NEW n \in Int, NEW d \in Nat \ {0}, NEW m \in Int, NEW e \in Nat \ {0},
         NEW a, NEW b, Stands(a, n, d), Stands(b, m, e)
  PROVE  a = b <=> n * e = m * d
<1>1. a[1] \in Int /\ a[2] \in Nat \ {0} /\ b[1] \in Int /\ b[2] \in Nat \ {0}
  BY Parts DEF Stands
<1> DEFINE p == a[1] q == a[2] r == b[1] s == b[2]
<1>2. p * d = n * q /\ r * e = m * s
  BY DEF Stands
<1>3. p \in Int /\ q \in Nat \ {0} /\ r \in Int /\ s \in Nat \ {0}
  BY <1>1
<1>4. ASSUME n * e = m * d PROVE a = b
  <2> HIDE DEF p, q, r, s
  <2>1. (p * s) * (d * e) = (r * q) * (d * e)
    <3>1. (p * s) * (d * e) = (p * d) * (s * e)
      BY <1>3
    <3>2. (r * q) * (d * e) = (r * e) * (q * d)
      BY <1>3
    <3>3. (n * q) * (s * e) = (n * e) * (q * s)
      BY <1>3
    <3>4. (m * s) * (q * d) = (m * d) * (q * s)
      BY <1>3
    <3> QED
      BY <1>2, <1>4, <3>1, <3>2, <3>3, <3>4
  <2>2. p * s \in Int /\ r * q \in Int /\ d * e \in Nat \ {0}
    BY <1>3
  <2>3. p * s = r * q
    BY <2>1, <2>2, Cancel
  <2> USE DEF p, q, r, s
  <2> QED
    BY <2>3, EqualFractions DEF Stands
<1>5. ASSUME a = b PROVE n * e = m * d
  <2>1. p = r /\ q = s
    BY <1>5
  <2> HIDE DEF p, q, r, s
  <2>2. (n * e) * q = (m * d) * q
    <3>1. (n * e) * q = (n * q) * e /\ (m * d) * q = (m * q) * d
      BY <1>3
    <3>2. (p * d) * e = (p * e) * d
      BY <1>3
    <3> QED
      BY <1>2, <2>1, <3>1, <3>2
  <2>3. n * e \in Int /\ m * d \in Int
    OBVIOUS
  <2> QED
    BY <1>3, <2>2, <2>3, Cancel
<1> QED
  BY <1>4, <1>5

\* They compare as their quotients do.
LEMMA StandsOrder ==
  ASSUME NEW n \in Int, NEW d \in Nat \ {0}, NEW m \in Int, NEW e \in Nat \ {0},
         NEW a, NEW b, Stands(a, n, d), Stands(b, m, e)
  PROVE  /\ AtMost(a, b) <=> n * e <= m * d
         /\ Positive(a) <=> n > 0
<1>1. a[1] \in Int /\ a[2] \in Nat \ {0} /\ b[1] \in Int /\ b[2] \in Nat \ {0}
  BY Parts DEF Stands
<1> DEFINE p == a[1] q == a[2] r == b[1] s == b[2]
<1>2. p * d = n * q /\ r * e = m * s
  BY DEF Stands
<1>3. p \in Int /\ q \in Nat \ {0} /\ r \in Int /\ s \in Nat \ {0}
  BY <1>1
<1>4. p * s <= r * q <=> n * e <= m * d
  <2> HIDE DEF p, q, r, s
  <2>1. /\ (p * s) * (d * e) = (n * e) * (q * s)
        /\ (r * q) * (d * e) = (m * d) * (q * s)
    <3>1. /\ (p * s) * (d * e) = (p * d) * (s * e)
          /\ (r * q) * (d * e) = (r * e) * (q * d)
          /\ (n * q) * (s * e) = (n * e) * (q * s)
          /\ (m * s) * (q * d) = (m * d) * (q * s)
      BY <1>3
    <3> QED
      BY <1>2, <3>1
  <2>2. /\ p * s \in Int /\ r * q \in Int /\ n * e \in Int /\ m * d \in Int
        /\ d * e \in Nat \ {0} /\ q * s \in Nat \ {0}
    BY <1>3
  <2> QED
    BY <2>1, <2>2, CancelOrder
<1>5. p > 0 <=> n > 0
  <2> HIDE DEF p, q, r, s
  <2> QED
    BY <1>2, <1>3
<1> QED
  BY <1>4, <1>5 DEF AtMost, Positive

\* What is equal to a quotient is equal to one that equals it.
LEMMA Restands ==
  ASSUME NEW n \in Int, NEW d \in Nat \ {0}, NEW m \in Int, NEW e \in Nat \ {0},
         NEW a, Stands(a, n, d), n * e = m * d
  PROVE  Stands(a, m, e)
<1> DEFINE p == a[1] q == a[2]
<1>1. p \in Int /\ q \in Nat \ {0} /\ p * d = n * q
  BY Parts DEF Stands
<1>2. p * e = m * q
  <2> HIDE DEF p, q
  <2>1. (p * e) * d = (m * q) * d
    <3>1. /\ (p * e) * d = (p * d) * e /\ (n * q) * e = (n * e) * q
          /\ (m * d) * q = (m * q) * d
      BY <1>1
    <3> QED
      BY <1>1, <3>1
  <2>2. p * e \in Int /\ m * q \in Int
    BY <1>1
  <2> QED
    BY <2>1, <2>2, Cancel
<1> QED
  BY <1>2 DEF Stands

\* A whole number over any denominator.
LEMMA WholeStands ==
  ASSUME NEW n \in Int, NEW d \in Nat \ {0}
  PROVE  Stands(Whole(n), n * d, d) /\ Stands(Zero, 0, d)
<1>1. \A i \in Int : Whole(i) \in Frac
  <2> TAKE i \in Int
  <2>1. PICK q \in 1 .. 1 : Fraction(i, 1) = <<(i * q) \div 1, q>>
    BY FractionIs
  <2>2. q = 1 /\ (i * 1) \div 1 = i
    OBVIOUS
  <2> QED
    BY <2>1, <2>2 DEF Whole, Frac
<1> QED
  BY <1>1 DEF Stands, Whole, Zero

\* A fraction over a multiple of its denominator.
LEMMA Scale ==
  ASSUME NEW n \in Int, NEW d \in Nat \ {0}, NEW a, Stands(a, n, d), NEW k \in Nat \ {0}
  PROVE  Stands(a, n * k, d * k) /\ n * k \in Int /\ d * k \in Nat \ {0}
<1>1. n * k \in Int /\ d * k \in Nat \ {0} /\ n * (d * k) = (n * k) * d
  OBVIOUS
<1> QED
  BY <1>1, Restands

\* Two fractions over one denominator.
LEMMA Common2 ==
  ASSUME NEW a \in Frac, NEW b \in Frac
  PROVE  \E d \in Nat \ {0} : \E w, x \in Int : Stands(a, w, d) /\ Stands(b, x, d)
<1>1. /\ a[1] \in Int /\ a[2] \in Nat \ {0} /\ Stands(a, a[1], a[2])
      /\ b[1] \in Int /\ b[2] \in Nat \ {0} /\ Stands(b, b[1], b[2])
  BY Parts
<1>2. /\ Stands(a, a[1] * b[2], a[2] * b[2]) /\ a[1] * b[2] \in Int /\ a[2] * b[2] \in Nat \ {0}
      /\ Stands(b, b[1] * a[2], b[2] * a[2]) /\ b[1] * a[2] \in Int
  BY <1>1, Scale
<1>3. b[2] * a[2] = a[2] * b[2]
  BY <1>1
<1> QED
  BY <1>2, <1>3

\* Four fractions over one denominator.
LEMMA Common4 ==
  ASSUME NEW a \in Frac, NEW b \in Frac, NEW c \in Frac, NEW f \in Frac
  PROVE  \E d \in Nat \ {0} : \E w, x, y, z \in Int :
           Stands(a, w, d) /\ Stands(b, x, d) /\ Stands(c, y, d) /\ Stands(f, z, d)
<1>1. PICK d \in Nat \ {0} : \E w, x \in Int : Stands(a, w, d) /\ Stands(b, x, d)
  BY Common2
<1>2. PICK e \in Nat \ {0} : \E y, z \in Int : Stands(c, y, e) /\ Stands(f, z, e)
  BY Common2
<1>3. PICK w, x \in Int : Stands(a, w, d) /\ Stands(b, x, d)
  BY <1>1
<1>4. PICK y, z \in Int : Stands(c, y, e) /\ Stands(f, z, e)
  BY <1>2
<1>5. /\ Stands(a, w * e, d * e) /\ w * e \in Int /\ d * e \in Nat \ {0}
      /\ Stands(b, x * e, d * e) /\ x * e \in Int
  BY <1>3, Scale
<1>6. /\ Stands(c, y * d, e * d) /\ y * d \in Int
      /\ Stands(f, z * d, e * d) /\ z * d \in Int
  BY <1>4, Scale
<1>7. e * d = d * e
  OBVIOUS
<1> QED
  BY <1>5, <1>6, <1>7

\* Over one denominator, fractions compare and add like their numerators.
LEMMA Same ==
  ASSUME NEW d \in Nat \ {0}, NEW x \in Int, NEW y \in Int,
         NEW a, NEW b, Stands(a, x, d), Stands(b, y, d)
  PROVE  /\ a = b <=> x = y
         /\ AtMost(a, b) <=> x <= y
         /\ Positive(a) <=> x > 0
<1>1. x * d = y * d <=> x = y
  OBVIOUS
<1>2. x * d <= y * d <=> x <= y
  OBVIOUS
<1>3. a = b <=> x * d = y * d
  BY StandsEqual
<1>4. /\ AtMost(a, b) <=> x * d <= y * d
      /\ Positive(a) <=> x > 0
  BY StandsOrder
<1> QED
  BY <1>1, <1>2, <1>3, <1>4

\* They add like their numerators.
LEMMA SameSum ==
  ASSUME NEW d \in Nat \ {0}, NEW x \in Int, NEW y \in Int,
         NEW a, NEW b, Stands(a, x, d), Stands(b, y, d)
  PROVE  Stands(Plus(a, b), x + y, d) /\ Stands(Minus(a, b), x - y, d)
<1> DEFINE p == a[1] q == a[2] r == b[1] s == b[2]
<1>1. /\ p \in Int /\ q \in Nat \ {0} /\ p * d = x * q
      /\ r \in Int /\ s \in Nat \ {0} /\ r * d = y * s
  BY Parts DEF Stands
<1>2. /\ Stands(Fraction(p * s + r * q, q * s), x + y, d)
      /\ Stands(Fraction(p * s - r * q, q * s), x - y, d)
  <2> HIDE DEF p, q, r, s
  <2>1. /\ p * s + r * q \in Int /\ p * s - r * q \in Int /\ q * s \in Nat \ {0}
        /\ x + y \in Int /\ x - y \in Int
    BY <1>1
  <2>2. /\ (p * s + r * q) * d = (p * d) * s + (r * d) * q
        /\ (p * s - r * q) * d = (p * d) * s - (r * d) * q
    BY <1>1
  <2>3. /\ (x * q) * s + (y * s) * q = (x + y) * (q * s)
        /\ (x * q) * s - (y * s) * q = (x - y) * (q * s)
    BY <1>1
  <2>4. /\ (p * s + r * q) * d = (x + y) * (q * s)
        /\ (p * s - r * q) * d = (x - y) * (q * s)
    BY <1>1, <2>2, <2>3
  <2>5. /\ Stands(Fraction(p * s + r * q, q * s), p * s + r * q, q * s)
        /\ Stands(Fraction(p * s - r * q, q * s), p * s - r * q, q * s)
    BY <2>1, FractionStands
  <2> QED
    BY <2>1, <2>4, <2>5, Restands
<1> QED
  BY <1>2 DEF Plus, Minus

\* Products and quotients of fractions.
LEMMA TimesStands ==
  ASSUME NEW n \in Int, NEW d \in Nat \ {0}, NEW m \in Int, NEW e \in Nat \ {0},
         NEW a, NEW b, Stands(a, n, d), Stands(b, m, e)
  PROVE  /\ Stands(Times(a, b), n * m, d * e) /\ n * m \in Int /\ d * e \in Nat \ {0}
         /\ m > 0 => Stands(Over(a, b), n * e, d * m) /\ n * e \in Int /\ d * m \in Nat \ {0}
<1> DEFINE p == a[1] q == a[2] r == b[1] s == b[2]
<1>1. /\ p \in Int /\ q \in Nat \ {0} /\ p * d = n * q
      /\ r \in Int /\ s \in Nat \ {0} /\ r * e = m * s
  BY Parts DEF Stands
<1>2. n * m \in Int /\ d * e \in Nat \ {0} /\ n * e \in Int
  OBVIOUS
<1>3. Stands(Fraction(p * r, q * s), n * m, d * e)
  <2> HIDE DEF p, q, r, s
  <2>1. p * r \in Int /\ q * s \in Nat \ {0}
    BY <1>1
  <2>2. (p * r) * (d * e) = (p * d) * (r * e) /\ (n * q) * (m * s) = (n * m) * (q * s)
    BY <1>1
  <2>3. (p * r) * (d * e) = (n * m) * (q * s)
    BY <1>1, <2>2
  <2>4. Stands(Fraction(p * r, q * s), p * r, q * s)
    BY <2>1, FractionStands
  <2> QED
    BY <1>2, <2>1, <2>3, <2>4, Restands
<1>4. ASSUME m > 0 PROVE d * m \in Nat \ {0} /\ Stands(Fraction(p * s, q * r), n * e, d * m)
  <2> HIDE DEF p, q, r, s
  <2>1. d * m \in Nat \ {0}
    BY <1>4
  <2>2. r > 0
    BY <1>1, <1>4
  <2>3. p * s \in Int /\ q * r \in Nat \ {0}
    BY <1>1, <2>2
  <2>4. (p * s) * (d * m) = (p * d) * (m * s) /\ (n * q) * (r * e) = (n * e) * (q * r)
    BY <1>1
  <2>5. (p * s) * (d * m) = (n * e) * (q * r)
    BY <1>1, <2>4
  <2>6. Stands(Fraction(p * s, q * r), p * s, q * r)
    BY <2>3, FractionStands
  <2> QED
    BY <1>2, <2>1, <2>3, <2>5, <2>6, Restands
<1> QED
  BY <1>2, <1>3, <1>4 DEF Times, Over

\* The numerator of a over the denominator d.
Fits(a, d) == \E n \in Int : Stands(a, n, d)
Num(a, d)  == CHOOSE n \in Int : Stands(a, n, d)

\* A fraction that has a numerator is equal to it over d.
LEMMA NumIs ==
  ASSUME NEW d \in Nat \ {0}, NEW a, Fits(a, d)
  PROVE  Num(a, d) \in Int /\ Stands(a, Num(a, d), d)
BY DEF Fits, Num

\* It has no other.
LEMMA NumEqual ==
  ASSUME NEW d \in Nat \ {0}, NEW n \in Int, NEW a, Stands(a, n, d)
  PROVE  Fits(a, d) /\ Num(a, d) = n
<1>1. Fits(a, d)
  BY DEF Fits
<1>2. Num(a, d) \in Int /\ Stands(a, Num(a, d), d)
  BY <1>1, NumIs
<1>3. a = a <=> Num(a, d) = n
  BY <1>2, Same
<1> QED
  BY <1>1, <1>3

\* Numerators are integers.
LEMMA NumInt ==
  ASSUME NEW d \in Nat \ {0}, NEW a, Fits(a, d) PROVE Num(a, d) \in Int
BY NumIs

\* Fractions over d compare like their numerators,
LEMMA NumOrder ==
  ASSUME NEW d \in Nat \ {0}, NEW a, NEW b, Fits(a, d), Fits(b, d)
  PROVE  /\ (a = b) <=> (Num(a, d) = Num(b, d))
         /\ AtMost(a, b) <=> Num(a, d) <= Num(b, d)
BY NumIs, Same

\* are positive when those are,
LEMMA NumSign ==
  ASSUME NEW d \in Nat \ {0}, NEW a, Fits(a, d)
  PROVE  Positive(a) <=> Num(a, d) > 0
BY NumIs, Same

\* nothing when those are,
LEMMA NumZero ==
  ASSUME NEW d \in Nat \ {0} PROVE Fits(Zero, d) /\ Num(Zero, d) = 0
<1>1. 0 \in Int /\ Stands(Zero, 0, d)
  BY WholeStands
<1> QED
  BY <1>1, NumEqual

\* add,
LEMMA NumPlus ==
  ASSUME NEW d \in Nat \ {0}, NEW a, NEW b, Fits(a, d), Fits(b, d)
  PROVE  Fits(Plus(a, b), d) /\ Num(Plus(a, b), d) = Num(a, d) + Num(b, d)
<1>1. PICK m \in Int : m = Num(a, d) + Num(b, d)
  BY NumInt
<1>2. Stands(Plus(a, b), m, d)
  BY <1>1, NumIs, SameSum
<1> QED
  BY <1>1, <1>2, NumEqual

\* subtract
LEMMA NumMinus ==
  ASSUME NEW d \in Nat \ {0}, NEW a, NEW b, Fits(a, d), Fits(b, d)
  PROVE  Fits(Minus(a, b), d) /\ Num(Minus(a, b), d) = Num(a, d) - Num(b, d)
<1>1. PICK m \in Int : m = Num(a, d) - Num(b, d)
  BY NumInt
<1>2. Stands(Minus(a, b), m, d)
  BY <1>1, NumIs, SameSum
<1> QED
  BY <1>1, <1>2, NumEqual

\* and multiply like them.
LEMMA NumTimes ==
  ASSUME NEW d \in Nat \ {0}, NEW a, NEW b, Fits(a, d), Fits(b, d), NEW e, e = d * d
  PROVE  /\ e \in Nat \ {0} /\ Fits(Times(a, b), e) /\ Num(Times(a, b), e) = Num(a, d) * Num(b, d)
<1>1. PICK m \in Int : m = Num(a, d) * Num(b, d)
  BY NumInt
<1>2. Stands(Times(a, b), m, e) /\ e \in Nat \ {0}
  BY <1>1, NumIs, TimesStands
<1> QED
  BY <1>1, <1>2, NumEqual

\* Any four fractions have a denominator in common.
LEMMA FitTogether ==
  ASSUME NEW a \in Frac, NEW b \in Frac, NEW c \in Frac, NEW f \in Frac
  PROVE  \E d \in Nat \ {0} : Fits(a, d) /\ Fits(b, d) /\ Fits(c, d) /\ Fits(f, d)
BY Common4 DEF Fits

\* What fits a denominator is a fraction.
LEMMA IsFrac == ASSUME NEW a, NEW d, Fits(a, d) PROVE a \in Frac
BY DEF Fits, Stands

\* What sums, products and quotients of fractions are.
LEMMA Closed ==
  ASSUME NEW a \in Frac, NEW b \in Frac
  PROVE  /\ Plus(a, b) \in Frac /\ Minus(a, b) \in Frac /\ Times(a, b) \in Frac
         /\ Positive(b) => Over(a, b) \in Frac
<1>1. PICK d \in Nat \ {0} : Fits(a, d) /\ Fits(b, d)
  BY FitTogether
<1>2. Fits(Plus(a, b), d) /\ Fits(Minus(a, b), d) /\ Fits(Times(a, b), d * d)
  BY <1>1, NumPlus, NumMinus, NumTimes
<1>3. ASSUME Positive(b) PROVE Over(a, b) \in Frac
  <2>1. Num(b, d) > 0
    BY <1>1, <1>3, NumSign
  <2>2. Stands(Over(a, b), Num(a, d) * d, d * Num(b, d))
    BY <1>1, <2>1, NumIs, TimesStands
  <2> QED
    BY <2>2 DEF Stands
<1> QED
  BY <1>2, <1>3, IsFrac

\* Whole numbers are fractions.
LEMMA Wholes ==
  ASSUME NEW n \in Int
  PROVE  Whole(n) \in Frac /\ Zero \in Frac /\ (Positive(Whole(n)) <=> n > 0)
<1>1. Whole(n) \in Frac /\ Zero \in Frac
  BY WholeStands DEF Stands
<1>2. Positive(Whole(n)) <=> n > 0
  BY DEF Positive, Whole
<1> QED
  BY <1>1, <1>2

\* The order of fractions is total, and sums keep it.
LEMMA Ordering ==
  ASSUME NEW a \in Frac, NEW b \in Frac, NEW c \in Frac
  PROVE  /\ AtMost(a, a)
         /\ AtMost(a, b) \/ AtMost(b, a)
         /\ AtMost(a, b) /\ AtMost(b, a) => a = b
         /\ AtMost(a, b) /\ AtMost(b, c) => AtMost(a, c)
         /\ AtMost(Zero, a) <=> (a = Zero \/ Positive(a))
         /\ Positive(a) <=> ~AtMost(a, Zero)
         /\ Positive(Minus(Zero, a)) <=> ~AtMost(Zero, a)
         /\ ~Positive(Zero)
<1>1. PICK d \in Nat \ {0} : Fits(a, d) /\ Fits(b, d) /\ Fits(c, d)
  BY FitTogether
<1>2. Fits(Zero, d) /\ Num(Zero, d) = 0
  BY NumZero
<1>3. Fits(Minus(Zero, a), d) /\ Num(Minus(Zero, a), d) = 0 - Num(a, d)
  BY <1>1, <1>2, NumMinus
<1>4. Num(a, d) \in Int /\ Num(b, d) \in Int /\ Num(c, d) \in Int
  BY <1>1, NumInt
<1>5. (Positive(a) <=> Num(a, d) > 0) /\ (Positive(Zero) <=> 0 > 0)
      /\ (Positive(Minus(Zero, a)) <=> 0 - Num(a, d) > 0)
  BY <1>1, <1>2, <1>3, NumSign
<1> QED
  BY <1>1, <1>2, <1>4, <1>5, NumOrder

\* Sums and differences.
LEMMA Sums ==
  ASSUME NEW a \in Frac, NEW b \in Frac, NEW c \in Frac
  PROVE  /\ Plus(a, Zero) = a /\ Plus(Zero, a) = a /\ Minus(a, Zero) = a /\ Minus(a, a) = Zero
         /\ Plus(a, b) = Plus(b, a) /\ Plus(Minus(a, b), b) = a /\ Minus(Plus(a, b), b) = a
         /\ Plus(Plus(a, b), c) = Plus(a, Plus(b, c))
         /\ Minus(Plus(a, b), c) = Plus(Minus(a, c), b)
         /\ Minus(Minus(a, b), c) = Minus(a, Plus(b, c))
         /\ Plus(Minus(a, b), Plus(c, b)) = Plus(a, c)
         /\ AtMost(a, Minus(b, c)) <=> AtMost(Plus(c, a), b)
         /\ AtMost(Zero, Minus(a, b)) <=> AtMost(b, a)
         /\ (Plus(a, b) = c) <=> (a = Minus(c, b))
<1>1. PICK d \in Nat \ {0} : Fits(a, d) /\ Fits(b, d) /\ Fits(c, d)
  BY FitTogether
<1>2. Fits(Zero, d) /\ Num(Zero, d) = 0
  BY NumZero
<1>3. Num(a, d) \in Int /\ Num(b, d) \in Int /\ Num(c, d) \in Int
  BY <1>1, NumInt
<1>4. Plus(a, Zero) = a /\ Plus(Zero, a) = a /\ Minus(a, Zero) = a /\ Minus(a, a) = Zero
  BY <1>1, <1>2, <1>3, NumPlus, NumMinus, NumOrder
<1>5. Plus(a, b) = Plus(b, a) /\ Plus(Minus(a, b), b) = a /\ Minus(Plus(a, b), b) = a
  BY <1>1, <1>3, NumPlus, NumMinus, NumOrder
<1>6. Plus(Plus(a, b), c) = Plus(a, Plus(b, c))
  BY <1>1, <1>3, NumPlus, NumOrder
<1>7. Minus(Plus(a, b), c) = Plus(Minus(a, c), b)
  BY <1>1, <1>3, NumPlus, NumMinus, NumOrder
<1>8. Minus(Minus(a, b), c) = Minus(a, Plus(b, c))
  BY <1>1, <1>3, NumPlus, NumMinus, NumOrder
<1>9. Plus(Minus(a, b), Plus(c, b)) = Plus(a, c)
  BY <1>1, <1>3, NumPlus, NumMinus, NumOrder
<1>10. AtMost(a, Minus(b, c)) <=> AtMost(Plus(c, a), b)
  BY <1>1, <1>3, NumPlus, NumMinus, NumOrder
<1>11. AtMost(Zero, Minus(a, b)) <=> AtMost(b, a)
  BY <1>1, <1>2, <1>3, NumMinus, NumOrder
<1>12. (Plus(a, b) = c) <=> (a = Minus(c, b))
  BY <1>1, <1>3, NumPlus, NumMinus, NumOrder
<1> QED
  BY <1>4, <1>5, <1>6, <1>7, <1>8, <1>9, <1>10, <1>11, <1>12

\* Products.
LEMMA Products ==
  ASSUME NEW a \in Frac, NEW b \in Frac, NEW c \in Frac
  PROVE  /\ Times(a, b) = Times(b, a) /\ Times(Zero, a) = Zero
         /\ Times(Plus(a, b), c) = Plus(Times(a, c), Times(b, c))
         /\ Times(Minus(a, b), c) = Minus(Times(a, c), Times(b, c))
         /\ AtMost(a, b) /\ AtMost(Zero, c) => AtMost(Times(a, c), Times(b, c))
         /\ Positive(a) /\ Positive(b) => Positive(Times(a, b))
<1>1. PICK d \in Nat \ {0} : Fits(a, d) /\ Fits(b, d) /\ Fits(c, d)
  BY FitTogether
<1>2. PICK e \in Nat \ {0} : e = d * d
  OBVIOUS
<1>3. PICK w, x, y \in Int : w = Num(a, d) /\ x = Num(b, d) /\ y = Num(c, d)
  BY <1>1, NumInt
<1>4. /\ Fits(Zero, d) /\ Num(Zero, d) = 0 /\ Fits(Zero, e) /\ Num(Zero, e) = 0
      /\ Fits(Plus(a, b), d) /\ Num(Plus(a, b), d) = w + x
      /\ Fits(Minus(a, b), d) /\ Num(Minus(a, b), d) = w - x
  BY <1>1, <1>2, <1>3, NumZero, NumPlus, NumMinus
<1>5. /\ Fits(Times(a, b), e) /\ Num(Times(a, b), e) = w * x
      /\ Fits(Times(b, a), e) /\ Num(Times(b, a), e) = x * w
      /\ Fits(Times(a, c), e) /\ Num(Times(a, c), e) = w * y
      /\ Fits(Times(b, c), e) /\ Num(Times(b, c), e) = x * y
  BY <1>1, <1>2, <1>3, NumTimes
<1>6. /\ Fits(Times(Zero, a), e) /\ Num(Times(Zero, a), e) = 0 * w
      /\ Fits(Times(Plus(a, b), c), e) /\ Num(Times(Plus(a, b), c), e) = (w + x) * y
      /\ Fits(Times(Minus(a, b), c), e) /\ Num(Times(Minus(a, b), c), e) = (w - x) * y
  BY <1>1, <1>2, <1>3, <1>4, NumTimes
<1>7. /\ Fits(Plus(Times(a, c), Times(b, c)), e)
      /\ Num(Plus(Times(a, c), Times(b, c)), e) = w * y + x * y
      /\ Fits(Minus(Times(a, c), Times(b, c)), e)
      /\ Num(Minus(Times(a, c), Times(b, c)), e) = w * y - x * y
  BY <1>2, <1>5, NumPlus, NumMinus
<1>8. /\ x * w = w * x /\ 0 * w = 0 /\ (w + x) * y = w * y + x * y
      /\ (w - x) * y = w * y - x * y
      /\ w <= x /\ 0 <= y => w * y <= x * y
      /\ w > 0 /\ x > 0 => w * x > 0
  OBVIOUS
<1>9. Times(a, b) = Times(b, a) /\ Times(Zero, a) = Zero
  BY <1>2, <1>4, <1>5, <1>6, <1>8, NumOrder
<1>10. Times(Plus(a, b), c) = Plus(Times(a, c), Times(b, c))
  BY <1>2, <1>6, <1>7, <1>8, NumOrder
<1>11. Times(Minus(a, b), c) = Minus(Times(a, c), Times(b, c))
  BY <1>2, <1>6, <1>7, <1>8, NumOrder
<1>12. AtMost(a, b) /\ AtMost(Zero, c) => AtMost(Times(a, c), Times(b, c))
  <2>1. (AtMost(a, b) <=> w <= x) /\ (AtMost(Zero, c) <=> 0 <= y)
    BY <1>1, <1>3, <1>4, NumOrder
  <2>2. AtMost(Times(a, c), Times(b, c)) <=> w * y <= x * y
    BY <1>2, <1>5, NumOrder
  <2> QED
    BY <1>8, <2>1, <2>2
<1>13. Positive(a) /\ Positive(b) => Positive(Times(a, b))
  <2>1. (Positive(a) <=> w > 0) /\ (Positive(b) <=> x > 0)
    BY <1>1, <1>3, NumSign
  <2>2. Positive(Times(a, b)) <=> w * x > 0
    BY <1>2, <1>5, NumSign
  <2> QED
    BY <1>8, <2>1, <2>2
<1> QED
  BY <1>9, <1>10, <1>11, <1>12, <1>13

\* Quotients.
LEMMA Quotients ==
  ASSUME NEW a \in Frac, NEW b \in Frac, Positive(b)
  PROVE  /\ Times(Over(a, b), b) = a /\ Times(b, Over(a, b)) = a
         /\ Positive(a) => Positive(Over(a, b)) /\ Over(a, Over(a, b)) = b
<1>1. PICK d \in Nat \ {0} : Fits(a, d) /\ Fits(b, d)
  BY FitTogether
<1>2. PICK w, x \in Int : w = Num(a, d) /\ x = Num(b, d)
  BY <1>1, NumInt
<1>3. x > 0 /\ (Positive(a) => w > 0) /\ Stands(a, w, d) /\ Stands(b, x, d)
  BY <1>1, <1>2, NumSign, NumIs
<1>4. PICK n \in Int, m \in Nat \ {0} : n = w * d /\ m = d * x
  BY <1>3
<1>5. Stands(Over(a, b), n, m) /\ (w > 0 => n > 0)
  BY <1>3, <1>4, TimesStands
<1>6. Over(a, b) \in Frac
  BY <1>5 DEF Stands
<1>7. Times(Over(a, b), b) = a
  <2>1. PICK p \in Int, q \in Nat \ {0} : p = n * x /\ q = m * d
    OBVIOUS
  <2>2. Stands(Times(Over(a, b), b), p, q)
    BY <1>3, <1>5, <2>1, TimesStands
  <2>3. p * d = w * q
    BY <1>4, <2>1
  <2> QED
    BY <1>3, <2>2, <2>3, StandsEqual
<1>8. Times(b, Over(a, b)) = a
  BY <1>6, <1>7, Products
<1>9. ASSUME Positive(a) PROVE Positive(Over(a, b)) /\ Over(a, Over(a, b)) = b
  <2>1. n > 0
    BY <1>3, <1>5, <1>9
  <2>2. PICK p \in Int, q \in Nat \ {0} : p = w * m /\ q = d * n
    BY <2>1
  <2>3. Stands(Over(a, Over(a, b)), p, q)
    BY <1>3, <1>5, <2>1, <2>2, TimesStands
  <2>4. p * d = x * q
    BY <1>4, <2>2
  <2>5. Over(a, Over(a, b)) = b
    BY <1>3, <2>3, <2>4, StandsEqual
  <2>6. Positive(Over(a, b))
    BY <1>5, <2>1, Same
  <2> QED
    BY <2>5, <2>6
<1> QED
  BY <1>7, <1>8, <1>9

\* The smaller of two is one of them.
LEMMA Smallers ==
  ASSUME NEW a \in Frac, NEW b \in Frac
  PROVE  /\ Smaller(a, b) \in Frac /\ Smaller(a, b) \in {a, b}
         /\ AtMost(Smaller(a, b), a) /\ AtMost(Smaller(a, b), b)
BY Ordering DEF Smaller
=============================================================================
