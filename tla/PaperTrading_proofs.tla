------------------------- MODULE PaperTrading_proofs -------------------------
(***************************************************************************)
(* The seven invariants of PaperTrading, for every number of tokens, bots  *)
(* and users, every set of books, and every way in which trades overlap,   *)
(* crash or are reset. BudgetHolds needs that one loop trades on the       *)
(* database.                                                               *)
(*                                                                         *)
(* The walks and the views are folds: over the levels of a book, and over  *)
(* the order rows. The provers have no induction over data; here a fold is *)
(* shown to be a function on the parts of its set, or a recurrence along   *)
(* its rows (FoldExists), by the well-foundedness of strict inclusion, and *)
(* what each step of it keeps holds at its end.                            *)
(*                                                                         *)
(* What a row says and what the position says belong together, but a trade *)
(* writes the one before the other. The ledger of a token is its rows and  *)
(* the row that is on its way; the invariants relate it to the position in *)
(* every state, and at rest it is the rows.                                *)
(***************************************************************************)
EXTENDS PaperTrading, Fractions_proofs

\* Among finite sets there is always one that contains no other.
LEMMA SubsetMin ==
  ASSUME NEW U, U # {}, \A s \in U : IsFiniteSet(s)
  PROVE  \E s \in U : \A t \in U : t \subseteq s => t = s
<1> DEFINE R == StrictSubsetOrdering(UNION U)
<1>1. IsWellFoundedOn(R, FiniteSubsetsOf(UNION U))
  BY FS_StrictSubsetOrderingWellFounded
<1>2. U \subseteq FiniteSubsetsOf(UNION U)
  BY DEF FiniteSubsetsOf
<1> HIDE DEF R
<1>3. \E x \in U : \A y \in U : ~ (<<y, x>> \in R)
  BY <1>1, <1>2, WFMin
<1> QED  BY <1>3 DEF R, StrictSubsetOrdering

\* A set of numbers with 0 and every successor holds them all: otherwise one
\* of the intervals up to a missing number would contain no other.
LEMMA NatInd ==
  ASSUME NEW S, 0 \in S, \A n \in Nat : n \in S => n + 1 \in S
  PROVE  Nat \subseteq S
<1> SUFFICES ASSUME NEW m \in Nat, m \notin S PROVE FALSE
  OBVIOUS
<1> DEFINE U == {0..n : n \in Nat \ S}
<1>1. \A n \in Nat : IsFiniteSet(0..n)
  <2> TAKE n \in Nat
  <2>1. n \in Int /\ 0 \in Int
    OBVIOUS
  <2> QED  BY <2>1, FS_Interval
<1>2. U # {} /\ \A s \in U : IsFiniteSet(s)
  BY <1>1
<1>3. PICK s \in U : \A t \in U : t \subseteq s => t = s
  <2> HIDE DEF U
  <2> QED  BY <1>2, SubsetMin
<1>4. PICK x \in Nat \ S : s = 0..x
  BY <1>3
<1>5. x # 0 /\ x - 1 \in Nat /\ (x - 1) + 1 = x
  BY <1>4
<1>6. x - 1 \notin S
  BY <1>4, <1>5
<1>7. 0..(x - 1) \in U /\ 0..(x - 1) \subseteq s
  BY <1>4, <1>5, <1>6
<1>8. 0..(x - 1) = 0..x
  BY <1>3, <1>4, <1>7
<1>9. x \in 0..x /\ x \notin 0..(x - 1)
  BY <1>4
<1> QED  BY <1>8, <1>9

\* What holds of a set when it holds of all its parts holds of every finite set.
LEMMA SetInd ==
  ASSUME NEW T, IsFiniteSet(T), NEW P,
         \A S \in SUBSET T : (\A R \in SUBSET S : R # S => R \in P) => S \in P
  PROVE  SUBSET T \subseteq P
<1> SUFFICES ASSUME NEW V \in SUBSET T, V \notin P PROVE FALSE
  OBVIOUS
<1> DEFINE U == {S \in SUBSET T : S \notin P}
<1>1. U # {} /\ \A s \in U : IsFiniteSet(s)
  BY FS_Subset
<1>2. PICK s \in U : \A t \in U : t \subseteq s => t = s
  <2> HIDE DEF U
  <2> QED
    BY <1>1, SubsetMin
<1>3. \A t \in SUBSET s : t # s => t \in P
  BY <1>2
<1> QED
  BY <1>2, <1>3

\* A fold over T of values in W: the last of a set is taken last.
Foldable(T, W, b, last, G) ==
  /\ IsFiniteSet(T) /\ b \in W /\ G \in [W \X T -> W]
  /\ \A S \in (SUBSET T) \ {{}} : last[S] \in S

\* f is the fold over each part of T that takes last[S] of S last.
Folding(f, T, W, b, last, G) ==
  /\ f \in [SUBSET T -> W]
  /\ \A S \in SUBSET T :
       f[S] = IF S = {} THEN b ELSE G[<<f[S \ {last[S]}], last[S]>>]

\* A fold over a finite set has a value, whatever order it takes.
LEMMA FoldExists ==
  ASSUME NEW T, NEW W, NEW b, NEW last, NEW G, Foldable(T, W, b, last, G)
  PROVE  \E f : Folding(f, T, W, b, last, G)
<1> USE DEF Foldable, Folding
<1> DEFINE Chosen(f, S) == IF S = {} THEN b ELSE G[<<f[S \ {last[S]}], last[S]>>]
           P == {n \in Nat : \E f \in [SUBSET T -> W] : \A S \in SUBSET T :
                               Cardinality(S) <= n => f[S] = Chosen(f, S)}
<1>1. \A S \in SUBSET T : /\ IsFiniteSet(S) /\ Cardinality(S) \in Nat
                          /\ Cardinality(S) = 0 <=> S = {}
  BY FS_Subset, FS_CardinalityType, FS_EmptySet
<1>2. \A S \in SUBSET T : S # {} => /\ last[S] \in T /\ S \ {last[S]} \in SUBSET T
                                    /\ Cardinality(S \ {last[S]}) = Cardinality(S) - 1
  <2> TAKE S \in SUBSET T
  <2> HAVE S # {}
  <2>1. last[S] \in S
    OBVIOUS
  <2> QED
    BY <1>1, <2>1, FS_RemoveElement
<1>3. 0 \in P
  <2>1. PICK f : f = [S \in SUBSET T |-> b]
    OBVIOUS
  <2>2. \A S \in SUBSET T : Cardinality(S) <= 0 => f[S] = Chosen(f, S)
    BY <1>1, <2>1
  <2>3. f \in [SUBSET T -> W]
    BY <2>1
  <2> QED
    BY <2>2, <2>3
<1>4. ASSUME NEW n \in Nat, n \in P PROVE n + 1 \in P
  <2>1. PICK f \in [SUBSET T -> W] :
          \A S \in SUBSET T : Cardinality(S) <= n => f[S] = Chosen(f, S)
    BY <1>4
  <2>2. PICK g : g = [S \in SUBSET T |-> IF Cardinality(S) <= n THEN f[S] ELSE Chosen(f, S)]
    OBVIOUS
  <2>3. \A S \in SUBSET T : Chosen(f, S) \in W
    BY <1>2, <2>1
  <2>4. g \in [SUBSET T -> W]
    <3>1. \A S \in SUBSET T : f[S] \in W
      BY <2>1
    <3> HIDE DEF Chosen
    <3> QED
      BY <2>2, <2>3, <3>1
  <2>5. ASSUME NEW S \in SUBSET T, Cardinality(S) <= n + 1 PROVE g[S] = Chosen(g, S)
    <3>1. CASE S = {}
      <4>1. Cardinality(S) <= n
        BY <1>1, <3>1
      <4> QED
        BY <2>1, <2>2, <3>1, <4>1
    <3>2. CASE S # {}
      <4> DEFINE R == S \ {last[S]}
      <4>1. R \in SUBSET T /\ Cardinality(R) <= n
        BY <1>1, <1>2, <2>5, <3>2
      <4>2. g[R] = f[R]
        BY <2>2, <4>1
      <4>3. Chosen(g, S) = Chosen(f, S)
        BY <3>2, <4>2
      <4>4. g[S] = Chosen(f, S)
        BY <2>1, <2>2
      <4> QED
        BY <4>3, <4>4
    <3> QED
      BY <3>1, <3>2
  <2> HIDE DEF Chosen
  <2> QED
    BY <2>4, <2>5
<1>5. Nat \subseteq P
  <2> HIDE DEF P
  <2> QED
    BY <1>3, <1>4, NatInd
<1>6. Cardinality(T) \in P
  BY <1>1, <1>5
<1>7. PICK f \in [SUBSET T -> W] :
        \A S \in SUBSET T : Cardinality(S) <= Cardinality(T) => f[S] = Chosen(f, S)
  BY <1>6
<1>8. \A S \in SUBSET T : Cardinality(S) <= Cardinality(T)
  BY FS_Subset
<1> QED
  BY <1>7, <1>8

\* A finite set that is not empty has an element of the greatest key.
LEMMA GreatestExists ==
  ASSUME NEW T, IsFiniteSet(T), NEW key, \A i \in T : key[i] \in Int
  PROVE  \A S \in SUBSET T : S # {} => \E i \in S : \A j \in S : key[j] <= key[i]
<1> DEFINE P == {S \in SUBSET T : S # {} => \E i \in S : \A j \in S : key[j] <= key[i]}
<1>1. ASSUME NEW S \in SUBSET T, \A R \in SUBSET S : R # S => R \in P PROVE S \in P
  <2> SUFFICES ASSUME S # {} PROVE \E i \in S : \A j \in S : key[j] <= key[i]
    OBVIOUS
  <2>1. PICK x \in S : TRUE
    OBVIOUS
  <2>2. S \ {x} \in P
    BY <1>1, <2>1
  <2>3. CASE S \ {x} = {}
    BY <2>1, <2>3
  <2>4. CASE S \ {x} # {}
    <3>1. PICK i \in S \ {x} : \A j \in S \ {x} : key[j] <= key[i]
      BY <2>2, <2>4
    <3>2. key[x] \in Int /\ key[i] \in Int /\ \A j \in S : key[j] \in Int
      BY <2>1
    <3>3. CASE key[x] <= key[i]
      BY <3>1, <3>3
    <3>4. CASE key[i] <= key[x]
      <4>1. \A j \in S : key[j] <= key[x]
        BY <3>1, <3>2, <3>4
      <4> QED
        BY <2>1, <4>1
    <3> QED
      BY <3>2, <3>3, <3>4
  <2> QED
    BY <2>3, <2>4
<1>2. SUBSET T \subseteq P
  <2> HIDE DEF P
  <2> QED
    BY <1>1, SetInd
<1> QED
  BY <1>2

-----------------------------------------------------------------------------
(* The walks over a book.                                                  *)

\* Amounts of money and shares; levels of a book; walks over one.
Amounts == {a \in Frac : AtMost(Zero, a)}
Level == (Nat \ {0}) \X (Nat \ {0})
Walks == [left : Amounts, shares : Amounts, usd : Amounts, limit : Nat]

\* A walk that buys has spent what is not left, one that sells has sold it.
BuyWalks(size) ==
  {w \in Walks : Plus(w.usd, w.left) = size /\ (Positive(w.shares) <=> Positive(w.usd))}
SellWalks(size) ==
  {w \in Walks : Plus(w.shares, w.left) = size /\ (Positive(w.shares) <=> Positive(w.usd))}

\* A book, or what a price limit leaves of one.
Levels(book) == IsFiniteSet(DOMAIN book) /\ \A i \in DOMAIN book : book[i] \in Level

\* The level that a walk takes last is one of them, and the worst.
LEMMA Lasts ==
  ASSUME NEW book, Levels(book), NEW S \in SUBSET DOMAIN book, S # {}
  PROVE  /\ LastToBuy(book, S) \in S /\ \A j \in S : book[j][1] <= book[LastToBuy(book, S)][1]
         /\ LastToSell(book, S) \in S /\ \A j \in S : book[j][1] >= book[LastToSell(book, S)][1]
<1> DEFINE up == [i \in DOMAIN book |-> book[i][1]]
           down == [i \in DOMAIN book |-> 0 - book[i][1]]
<1>1. \A i \in DOMAIN book : book[i][1] \in Int
  BY DEF Levels, Level
<1>2. \E i \in S : \A j \in S : up[j] <= up[i]
  <2>1. \A i \in DOMAIN book : up[i] \in Int
    BY <1>1
  <2> HIDE DEF up
  <2> QED
    BY <2>1, GreatestExists DEF Levels
<1>3. \E i \in S : \A j \in S : down[j] <= down[i]
  <2>1. \A i \in DOMAIN book : down[i] \in Int
    BY <1>1
  <2> HIDE DEF down
  <2> QED
    BY <2>1, GreatestExists DEF Levels
<1>4. \E i \in S : \A j \in S : book[j][1] <= book[i][1]
  <2>1. \A i \in S : up[i] = book[i][1]
    OBVIOUS
  <2> HIDE DEF up
  <2> QED
    BY <1>2, <2>1
<1>5. \E i \in S : \A j \in S : book[j][1] >= book[i][1]
  <2>1. \A i \in S : down[i] = 0 - book[i][1]
    OBVIOUS
  <2>2. PICK i \in S : \A j \in S : down[j] <= down[i]
    BY <1>3
  <2>3. ASSUME NEW j \in S PROVE book[j][1] >= book[i][1]
    <3>1. down[j] <= down[i]
      BY <2>2
    <3> HIDE DEF down
    <3> QED
      BY <1>1, <2>1, <3>1
  <2> QED
    BY <2>3
<1> QED
  BY <1>4, <1>5 DEF LastToBuy, LastToSell

\* Amounts add, multiply and divide to amounts.
LEMMA AmountLaws ==
  ASSUME NEW a \in Amounts, NEW b \in Amounts
  PROVE  /\ a \in Frac /\ Zero \in Amounts /\ Plus(a, b) \in Amounts /\ Times(a, b) \in Amounts
         /\ Positive(b) => Over(a, b) \in Amounts
         /\ (Positive(a) \/ Positive(b)) <=> Positive(Plus(a, b))
         /\ Smaller(a, b) \in Amounts
         /\ AtMost(a, b) => Minus(b, a) \in Amounts
         /\ (a = Zero) <=> ~Positive(a)
<1>1. a \in Frac /\ b \in Frac /\ AtMost(Zero, a) /\ AtMost(Zero, b) /\ Zero \in Frac
  BY Wholes DEF Amounts
<1>2. /\ Plus(a, b) \in Frac /\ Minus(b, a) \in Frac /\ Times(a, b) \in Frac
      /\ Positive(b) => Over(a, b) \in Frac
  BY <1>1, Closed
<1>3. Zero \in Amounts /\ ((a = Zero) <=> ~Positive(a))
  BY <1>1, Ordering DEF Amounts
<1>4. PICK d \in Nat \ {0} : Fits(a, d) /\ Fits(b, d)
  BY <1>1, FitTogether
<1>5. Fits(Zero, d) /\ Num(Zero, d) = 0 /\ Num(a, d) \in Int /\ Num(b, d) \in Int
  BY <1>4, NumZero, NumInt
<1>6. /\ AtMost(Zero, a) <=> 0 <= Num(a, d)
      /\ AtMost(Zero, b) <=> 0 <= Num(b, d)
  BY <1>4, <1>5, NumOrder
<1>7. /\ Positive(a) <=> Num(a, d) > 0
      /\ Positive(b) <=> Num(b, d) > 0
  BY <1>4, NumSign
<1>8. Fits(Plus(a, b), d) /\ Num(Plus(a, b), d) = Num(a, d) + Num(b, d)
  BY <1>4, NumPlus
<1>9. /\ AtMost(Zero, Plus(a, b)) <=> 0 <= Num(Plus(a, b), d)
      /\ Positive(Plus(a, b)) <=> Num(Plus(a, b), d) > 0
  BY <1>5, <1>8, NumOrder, NumSign
<1>10. Plus(a, b) \in Amounts /\ ((Positive(a) \/ Positive(b)) <=> Positive(Plus(a, b)))
  BY <1>1, <1>2, <1>5, <1>6, <1>7, <1>8, <1>9 DEF Amounts
<1>11. Times(a, b) \in Amounts
  <2>1. Times(Zero, b) = Zero
    BY <1>1, Products
  <2>2. AtMost(Times(Zero, b), Times(a, b))
    BY <1>1, Products
  <2> QED
    BY <1>2, <2>1, <2>2 DEF Amounts
<1>12. ASSUME Positive(b) PROVE Over(a, b) \in Amounts
  <2>1. CASE Positive(a)
    BY <1>1, <1>2, <1>12, <2>1, Quotients, Ordering DEF Amounts
  <2>2. CASE a = Zero
    <3>1. Times(b, Over(a, b)) = Zero /\ Over(a, b) \in Frac
      BY <1>1, <1>2, <1>12, <2>2, Quotients
    <3>2. ~Positive(Minus(Zero, Over(a, b)))
      <4> SUFFICES ASSUME Positive(Minus(Zero, Over(a, b))) PROVE FALSE
        OBVIOUS
      <4>1. Minus(Zero, Over(a, b)) \in Frac
        BY <1>1, <3>1, Closed
      <4>2. Positive(Times(Minus(Zero, Over(a, b)), b))
        BY <1>1, <1>12, <4>1, Products
      <4>3. Times(Minus(Zero, Over(a, b)), b) = Minus(Times(Zero, b), Times(Over(a, b), b))
        BY <1>1, <3>1, Products
      <4>4. Times(Zero, b) = Zero /\ Times(Over(a, b), b) = Zero
        BY <1>1, <3>1, Products
      <4>5. Minus(Zero, Zero) = Zero /\ ~Positive(Zero)
        BY <1>1, Sums, Ordering
      <4> QED
        BY <4>2, <4>3, <4>4, <4>5
    <3> QED
      BY <1>1, <3>1, <3>2, Ordering DEF Amounts
  <2> QED
    BY <1>3, <2>1, <2>2
<1>13. Smaller(a, b) \in Amounts
  BY <1>1, Smallers
<1>14. AtMost(a, b) => Minus(b, a) \in Amounts
  BY <1>1, <1>2, Sums DEF Amounts
<1> QED
  BY <1>1, <1>3, <1>10, <1>11, <1>12, <1>13, <1>14

\* Each level keeps what is spent and what is left together,
LEMMA BuyStep ==
  ASSUME NEW size, NEW w \in BuyWalks(size), NEW level \in Level
  PROVE  BuyLevel(w, level) \in BuyWalks(size)
<1> DEFINE p == Whole(level[1])
           n == Smaller(Whole(level[2]), Over(w.left, p))
           cost == Times(n, p)
<1>1. /\ w.left \in Amounts /\ w.shares \in Amounts /\ w.usd \in Amounts /\ w.limit \in Nat
      /\ Plus(w.usd, w.left) = size /\ (Positive(w.shares) <=> Positive(w.usd))
  BY DEF BuyWalks, Walks
<1>2. level[1] \in Nat \ {0} /\ level[2] \in Nat \ {0}
  BY DEF Level
<1>3. p \in Amounts /\ Positive(p) /\ Whole(level[2]) \in Amounts
  BY <1>2, Wholes, Ordering DEF Amounts
<1>4. Over(w.left, p) \in Amounts /\ Times(Over(w.left, p), p) = w.left
  BY <1>1, <1>3, AmountLaws, Quotients
<1>5. n \in Amounts /\ AtMost(n, Over(w.left, p))
  BY <1>3, <1>4, AmountLaws, Smallers DEF Amounts
<1>6. cost \in Amounts /\ AtMost(cost, w.left)
  BY <1>3, <1>4, <1>5, AmountLaws, Products DEF Amounts
<1> HIDE DEF n, p
<1>7. CASE ~Positive(n)
  BY <1>7 DEF BuyLevel, Take, n, p
<1>8. CASE Positive(n)
  <2> DEFINE v == [left |-> Minus(w.left, cost), shares |-> Plus(w.shares, n),
                   usd |-> Plus(w.usd, cost), limit |-> level[1]]
  <2>1. BuyLevel(w, level) = v
    BY <1>8 DEF BuyLevel, Take, n, p
  <2>2. v.left \in Amounts /\ v.shares \in Amounts /\ v.usd \in Amounts /\ v.limit \in Nat
    BY <1>1, <1>2, <1>5, <1>6, AmountLaws
  <2>3. Plus(v.usd, v.left) = size
    <3>1. w.left \in Frac /\ w.usd \in Frac /\ cost \in Frac
      BY <1>1, <1>6 DEF Amounts
    <3>2. Plus(w.usd, cost) = Plus(cost, w.usd) /\ Plus(Minus(w.left, cost), Plus(w.usd, cost)) = Plus(w.left, w.usd)
      BY <3>1, Sums
    <3>3. Plus(w.left, w.usd) = Plus(w.usd, w.left)
      BY <3>1, Sums
    <3>4. Plus(v.usd, v.left) = Plus(v.left, v.usd)
      BY <2>2, Sums DEF Amounts
    <3> QED
      BY <1>1, <3>2, <3>3, <3>4
  <2>4. Positive(cost)
    BY <1>3, <1>5, <1>8, Products DEF Amounts
  <2>5. Positive(v.shares) /\ Positive(v.usd)
    BY <1>1, <1>5, <1>6, <1>8, <2>4, AmountLaws
  <2> QED
    BY <2>1, <2>2, <2>3, <2>5 DEF BuyWalks, Walks
<1> QED
  BY <1>7, <1>8

\* and what is sold and what is left.
LEMMA SellStep ==
  ASSUME NEW size, NEW w \in SellWalks(size), NEW level \in Level
  PROVE  SellLevel(w, level) \in SellWalks(size)
<1> DEFINE p == Whole(level[1])
           n == Smaller(Whole(level[2]), w.left)
           cost == Times(n, p)
<1>1. /\ w.left \in Amounts /\ w.shares \in Amounts /\ w.usd \in Amounts /\ w.limit \in Nat
      /\ Plus(w.shares, w.left) = size /\ (Positive(w.shares) <=> Positive(w.usd))
  BY DEF SellWalks, Walks
<1>2. level[1] \in Nat \ {0} /\ level[2] \in Nat \ {0}
  BY DEF Level
<1>3. p \in Amounts /\ Positive(p) /\ Whole(level[2]) \in Amounts
  BY <1>2, Wholes, Ordering DEF Amounts
<1>4. n \in Amounts /\ AtMost(n, w.left)
  BY <1>1, <1>3, AmountLaws, Smallers DEF Amounts
<1>5. cost \in Amounts
  BY <1>3, <1>4, AmountLaws
<1> HIDE DEF n, p
<1>6. CASE ~Positive(n)
  BY <1>6 DEF SellLevel, Take, n
<1>7. CASE Positive(n)
  <2> DEFINE v == [left |-> Minus(w.left, n), shares |-> Plus(w.shares, n),
                   usd |-> Plus(w.usd, cost), limit |-> level[1]]
  <2>1. SellLevel(w, level) = v
    BY <1>7 DEF SellLevel, Take, n, p
  <2>2. v.left \in Amounts /\ v.shares \in Amounts /\ v.usd \in Amounts /\ v.limit \in Nat
    BY <1>1, <1>2, <1>4, <1>5, AmountLaws
  <2>3. Plus(v.shares, v.left) = size
    <3>1. w.left \in Frac /\ w.shares \in Frac /\ n \in Frac
      BY <1>1, <1>4 DEF Amounts
    <3>2. Plus(Minus(w.left, n), Plus(w.shares, n)) = Plus(w.left, w.shares)
      BY <3>1, Sums
    <3>3. Plus(w.left, w.shares) = Plus(w.shares, w.left)
      BY <3>1, Sums
    <3>4. Plus(v.shares, v.left) = Plus(v.left, v.shares)
      BY <2>2, Sums DEF Amounts
    <3> QED
      BY <1>1, <3>2, <3>3, <3>4
  <2>4. Positive(cost)
    BY <1>3, <1>4, <1>7, Products DEF Amounts
  <2>5. Positive(v.shares) /\ Positive(v.usd)
    BY <1>1, <1>4, <1>5, <1>7, <2>4, AmountLaws
  <2> QED
    BY <2>1, <2>2, <2>3, <2>5 DEF SellWalks, Walks
<1> QED
  BY <1>6, <1>7

\* What calculate_entry takes, level by level: what it has taken of a set of
\* levels is what it took of all but the last of them, and then that one.
LEMMA EntryFold ==
  ASSUME NEW size \in Amounts, NEW book, Levels(book)
  PROVE  \E f \in [SUBSET DOMAIN book -> BuyWalks(size)] :
           /\ Entry(size, book) = f[DOMAIN book]
           /\ \A S \in SUBSET DOMAIN book :
                f[S] = IF S = {} THEN [Untaken EXCEPT !.left = size]
                       ELSE BuyLevel(f[S \ {LastToBuy(book, S)}], book[LastToBuy(book, S)])
<1> DEFINE T == DOMAIN book
           W == BuyWalks(size)
           b == [Untaken EXCEPT !.left = size]
           last == [S \in SUBSET T |-> LastToBuy(book, S)]
           G == [x \in W \X T |-> BuyLevel(x[1], book[x[2]])]
           Fold(f) == [S \in SUBSET T |-> IF S = {} THEN b
                         ELSE BuyLevel(f[S \ {LastToBuy(book, S)}], book[LastToBuy(book, S)])]
<1>1. IsFiniteSet(T) /\ \A i \in T : book[i] \in Level
  BY DEF Levels
<1>2. b \in W
  <2>1. /\ b.left = size /\ b.shares = Zero /\ b.usd = Zero /\ b.limit = 0
        /\ b = [left |-> size, shares |-> Zero, usd |-> Zero, limit |-> 0]
    BY DEF Untaken
  <2>2. Zero \in Amounts /\ size \in Frac /\ ~Positive(Zero)
    BY AmountLaws, Ordering
  <2>3. Plus(Zero, size) = size
    BY <2>2, Sums
  <2> HIDE DEF b
  <2> QED
    BY <2>1, <2>2, <2>3 DEF BuyWalks, Walks
<1>3. \A S \in (SUBSET T) \ {{}} : last[S] \in S /\ last[S] = LastToBuy(book, S)
  BY Lasts
<1>4. G \in [W \X T -> W] /\ \A w \in W, i \in T : G[<<w, i>>] = BuyLevel(w, book[i])
  BY <1>1, BuyStep
<1>50. PICK f : Folding(f, T, W, b, last, G)
  <2> HIDE DEF T, W, b, last, G
  <2>1. \A S \in (SUBSET T) \ {{}} : last[S] \in S
    BY <1>3
  <2>2. Foldable(T, W, b, last, G)
    BY <1>1, <1>2, <1>4, <2>1 DEF Foldable
  <2> QED
    BY <2>2, FoldExists
<1>5. f \in [SUBSET T -> W] /\ \A S \in SUBSET T :
        f[S] = IF S = {} THEN b ELSE G[<<f[S \ {last[S]}], last[S]>>]
  BY <1>50 DEF Folding
<1>6. \A S \in SUBSET T : f[S] = Fold(f)[S]
  <2> TAKE S \in SUBSET T
  <2>1. CASE S = {}
    BY <1>5, <2>1
  <2>2. CASE S # {}
    <3>1. last[S] \in T /\ last[S] = LastToBuy(book, S) /\ f[S \ {last[S]}] \in W
      <4>1. last[S] \in S /\ last[S] = LastToBuy(book, S)
        BY <1>3, <2>2
      <4> HIDE DEF W, last
      <4> QED
        BY <1>5, <4>1
    <3>2. f[S] = G[<<f[S \ {last[S]}], last[S]>>]
      BY <1>5, <2>2
    <3>3. f[S] = BuyLevel(f[S \ {last[S]}], book[last[S]])
      BY <1>4, <3>1, <3>2
    <3> QED
      BY <2>2, <3>1, <3>3
  <2> QED
    BY <2>1, <2>2
<1>7. f = Fold(f)
  <2> HIDE DEF W
  <2> QED
    BY <1>5, <1>6
<1> DEFINE iter == CHOOSE g : g = Fold(g)
<1>8. iter = Fold(iter)
  BY <1>7
<1>9. Entry(size, book) = iter[T]
  BY Zenon DEF Entry, MapThenFoldSet
<1> HIDE DEF iter
<1>10. \A S \in SUBSET T : iter[S] = f[S]
  <2> DEFINE P == {S \in SUBSET T : iter[S] = f[S]}
  <2>1. ASSUME NEW S \in SUBSET T, \A R \in SUBSET S : R # S => R \in P PROVE S \in P
    <3>1. iter[S] = Fold(iter)[S] /\ f[S] = Fold(f)[S]
      BY <1>6, <1>8
    <3>2. CASE S = {}
      BY <3>1, <3>2
    <3>3. CASE S # {}
      <4> DEFINE R == S \ {LastToBuy(book, S)}
      <4>1. R \in SUBSET S /\ R # S
        BY <1>3, <3>3
      <4>2. iter[R] = f[R]
        BY <2>1, <4>1
      <4> QED
        BY <3>1, <3>3, <4>2
    <3> QED
      BY <3>2, <3>3
  <2>2. SUBSET T \subseteq P
    <3> HIDE DEF P, T
    <3> QED
      BY <1>1, <2>1, SetInd
  <2> QED
    BY <2>2
<1>11. Entry(size, book) = f[T]
  BY <1>9, <1>10
<1> QED
  BY <1>5, <1>6, <1>11

\* What execute_paper_sell takes, level by level: what it has taken of a set of
\* levels is what it took of all but the last of them, and then that one.
LEMMA ExitFold ==
  ASSUME NEW size \in Amounts, NEW book, Levels(book)
  PROVE  \E f \in [SUBSET DOMAIN book -> SellWalks(size)] :
           /\ Exit(size, book) = f[DOMAIN book]
           /\ \A S \in SUBSET DOMAIN book :
                f[S] = IF S = {} THEN [Untaken EXCEPT !.left = size]
                       ELSE SellLevel(f[S \ {LastToSell(book, S)}], book[LastToSell(book, S)])
<1> DEFINE T == DOMAIN book
           W == SellWalks(size)
           b == [Untaken EXCEPT !.left = size]
           last == [S \in SUBSET T |-> LastToSell(book, S)]
           G == [x \in W \X T |-> SellLevel(x[1], book[x[2]])]
           Fold(f) == [S \in SUBSET T |-> IF S = {} THEN b
                         ELSE SellLevel(f[S \ {LastToSell(book, S)}], book[LastToSell(book, S)])]
<1>1. IsFiniteSet(T) /\ \A i \in T : book[i] \in Level
  BY DEF Levels
<1>2. b \in W
  <2>1. /\ b.left = size /\ b.shares = Zero /\ b.usd = Zero /\ b.limit = 0
        /\ b = [left |-> size, shares |-> Zero, usd |-> Zero, limit |-> 0]
    BY DEF Untaken
  <2>2. Zero \in Amounts /\ size \in Frac /\ ~Positive(Zero)
    BY AmountLaws, Ordering
  <2>3. Plus(Zero, size) = size
    BY <2>2, Sums
  <2> HIDE DEF b
  <2> QED
    BY <2>1, <2>2, <2>3 DEF SellWalks, Walks
<1>3. \A S \in (SUBSET T) \ {{}} : last[S] \in S /\ last[S] = LastToSell(book, S)
  BY Lasts
<1>4. G \in [W \X T -> W] /\ \A w \in W, i \in T : G[<<w, i>>] = SellLevel(w, book[i])
  BY <1>1, SellStep
<1>50. PICK f : Folding(f, T, W, b, last, G)
  <2> HIDE DEF T, W, b, last, G
  <2>1. \A S \in (SUBSET T) \ {{}} : last[S] \in S
    BY <1>3
  <2>2. Foldable(T, W, b, last, G)
    BY <1>1, <1>2, <1>4, <2>1 DEF Foldable
  <2> QED
    BY <2>2, FoldExists
<1>5. f \in [SUBSET T -> W] /\ \A S \in SUBSET T :
        f[S] = IF S = {} THEN b ELSE G[<<f[S \ {last[S]}], last[S]>>]
  BY <1>50 DEF Folding
<1>6. \A S \in SUBSET T : f[S] = Fold(f)[S]
  <2> TAKE S \in SUBSET T
  <2>1. CASE S = {}
    BY <1>5, <2>1
  <2>2. CASE S # {}
    <3>1. last[S] \in T /\ last[S] = LastToSell(book, S) /\ f[S \ {last[S]}] \in W
      <4>1. last[S] \in S /\ last[S] = LastToSell(book, S)
        BY <1>3, <2>2
      <4> HIDE DEF W, last
      <4> QED
        BY <1>5, <4>1
    <3>2. f[S] = G[<<f[S \ {last[S]}], last[S]>>]
      BY <1>5, <2>2
    <3>3. f[S] = SellLevel(f[S \ {last[S]}], book[last[S]])
      BY <1>4, <3>1, <3>2
    <3> QED
      BY <2>2, <3>1, <3>3
  <2> QED
    BY <2>1, <2>2
<1>7. f = Fold(f)
  <2> HIDE DEF W
  <2> QED
    BY <1>5, <1>6
<1> DEFINE iter == CHOOSE g : g = Fold(g)
<1>8. iter = Fold(iter)
  BY <1>7
<1>9. Exit(size, book) = iter[T]
  BY Zenon DEF Exit, MapThenFoldSet
<1> HIDE DEF iter
<1>10. \A S \in SUBSET T : iter[S] = f[S]
  <2> DEFINE P == {S \in SUBSET T : iter[S] = f[S]}
  <2>1. ASSUME NEW S \in SUBSET T, \A R \in SUBSET S : R # S => R \in P PROVE S \in P
    <3>1. iter[S] = Fold(iter)[S] /\ f[S] = Fold(f)[S]
      BY <1>6, <1>8
    <3>2. CASE S = {}
      BY <3>1, <3>2
    <3>3. CASE S # {}
      <4> DEFINE R == S \ {LastToSell(book, S)}
      <4>1. R \in SUBSET S /\ R # S
        BY <1>3, <3>3
      <4>2. iter[R] = f[R]
        BY <2>1, <4>1
      <4> QED
        BY <3>1, <3>3, <4>2
    <3> QED
      BY <3>2, <3>3
  <2>2. SUBSET T \subseteq P
    <3> HIDE DEF P, T
    <3> QED
      BY <1>1, <2>1, SetInd
  <2> QED
    BY <2>2
<1>11. Exit(size, book) = f[T]
  BY <1>9, <1>10
<1> QED
  BY <1>5, <1>6, <1>11

-----------------------------------------------------------------------------
(* Types.                                                                  *)

\* What the tables hold.
Sides == {"BUY", "SELL"}
Priced == {a \in Amounts : Positive(a)}
Positions == [shares : Amounts, avg : Amounts, realized : Frac]
Rows == [token : Tokens, side : Sides, price : Priced, usd : Priced]
Snapshots == [token : Tokens, book : Books, after : Nat]

\* A trade in hand.  Its walk took something; a sale is of the whole position
\* that it read, so what it leaves and what it sells make up that position.
Trading(c) ==
  /\ c \in [pc : {"read", "write", "row"}, token : Tokens, side : Sides, walk : Walks,
            levels : {c.levels}, base : Positions]
  /\ Positive(c.walk.shares) /\ Positive(c.walk.usd)
  /\ c.side = "SELL" => c.pc # "read" /\ Plus(c.walk.shares, c.walk.left) = c.base.shares

\* The type invariant.  It says more than TypeOK: what the walk in hand adds
\* up to, and what the position is that it was made of.
PaperTypes ==
  /\ position \in [Tokens -> Positions]
  /\ orders \in Seq(Rows)
  /\ snapshots \in Seq(Snapshots)
  /\ call = [p \in Procs |-> call[p]]
  /\ \A p \in Procs : IF call[p].pc = "idle" THEN call[p] = Idle ELSE Trading(call[p])
  /\ torn \subseteq Tokens /\ mixed \subseteq Tokens /\ manual \subseteq Tokens

\* What a buy takes of a book is a walk,
LEMMA EntryWalk ==
  ASSUME NEW size \in Amounts, NEW book, Levels(book)
  PROVE  Entry(size, book) \in BuyWalks(size)
<1>1. PICK f \in [SUBSET DOMAIN book -> BuyWalks(size)] : Entry(size, book) = f[DOMAIN book]
  BY EntryFold
<1>2. DOMAIN book \in SUBSET DOMAIN book
  OBVIOUS
<1> QED
  BY <1>1, <1>2

\* and what a sale takes.
LEMMA ExitWalk ==
  ASSUME NEW size \in Amounts, NEW book, Levels(book)
  PROVE  Exit(size, book) \in SellWalks(size)
<1>1. PICK f \in [SUBSET DOMAIN book -> SellWalks(size)] : Exit(size, book) = f[DOMAIN book]
  BY ExitFold
<1>2. DOMAIN book \in SUBSET DOMAIN book
  OBVIOUS
<1> QED
  BY <1>1, <1>2

\* A sequence of levels is a book, whole or cut down.
LEMMA SeqLevels ==
  ASSUME NEW s \in Seq(Nat \X Nat), \A l \in ToSet(s) : l[1] > 0 /\ l[2] > 0,
         NEW D \in SUBSET DOMAIN s
  PROVE  Levels(s) /\ Levels(Restrict(s, D))
<1>1. \A i \in DOMAIN s : s[i] \in Level
  <2> TAKE i \in DOMAIN s
  <2>1. s[i] \in Nat \X Nat /\ s[i] \in ToSet(s)
    BY DEF ToSet
  <2>2. s[i][1] > 0 /\ s[i][2] > 0
    BY <2>1
  <2> QED
    BY <2>1, <2>2 DEF Level
<1>2. IsFiniteSet(DOMAIN s)
  <2>1. DOMAIN s = 1 .. Len(s) /\ Len(s) \in Int /\ 1 \in Int
    OBVIOUS
  <2> QED
    BY <2>1, FS_Interval
<1>3. IsFiniteSet(D)
  BY <1>2, FS_Subset
<1>4. DOMAIN Restrict(s, D) = D /\ \A i \in D : Restrict(s, D)[i] = s[i]
  BY DEF Restrict
<1> QED
  BY <1>1, <1>2, <1>3, <1>4 DEF Levels

\* Both sides of the books are.
LEMMA BookLevels ==
  ASSUME NEW b \in Books, NEW D \in SUBSET DOMAIN b.asks
  PROVE  /\ Levels(b.asks) /\ Levels(b.bids) /\ Levels(Restrict(b.asks, D))
         /\ b.asks \in Seq(Nat \X Nat) /\ b.bids \in Seq(Nat \X Nat)
<1>1. b.asks \in Seq(Nat \X Nat) /\ b.bids \in Seq(Nat \X Nat)
  BY PaperAssumption DEF Book
<1>2. /\ \A l \in ToSet(b.asks) : l[1] > 0 /\ l[2] > 0
      /\ \A l \in ToSet(b.bids) : l[1] > 0 /\ l[2] > 0
  BY PaperAssumption
<1> QED
  BY <1>1, <1>2, SeqLevels

\* A price limit leaves one.
LEMMA WithinLevels ==
  ASSUME NEW b \in Books, NEW price
  PROVE  Levels(WithinPrice(b.asks, price))
BY BookLevels DEF WithinPrice

\* The empty position.
LEMMA NothingType == Nothing \in Positions /\ Zero \in Amounts /\ Zero \in Frac
BY AmountLaws, Wholes, Ordering DEF Nothing, Positions, Amounts

\* A purchase leaves a position,
LEMMA BoughtType ==
  ASSUME NEW pos \in Positions, NEW walk, walk.shares \in Amounts, walk.usd \in Amounts,
         Positive(walk.shares)
  PROVE  Bought(pos, walk) \in Positions
<1>1. pos.shares \in Amounts /\ pos.avg \in Amounts /\ pos.realized \in Frac
  BY DEF Positions
<1> DEFINE shares == Plus(pos.shares, walk.shares)
           spent == Plus(Times(pos.avg, pos.shares), walk.usd)
<1>2. shares \in Amounts /\ Positive(shares)
  BY <1>1, AmountLaws
<1>3. Times(pos.avg, pos.shares) \in Amounts
  BY <1>1, AmountLaws
<1>4. spent \in Amounts
  BY <1>3, AmountLaws
<1>5. Over(spent, shares) \in Amounts
  BY <1>2, <1>4, AmountLaws
<1> QED
  BY <1>1, <1>2, <1>5 DEF Bought, Positions

\* and so does a sale.
LEMMA SoldType ==
  ASSUME NEW pos \in Positions, NEW walk \in Walks
  PROVE  Sold(pos, walk) \in Positions
<1>1. /\ pos.avg \in Amounts /\ pos.realized \in Frac
      /\ walk.left \in Amounts /\ walk.shares \in Amounts /\ walk.usd \in Amounts
  BY DEF Positions, Walks
<1>2. Times(walk.shares, pos.avg) \in Frac /\ walk.usd \in Frac
  BY <1>1, AmountLaws DEF Amounts
<1>3. Plus(pos.realized, Minus(walk.usd, Times(walk.shares, pos.avg))) \in Frac
  BY <1>1, <1>2, Closed
<1> QED
  BY <1>1, <1>3 DEF Sold, Positions

\* The row of a trade says its token, side, money and price.
LEMMA RowType ==
  ASSUME NEW c, Trading(c)
  PROVE  /\ OrderRow(c) \in Rows /\ OrderRow(c).token = c.token /\ OrderRow(c).side = c.side
         /\ OrderRow(c).usd = c.walk.usd /\ OrderRow(c).price = Over(c.walk.usd, c.walk.shares)
<1>1. /\ c.token \in Tokens /\ c.side \in Sides /\ c.walk.usd \in Amounts /\ c.walk.shares \in Amounts
      /\ Positive(c.walk.shares) /\ Positive(c.walk.usd)
  BY DEF Trading, Walks
<1>2. Over(c.walk.usd, c.walk.shares) \in Amounts /\ Positive(Over(c.walk.usd, c.walk.shares))
  BY <1>1, AmountLaws, Quotients DEF Amounts
<1> QED
  BY <1>1, <1>2 DEF OrderRow, Rows, Priced

\* The book that a trade reads is one of the books.
LEMMA LatestIn ==
  ASSUME PaperTypes, NEW t, NEW book \in LatestBook(t)
  PROVE  book \in Books
<1>1. \A i \in DOMAIN snapshots : snapshots[i] \in Snapshots
  BY DEF PaperTypes
<1>2. \E i \in DOMAIN snapshots : book = snapshots[i].book
  BY DEF LatestBook
<1> QED
  BY <1>1, <1>2 DEF Snapshots

\* What a bot has invested in a token, and what remains of its budget.
LEMMA BudgetType ==
  ASSUME PaperTypes, NEW t \in Tokens
  PROVE  /\ Invested(t) \in Amounts /\ RemainingBudget(t) \in Amounts /\ Whole(MaxOrder) \in Amounts
         /\ Positive(RemainingBudget(t)) => Plus(Invested(t), RemainingBudget(t)) = Whole(MaxOrder)
<1>1. position[t].shares \in Amounts /\ position[t].avg \in Amounts
  BY DEF PaperTypes, Positions
<1>2. Invested(t) \in Amounts
  BY <1>1, AmountLaws DEF Invested
<1>3. Whole(MaxOrder) \in Frac /\ (MaxOrder > 0 => Positive(Whole(MaxOrder))) /\ MaxOrder \in Nat
  BY PaperAssumption, Wholes
<1>4. Whole(MaxOrder) \in Amounts
  <2>1. CASE MaxOrder = 0
    BY <2>1, NothingType DEF Zero
  <2>2. CASE MaxOrder > 0
    BY <1>3, <2>2, Ordering DEF Amounts
  <2> QED
    BY <1>3, <2>1, <2>2
<1>5. CASE AtMost(Whole(MaxOrder), Invested(t))
  <2>1. RemainingBudget(t) = Zero
    BY <1>5 DEF RemainingBudget
  <2> QED
    BY <1>2, <1>4, <2>1, NothingType, Ordering
<1>6. CASE ~AtMost(Whole(MaxOrder), Invested(t))
  <2>1. RemainingBudget(t) = Minus(Whole(MaxOrder), Invested(t))
    BY <1>6 DEF RemainingBudget
  <2>2. AtMost(Invested(t), Whole(MaxOrder))
    BY <1>2, <1>3, <1>6, Ordering DEF Amounts
  <2>3. RemainingBudget(t) \in Amounts
    BY <1>2, <1>4, <2>1, <2>2, AmountLaws
  <2>4. Plus(Minus(Whole(MaxOrder), Invested(t)), Invested(t)) = Whole(MaxOrder)
    BY <1>2, <1>3, Sums DEF Amounts
  <2>5. Plus(Invested(t), RemainingBudget(t)) = Plus(RemainingBudget(t), Invested(t))
    BY <1>2, <2>3, Sums DEF Amounts
  <2> QED
    BY <1>2, <1>4, <2>1, <2>3, <2>4, <2>5
<1> QED
  BY <1>5, <1>6

\* What a trade costs to hold.
Cost(pos) == Times(pos.shares, pos.avg)

\* A trade that a process begins, whichever way: the walk is the one over its
\* levels, and a bot's keeps to the budget.
Walked(c) ==
  \E size \in Amounts :
    c.walk = IF c.side = "BUY" THEN Entry(size, c.levels) ELSE Exit(size, c.levels)

\* A trade begins.
Begin(p, c) ==
  /\ p \in Procs /\ call[p].pc = "idle" /\ call' = [call EXCEPT ![p] = c]
  /\ Trading(c) /\ Levels(c.levels) /\ Walked(c)
  /\ IF c.side = "BUY" THEN c.pc = "read" /\ c.base = Nothing
     ELSE c.pc = "write" /\ c.base = position[c.token]
  /\ c.side = "BUY" /\ p \in Bots =>
       /\ AtMost(c.walk.usd, Whole(MaxOrder))
       /\ AtMost(Plus(Cost(position[c.token]), c.walk.usd), Whole(MaxOrder))
  /\ UNCHANGED <<position, orders, snapshots, cuts, torn, mixed, manual>>

\* Start puts the trade in hand.
LEMMA StartBegins ==
  ASSUME NEW p \in Procs, NEW t \in Tokens, NEW side \in Sides, NEW levels,
         NEW walk \in Walks, NEW base \in Positions, Start(p, t, side, levels, walk, base),
         Positive(walk.shares) <=> Positive(walk.usd),
         side = "SELL" => Plus(walk.shares, walk.left) = base.shares
  PROVE  \E c : /\ Trading(c) /\ call[p].pc = "idle" /\ call' = [call EXCEPT ![p] = c]
                /\ c.token = t /\ c.side = side /\ c.walk = walk /\ c.levels = levels
                /\ c.base = base /\ c.pc = (IF side = "BUY" THEN "read" ELSE "write")
                /\ UNCHANGED <<position, orders, snapshots, cuts, torn, mixed, manual>>
<1>1. PICK pc : pc = IF side = "BUY" THEN "read" ELSE "write"
  OBVIOUS
<1>2. PICK c : c = [Idle EXCEPT !.pc = pc, !.token = t, !.side = side, !.walk = walk,
                                !.levels = levels, !.base = base]
  OBVIOUS
<1>4. /\ c.pc = pc /\ c.token = t /\ c.side = side /\ c.walk = walk /\ c.levels = levels
      /\ c.base = base
  BY <1>2 DEF Idle
<1>5. c = [pc |-> c.pc, token |-> c.token, side |-> c.side, walk |-> c.walk,
           levels |-> c.levels, base |-> c.base]
  BY <1>2 DEF Idle
<1>6. call' = [call EXCEPT ![p] = c] /\ Positive(walk.shares)
  BY <1>1, <1>2 DEF Start, Go
<1>3. Trading(c)
  BY <1>1, <1>4, <1>5, <1>6 DEF Trading, Sides
<1> QED
  BY <1>1, <1>3, <1>4, <1>6 DEF Start

\* A bot begins a trade within its budget,
LEMMA BotBegins ==
  ASSUME PaperTypes, NEW p \in Bots, NEW t \in Tokens, BotBuy(p, t)
  PROVE  \E c : Begin(p, c)
<1>1. PICK book \in LatestBook(t), topUp \in BOOLEAN, limit \in EventCaps \cup {MaxEntry + Slippage} :
        LET size == IF topUp THEN RemainingBudget(t) ELSE Whole(MaxOrder)
            asks == WithinPrice(book.asks, Min({limit, Cheapest(book.asks) + Slippage}))
        IN  /\ topUp \/ ~Positive(position[t].shares)
            /\ Positive(size)
            /\ Start(p, t, "BUY", asks, Entry(size, asks), Nothing)
  BY DEF BotBuy
<1>2. PICK asks : asks = WithinPrice(book.asks, Min({limit, Cheapest(book.asks) + Slippage}))
  OBVIOUS
<1>3. PICK size : size = IF topUp THEN RemainingBudget(t) ELSE Whole(MaxOrder)
  OBVIOUS
<1>4. PICK walk : walk = Entry(size, asks)
  OBVIOUS
<1>5. /\ topUp \/ ~Positive(position[t].shares)
      /\ Positive(size)
      /\ Start(p, t, "BUY", asks, walk, Nothing)
  BY <1>1, <1>2, <1>3, <1>4
<1>6. size \in Amounts /\ Levels(asks)
  BY <1>2, <1>3, BudgetType, LatestIn, WithinLevels
<1>7. walk \in BuyWalks(size)
  BY <1>4, <1>6, EntryWalk
<1>8. walk \in Walks /\ Plus(walk.usd, walk.left) = size /\ (Positive(walk.shares) <=> Positive(walk.usd))
  BY <1>7 DEF BuyWalks
<1>9. walk.usd \in Amounts /\ walk.left \in Amounts /\ Invested(t) \in Amounts /\ Whole(MaxOrder) \in Amounts
  BY <1>8, BudgetType DEF Walks
<1>10. AtMost(walk.usd, size)
  <2>1. size = Plus(walk.usd, walk.left) /\ walk.usd \in Frac /\ walk.left \in Frac /\ size \in Frac
    BY <1>6, <1>8, <1>9 DEF Amounts
  <2>2. Minus(Plus(walk.left, walk.usd), walk.usd) = walk.left /\ Plus(walk.left, walk.usd) = Plus(walk.usd, walk.left)
    BY <2>1, Sums
  <2>3. AtMost(Zero, Minus(size, walk.usd))
    BY <1>9, <2>1, <2>2 DEF Amounts
  <2> QED
    BY <2>1, <2>3, Sums
<1>11. AtMost(Plus(Invested(t), size), Whole(MaxOrder))
  <2>1. AtMost(Whole(MaxOrder), Whole(MaxOrder))
    BY <1>9, Ordering DEF Amounts
  <2>2. CASE topUp
    BY <1>3, <1>5, <2>1, <2>2, BudgetType
  <2>3. CASE ~topUp
    <3>1. size = Whole(MaxOrder) /\ ~Positive(position[t].shares)
      BY <1>3, <1>5, <2>3
    <3>2. position[t].shares \in Amounts /\ position[t].avg \in Frac
      BY DEF PaperTypes, Positions, Amounts
    <3>3. position[t].shares = Zero
      BY <3>1, <3>2, AmountLaws
    <3>4. Invested(t) = Zero
      BY <3>2, <3>3, Products DEF Invested
    <3>5. Plus(Zero, Whole(MaxOrder)) = Whole(MaxOrder)
      BY <1>9, Sums DEF Amounts
    <3> QED
      BY <2>1, <3>1, <3>4, <3>5
  <2> QED
    BY <1>1, <2>2, <2>3
<1>12. AtMost(Plus(Invested(t), walk.usd), Whole(MaxOrder)) /\ AtMost(walk.usd, Whole(MaxOrder))
  <2>1. /\ walk.usd \in Frac /\ size \in Frac /\ Invested(t) \in Frac /\ Whole(MaxOrder) \in Frac
        /\ Zero \in Frac /\ AtMost(Zero, Invested(t))
    BY <1>6, <1>9, Wholes DEF Amounts
  <2>2. PICK d \in Nat \ {0} : /\ Fits(walk.usd, d) /\ Fits(size, d) /\ Fits(Invested(t), d)
                               /\ Fits(Whole(MaxOrder), d)
    BY <2>1, FitTogether
  <2>3. /\ Num(walk.usd, d) \in Int /\ Num(size, d) \in Int /\ Num(Invested(t), d) \in Int
        /\ Num(Whole(MaxOrder), d) \in Int /\ Fits(Zero, d) /\ Num(Zero, d) = 0
    BY <2>2, NumInt, NumZero
  <2>4. /\ Fits(Plus(Invested(t), size), d) /\ Num(Plus(Invested(t), size), d) = Num(Invested(t), d) + Num(size, d)
        /\ Fits(Plus(Invested(t), walk.usd), d)
        /\ Num(Plus(Invested(t), walk.usd), d) = Num(Invested(t), d) + Num(walk.usd, d)
    BY <2>2, NumPlus
  <2>5. /\ Num(walk.usd, d) <= Num(size, d) /\ 0 <= Num(Invested(t), d)
        /\ Num(Invested(t), d) + Num(size, d) <= Num(Whole(MaxOrder), d)
    BY <1>10, <1>11, <2>1, <2>2, <2>3, <2>4, NumOrder
  <2>6. Num(Plus(Invested(t), walk.usd), d) <= Num(Whole(MaxOrder), d) /\ Num(walk.usd, d) <= Num(Whole(MaxOrder), d)
    BY <2>3, <2>4, <2>5
  <2> QED
    BY <2>2, <2>4, <2>6, NumOrder
<1>13. PICK c : /\ Trading(c) /\ call[p].pc = "idle" /\ call' = [call EXCEPT ![p] = c]
                /\ c.token = t /\ c.side = "BUY" /\ c.walk = walk /\ c.levels = asks
                /\ c.base = Nothing /\ c.pc = "read"
                /\ UNCHANGED <<position, orders, snapshots, cuts, torn, mixed, manual>>
  <2>1. p \in Procs /\ "BUY" \in Sides
    BY DEF Procs, Sides
  <2> QED
    BY <1>5, <1>8, <2>1, NothingType, StartBegins
<1>14. Walked(c)
  BY <1>4, <1>6, <1>13 DEF Walked
<1> QED
  BY <1>6, <1>12, <1>13, <1>14 DEF Begin, Procs, Invested, Cost

\* a user without one,
LEMMA UserBegins ==
  ASSUME PaperTypes, NEW p \in Users, NEW t \in Tokens, UserBuy(p, t)
  PROVE  \E c : Begin(p, c)
<1>1. PICK book \in LatestBook(t), n \in UserSizes :
        Start(p, t, "BUY", book.asks, Entry(Whole(n), book.asks), Nothing)
  BY DEF UserBuy
<1>2. Levels(book.asks) /\ Whole(n) \in Amounts
  <2>1. Levels(book.asks)
    BY LatestIn, BookLevels
  <2>2. n \in Nat \ {0}
    BY PaperAssumption
  <2> QED
    BY <2>1, <2>2, Wholes, Ordering DEF Amounts
<1>3. PICK walk : walk = Entry(Whole(n), book.asks)
  OBVIOUS
<1>4. walk \in Walks /\ (Positive(walk.shares) <=> Positive(walk.usd))
  BY <1>2, <1>3, EntryWalk DEF BuyWalks
<1>5. PICK c : /\ Trading(c) /\ call[p].pc = "idle" /\ call' = [call EXCEPT ![p] = c]
               /\ c.token = t /\ c.side = "BUY" /\ c.walk = walk /\ c.levels = book.asks
               /\ c.base = Nothing /\ c.pc = "read"
               /\ UNCHANGED <<position, orders, snapshots, cuts, torn, mixed, manual>>
  <2>1. p \in Procs /\ "BUY" \in Sides /\ Start(p, t, "BUY", book.asks, walk, Nothing)
    BY <1>1, <1>3 DEF Procs, Sides
  <2> QED
    BY <1>4, <2>1, NothingType, StartBegins
<1>6. Walked(c)
  BY <1>2, <1>3, <1>5 DEF Walked
<1>7. p \notin Bots /\ p \in Procs
  BY PaperAssumption DEF Procs
<1> QED
  BY <1>2, <1>5, <1>6, <1>7 DEF Begin

\* and either a sale of all of the position.
LEMMA SaleBegins ==
  ASSUME PaperTypes, NEW p \in Procs, NEW t \in Tokens, Sell(p, t)
  PROVE  \E c : Begin(p, c)
<1>1. PICK book \in LatestBook(t) :
        Start(p, t, "SELL", book.bids, Exit(position[t].shares, book.bids), position[t])
  BY DEF Sell
<1>2. Levels(book.bids)
  BY LatestIn, BookLevels
<1>3. position[t] \in Positions /\ position[t].shares \in Amounts
  BY DEF PaperTypes, Positions
<1>4. PICK walk : walk = Exit(position[t].shares, book.bids)
  OBVIOUS
<1>5. /\ walk \in Walks /\ (Positive(walk.shares) <=> Positive(walk.usd))
      /\ Plus(walk.shares, walk.left) = position[t].shares
  BY <1>2, <1>3, <1>4, ExitWalk DEF SellWalks
<1>6. PICK c : /\ Trading(c) /\ call[p].pc = "idle" /\ call' = [call EXCEPT ![p] = c]
               /\ c.token = t /\ c.side = "SELL" /\ c.walk = walk /\ c.levels = book.bids
               /\ c.base = position[t] /\ c.pc = "write"
               /\ UNCHANGED <<position, orders, snapshots, cuts, torn, mixed, manual>>
  <2>1. "SELL" \in Sides /\ Start(p, t, "SELL", book.bids, walk, position[t])
    BY <1>1, <1>4 DEF Sides
  <2>2. \E c : /\ Trading(c) /\ call[p].pc = "idle" /\ call' = [call EXCEPT ![p] = c]
               /\ c.token = t /\ c.side = "SELL" /\ c.walk = walk /\ c.levels = book.bids
               /\ c.base = position[t] /\ c.pc = (IF "SELL" = "BUY" THEN "read" ELSE "write")
               /\ UNCHANGED <<position, orders, snapshots, cuts, torn, mixed, manual>>
    BY <1>3, <1>5, <2>1, StartBegins
  <2> QED
    BY <2>2
<1>7. Walked(c)
  BY <1>3, <1>4, <1>6 DEF Walked
<1> QED
  BY <1>2, <1>6, <1>7 DEF Begin

\* Every step begins a trade, takes one further, cuts one short, or touches
\* none of them.
LEMMA Steps ==
  ASSUME PaperTypes, Next
  PROVE  \/ \E p \in Procs : \/ \E c : Begin(p, c)
                             \/ ReadPosition(p) \/ WritePosition(p) \/ StoreOrder(p) \/ Crash(p)
         \/ Reset
         \/ \E t \in Tokens : FetchBook(t)
<1>1. \A p \in Bots : p \in Procs
  BY DEF Procs
<1>2. \A p \in Users : p \in Procs
  BY DEF Procs
<1> QED
  BY <1>1, <1>2, BotBegins, UserBegins, SaleBegins DEF Next

\* A process is idle or has a trade in hand.
LEMMA Calls ==
  ASSUME PaperTypes, NEW p \in Procs
  PROVE  /\ call[p].pc = "idle" <=> call[p] = Idle
         /\ call[p].pc # "idle" => Trading(call[p])
         /\ call[p].pc \in {"idle", "read", "write", "row"}
BY DEF PaperTypes, Idle, Trading

\* The rows of the tables.
LEMMA Tables ==
  ASSUME PaperTypes
  PROVE  /\ \A i \in DOMAIN orders : orders[i] \in Rows
         /\ \A i \in DOMAIN snapshots : snapshots[i] \in Snapshots
BY DEF PaperTypes

\* The three facts that make PaperTypes inductive, and TypeOK part of it.
LEMMA TypesInit == ASSUME Init PROVE PaperTypes
<1>1. position \in [Tokens -> Positions]
  BY NothingType DEF Init
<1> QED
  BY <1>1 DEF Init, PaperTypes, Idle

\* A step of one process leaves the others what they had in hand.
LEMMA CallTypes ==
  ASSUME PaperTypes, NEW p \in Procs, NEW c, call' = [call EXCEPT ![p] = c],
         c = Idle \/ Trading(c)
  PROVE  /\ call' = [q \in Procs |-> call'[q]]
         /\ \A q \in Procs : IF call'[q].pc = "idle" THEN call'[q] = Idle ELSE Trading(call'[q])
         /\ call'[p] = c /\ \A q \in Procs \ {p} : call'[q] = call[q]
<1>1. DOMAIN call = Procs /\ call = [q \in Procs |-> call[q]]
  BY DEF PaperTypes
<1>2. call'[p] = c /\ \A q \in Procs \ {p} : call'[q] = call[q]
  BY <1>1
<1>3. call' = [q \in Procs |-> call'[q]]
  BY <1>1
<1>4. Idle.pc = "idle" /\ (Trading(c) => c.pc # "idle")
  BY DEF Idle, Trading
<1>5. \A q \in Procs : IF call'[q].pc = "idle" THEN call'[q] = Idle ELSE Trading(call'[q])
  BY <1>2, <1>4 DEF PaperTypes
<1> QED
  BY <1>2, <1>3, <1>5

\* A trade that has written its position is otherwise what it was.
LEMMA WritesOn ==
  ASSUME NEW c, Trading(c), NEW d, d = [c EXCEPT !.pc = "row"]
  PROVE  /\ Trading(d) /\ d.pc = "row" /\ d.base = c.base /\ d.token = c.token /\ d.side = c.side
         /\ d.walk = c.walk /\ d.levels = c.levels
<1>1. c \in [pc : {"read", "write", "row"}, token : Tokens, side : Sides, walk : Walks,
             levels : {c.levels}, base : Positions]
  BY DEF Trading
<1>2. /\ d.pc = "row" /\ d.base = c.base /\ d.token = c.token /\ d.side = c.side
      /\ d.walk = c.walk /\ d.levels = c.levels
  BY <1>1
<1>3. d \in [pc : {"read", "write", "row"}, token : Tokens, side : Sides, walk : Walks,
             levels : {c.levels}, base : Positions]
  BY <1>1
<1> QED
  BY <1>2, <1>3 DEF Trading

\* A buy reads the position and goes on to write,
LEMMA ReadStep ==
  ASSUME PaperTypes, NEW p \in Procs, ReadPosition(p)
  PROVE  \E d : /\ call' = [call EXCEPT ![p] = d] /\ Trading(call[p]) /\ Trading(d)
                /\ call[p].pc = "read" /\ d.pc = "write" /\ d.base = position[d.token]
                /\ d.token = call[p].token /\ d.side = call[p].side /\ d.walk = call[p].walk
                /\ d.levels = call[p].levels
<1>1. call[p].pc = "read" /\ Trading(call[p])
  BY Calls DEF ReadPosition
<1>2. call[p].token \in Tokens /\ call[p].side # "SELL"
  BY <1>1 DEF Trading
<1>3. position[call[p].token] \in Positions
  BY <1>2 DEF PaperTypes
<1>4. PICK d : d = [call[p] EXCEPT !.pc = "write", !.base = position[call[p].token]]
  OBVIOUS
<1> DEFINE c == call[p]
           base == position[call[p].token]
<1>5. /\ Trading(d) /\ d.pc = "write" /\ d.base = position[call[p].token] /\ d.token = call[p].token
      /\ d.side = call[p].side /\ d.walk = call[p].walk /\ d.levels = call[p].levels
  <2>1. Trading(c) /\ base \in Positions /\ c.side # "SELL"
    BY <1>1, <1>2, <1>3
  <2>2. d = [c EXCEPT !.pc = "write", !.base = base]
    BY <1>4
  <2> HIDE DEF c, base
  <2>3. /\ Trading(d) /\ d.pc = "write" /\ d.base = base /\ d.token = c.token
        /\ d.side = c.side /\ d.walk = c.walk /\ d.levels = c.levels
    <3>1. c \in [pc : {"read", "write", "row"}, token : Tokens, side : Sides, walk : Walks,
                 levels : {c.levels}, base : Positions]
      BY <2>1 DEF Trading
    <3>2. /\ d.pc = "write" /\ d.base = base /\ d.token = c.token /\ d.side = c.side
          /\ d.walk = c.walk /\ d.levels = c.levels
      BY <2>2, <3>1
    <3>3. d \in [pc : {"read", "write", "row"}, token : Tokens, side : Sides, walk : Walks,
                 levels : {c.levels}, base : Positions]
      BY <2>1, <2>2, <3>1
    <3> QED
      BY <2>1, <3>2, <3>3 DEF Trading
  <2> QED
    BY <2>3 DEF c, base
<1>6. call' = [call EXCEPT ![p] = d]
  BY <1>4 DEF ReadPosition, Go
<1> QED
  BY <1>1, <1>5, <1>6

\* and a trade that has written goes on to its row.
LEMMA WriteStep ==
  ASSUME PaperTypes, NEW p \in Procs, WritePosition(p)
  PROVE  \E d : /\ call' = [call EXCEPT ![p] = d] /\ Trading(call[p]) /\ Trading(d)
                /\ call[p].pc = "write" /\ d.pc = "row" /\ d.base = call[p].base
                /\ d.token = call[p].token /\ d.side = call[p].side /\ d.walk = call[p].walk
                /\ d.levels = call[p].levels
<1>1. call[p].pc = "write" /\ Trading(call[p])
  BY Calls DEF WritePosition
<1>2. call[p].base \in Positions
  BY <1>1 DEF Trading
<1>4. PICK d : d = [call[p] EXCEPT !.pc = "row"]
  OBVIOUS
<1> DEFINE c == call[p]
<1>5. /\ Trading(d) /\ d.pc = "row" /\ d.base = call[p].base /\ d.token = call[p].token
      /\ d.side = call[p].side /\ d.walk = call[p].walk /\ d.levels = call[p].levels
  <2>1. Trading(c) /\ c.base \in Positions
    BY <1>1, <1>2
  <2>2. d = [c EXCEPT !.pc = "row"]
    BY <1>4
  <2> HIDE DEF c
  <2>3. /\ Trading(d) /\ d.pc = "row" /\ d.base = c.base /\ d.token = c.token
        /\ d.side = c.side /\ d.walk = c.walk /\ d.levels = c.levels
    BY <2>1, <2>2, WritesOn
  <2> QED
    BY <2>3 DEF c
<1>6. call' = [call EXCEPT ![p] = d]
  BY <1>4 DEF WritePosition, Go
<1> QED
  BY <1>1, <1>5, <1>6

\* What a trade makes of the position it read.
Made(c) == IF c.side = "BUY" THEN Bought(c.base, c.walk) ELSE Sold(c.base, c.walk)

\* It is a position.
LEMMA MadeType == ASSUME NEW c, Trading(c) PROVE Made(c) \in Positions
<1>1. c.walk \in Walks /\ c.base \in Positions /\ Positive(c.walk.shares)
  BY DEF Trading
<1>2. c.walk.shares \in Amounts /\ c.walk.usd \in Amounts
  BY <1>1 DEF Walks
<1> QED
  BY <1>1, <1>2, BoughtType, SoldType DEF Made

\* Steps keep the types.
LEMMA TypesNext ==
  ASSUME PaperTypes, [Next]_vars
  PROVE  PaperTypes'
<1>1. CASE UNCHANGED vars
  BY <1>1 DEF vars, PaperTypes
<1>2. ASSUME NEW p \in Procs, NEW c, Begin(p, c) PROVE PaperTypes'
  BY <1>2, CallTypes DEF Begin, PaperTypes
<1>3. ASSUME NEW p \in Procs, ReadPosition(p) PROVE PaperTypes'
  <2>1. UNCHANGED <<position, orders, snapshots, torn, mixed, manual>>
    BY <1>3 DEF ReadPosition
  <2>2. /\ call' = [q \in Procs |-> call'[q]]
        /\ \A q \in Procs : IF call'[q].pc = "idle" THEN call'[q] = Idle ELSE Trading(call'[q])
    BY <1>3, ReadStep, CallTypes
  <2> QED
    BY <2>1, <2>2 DEF PaperTypes
<1>4. ASSUME NEW p \in Procs, WritePosition(p) PROVE PaperTypes'
  <2>1. UNCHANGED <<orders, snapshots, torn>>
    BY <1>4 DEF WritePosition
  <2>2. /\ call' = [q \in Procs |-> call'[q]]
        /\ \A q \in Procs : IF call'[q].pc = "idle" THEN call'[q] = Idle ELSE Trading(call'[q])
    BY <1>4, WriteStep, CallTypes
  <2>3. Trading(call[p])
    BY <1>4, WriteStep
  <2>4. position' = [position EXCEPT ![call[p].token] = Made(call[p])]
    BY <1>4 DEF WritePosition, Made
  <2>5. call[p].token \in Tokens
    BY <2>3 DEF Trading
  <2>6. position' \in [Tokens -> Positions]
    BY <2>3, <2>4, MadeType DEF PaperTypes
  <2>7. mixed' \subseteq Tokens /\ manual' \subseteq Tokens
    BY <1>4, <2>5 DEF WritePosition, PaperTypes
  <2> QED
    BY <2>1, <2>2, <2>6, <2>7 DEF PaperTypes
<1>5. ASSUME NEW p \in Procs, StoreOrder(p) PROVE PaperTypes'
  <2>1. UNCHANGED <<position, snapshots, torn, mixed, manual>>
    BY <1>5 DEF StoreOrder
  <2>2. call' = [call EXCEPT ![p] = Idle] /\ Trading(call[p])
    BY <1>5, Calls DEF StoreOrder, Go
  <2>3. orders' = Append(orders, OrderRow(call[p])) /\ OrderRow(call[p]) \in Rows
    BY <1>5, <2>2, RowType DEF StoreOrder
  <2>4. orders' \in Seq(Rows)
    BY <2>3 DEF PaperTypes
  <2> QED
    BY <2>1, <2>2, <2>4, CallTypes DEF PaperTypes
<1>6. ASSUME NEW p \in Procs, Crash(p) PROVE PaperTypes'
  <2>1. UNCHANGED <<position, orders, snapshots, mixed, manual>>
    BY <1>6 DEF Crash
  <2>2. call' = [call EXCEPT ![p] = Idle] /\ Trading(call[p])
    BY <1>6, Calls DEF Crash, Go
  <2>3. torn' \subseteq Tokens
    BY <1>6, <2>2 DEF Crash, Trading, PaperTypes
  <2> QED
    BY <2>1, <2>2, <2>3, CallTypes DEF PaperTypes
<1>7. CASE Reset
  <2>1. position' \in [Tokens -> Positions]
    BY <1>7, NothingType DEF Reset
  <2>2. orders' \in Seq(Rows)
    BY <1>7 DEF Reset
  <2>3. snapshots' \in Seq(Snapshots)
    <3>1. \A i \in DOMAIN snapshots : [snapshots[i] EXCEPT !.after = 0] \in Snapshots
      BY Tables DEF Snapshots
    <3>2. snapshots' = [i \in 1 .. Len(snapshots) |-> [snapshots[i] EXCEPT !.after = 0]]
      BY <1>7 DEF Reset, PaperTypes
    <3> QED
      BY <3>1, <3>2 DEF PaperTypes
  <2>4. torn' \subseteq Tokens /\ mixed' \subseteq Tokens /\ manual' \subseteq Tokens
    BY <1>7 DEF Reset, PaperTypes
  <2> QED
    BY <1>7, <2>1, <2>2, <2>3, <2>4 DEF Reset, PaperTypes
<1>8. ASSUME NEW t \in Tokens, FetchBook(t) PROVE PaperTypes'
  <2>1. PICK book \in Books : snapshots' = Append(snapshots, [token |-> t, book |-> book, after |-> Len(orders)])
    BY <1>8 DEF FetchBook
  <2>2. Len(orders) \in Nat
    BY DEF PaperTypes
  <2>3. snapshots' \in Seq(Snapshots)
    BY <2>1, <2>2 DEF PaperTypes, Snapshots
  <2> QED
    BY <1>8, <2>3 DEF FetchBook, PaperTypes
<1> QED
  BY <1>1, <1>2, <1>3, <1>4, <1>5, <1>6, <1>7, <1>8, Steps

\* They are those of TypeOK.
LEMMA TypesHold == ASSUME PaperTypes PROVE TypeOK
<1>1. \A a \in Frac : IsFraction(a)
  BY DEF Frac, IsFraction
<1>2. \A t \in Tokens : \A x \in {"shares", "avg", "realized"} : IsFraction(position[t][x])
  BY <1>1 DEF PaperTypes, Positions, Amounts
<1>3. \A i \in DOMAIN orders : IsFraction(orders[i].price) /\ Positive(orders[i].price)
  BY <1>1, Tables DEF Rows, Priced, Amounts
<1>4. \A i \in DOMAIN snapshots : snapshots[i].token \in Tokens /\ snapshots[i].book \in Books
  BY Tables DEF Snapshots
<1>5. ASSUME NEW p \in Procs PROVE ~Positive(Minus(Zero, call[p].walk.left))
  <2>1. call[p].walk.left \in Amounts
    <3>1. CASE call[p] = Idle
      BY <3>1, NothingType DEF Idle, Untaken
    <3>2. CASE Trading(call[p])
      BY <3>2 DEF Trading, Walks
    <3> QED
      BY <3>1, <3>2, Calls
  <2> QED
    BY <2>1, Ordering DEF Amounts
<1>6. torn \cup mixed \cup manual \subseteq Tokens
  BY DEF PaperTypes
<1> QED
  BY <1>2, <1>3, <1>4, <1>5, <1>6, Calls DEF TypeOK

\* The tables, the walks in hand and the histories have their types.
THEOREM PaperTypeCorrect == Spec => []TypeOK
<1>1. Init => PaperTypes
  BY TypesInit
<1>2. PaperTypes /\ [Next]_vars => PaperTypes'
  BY TypesNext
<1>3. PaperTypes => TypeOK
  BY TypesHold
<1> QED
  BY <1>1, <1>2, <1>3, PTL DEF Spec

\* A purchase adds its money to the cost of a position.
LEMMA CostBought ==
  ASSUME NEW pos \in Positions, NEW walk \in Walks, Positive(walk.shares)
  PROVE  /\ Cost(Bought(pos, walk)) = Plus(Cost(pos), walk.usd)
         /\ Bought(pos, walk).realized = pos.realized
<1>1. pos.shares \in Amounts /\ pos.avg \in Amounts /\ walk.shares \in Amounts /\ walk.usd \in Amounts
  BY DEF Positions, Walks
<1> DEFINE shares == Plus(pos.shares, walk.shares)
           spent == Plus(Times(pos.avg, pos.shares), walk.usd)
<1>2. shares \in Amounts /\ Positive(shares)
  BY <1>1, AmountLaws
<1>3. Times(pos.avg, pos.shares) \in Amounts /\ Times(pos.avg, pos.shares) = Cost(pos)
  BY <1>1, AmountLaws, Products DEF Cost, Amounts
<1>4. spent \in Amounts
  BY <1>1, <1>3, AmountLaws
<1>5. Times(shares, Over(spent, shares)) = spent
  BY <1>2, <1>4, Quotients DEF Amounts
<1>6. Cost(Bought(pos, walk)) = Times(shares, Over(spent, shares))
  BY DEF Cost, Bought
<1>7. Bought(pos, walk).realized = pos.realized
  BY DEF Bought
<1> QED
  BY <1>3, <1>5, <1>6, <1>7

\* A sale takes off the cost of what it sells.
LEMMA CostSold ==
  ASSUME NEW c, Trading(c), c.side = "SELL"
  PROVE  /\ Cost(c.base) = Plus(Times(c.walk.shares, c.base.avg), Cost(Sold(c.base, c.walk)))
         /\ AtMost(Cost(Sold(c.base, c.walk)), Cost(c.base))
<1>1. /\ c.walk.left \in Amounts /\ c.walk.shares \in Amounts /\ c.base.avg \in Amounts
      /\ Plus(c.walk.shares, c.walk.left) = c.base.shares
  BY DEF Trading, Walks, Positions
<1>2. Cost(Sold(c.base, c.walk)) = Times(c.walk.left, c.base.avg)
  BY DEF Cost, Sold
<1>3. Cost(c.base) = Plus(Times(c.walk.shares, c.base.avg), Times(c.walk.left, c.base.avg))
  BY <1>1, Products DEF Cost, Amounts
<1>4. Times(c.walk.shares, c.base.avg) \in Amounts /\ Times(c.walk.left, c.base.avg) \in Amounts
  BY <1>1, AmountLaws
<1>5. AtMost(Times(c.walk.left, c.base.avg), Cost(c.base))
  <2> DEFINE a == Times(c.walk.shares, c.base.avg)
             b == Times(c.walk.left, c.base.avg)
  <2>1. a \in Frac /\ b \in Frac /\ AtMost(Zero, a) /\ Plus(a, b) \in Frac
    BY <1>4, Closed DEF Amounts
  <2> HIDE DEF a, b
  <2>2. Minus(Plus(a, b), b) = a
    BY <2>1, Sums
  <2>3. AtMost(b, Plus(a, b))
    BY <2>1, <2>2, Sums
  <2> QED
    BY <1>3, <2>3 DEF a, b
<1> QED
  BY <1>2, <1>3, <1>5

\* What is within a budget still is when less is invested.
LEMMA LessMore ==
  ASSUME NEW a \in Frac, NEW b \in Frac, NEW c \in Frac, NEW d \in Frac, AtMost(a, b),
         AtMost(Plus(b, c), d)
  PROVE  AtMost(Plus(a, c), d)
<1>1. PICK e \in Nat \ {0} : Fits(a, e) /\ Fits(b, e) /\ Fits(c, e) /\ Fits(d, e)
  BY FitTogether
<1>2. Num(a, e) \in Int /\ Num(b, e) \in Int /\ Num(c, e) \in Int /\ Num(d, e) \in Int
  BY <1>1, NumInt
<1>3. /\ Fits(Plus(b, c), e) /\ Num(Plus(b, c), e) = Num(b, e) + Num(c, e)
      /\ Fits(Plus(a, c), e) /\ Num(Plus(a, c), e) = Num(a, e) + Num(c, e)
  BY <1>1, NumPlus
<1>4. Num(a, e) <= Num(b, e) /\ Num(Plus(b, c), e) <= Num(d, e)
  BY <1>1, <1>3, NumOrder
<1>5. Num(Plus(a, c), e) <= Num(d, e)
  BY <1>2, <1>3, <1>4
<1> QED
  BY <1>1, <1>3, <1>5, NumOrder

-----------------------------------------------------------------------------
(* The budget, with one bot.                                               *)

\* One loop trades on the database.
OneBot == \A p, q \in Bots : p = q

\* A bot's buy that goes ahead keeps to the budget: with what the position
\* holds before the position is read, with what was read after; unless the
\* position was cleared away in between, which the write shows.
Budgeted(p) ==
  LET c == call[p]
      t == c.token
  IN  /\ AtMost(c.walk.usd, Whole(MaxOrder))
      /\ \/ t \in manual \cup mixed
         \/ c.pc = "read" /\ AtMost(Plus(Cost(position[t]), c.walk.usd), Whole(MaxOrder))
         \/ c.pc = "write" /\ AtMost(Plus(Cost(c.base), c.walk.usd), Whole(MaxOrder))
         \/ c.pc = "write" /\ position[t] = Nothing /\ c.base # Nothing

\* The bots whose purchase is not written yet; the inductive invariant.
Buying(p) == call[p].side = "BUY" /\ call[p].pc \in {"read", "write"}

BotsBudget == \A p \in Bots : Buying(p) => Budgeted(p)

BudgetInv == PaperTypes /\ BudgetHolds /\ BotsBudget

\* The empty position costs nothing.
LEMMA CostNothing == Cost(Nothing) = Zero /\ AtMost(Zero, Whole(MaxOrder))
<1>1. Zero \in Frac
  BY NothingType
<1>2. Times(Zero, Zero) = Zero
  BY <1>1, Products
<1>3. MaxOrder \in Nat
  BY PaperAssumption
<1>4. AtMost(Zero, Whole(MaxOrder))
  BY <1>3 DEF AtMost, Zero, Whole
<1> QED
  BY <1>2, <1>4 DEF Cost, Nothing

\* The two facts that make BudgetInv inductive.
LEMMA BudgetInit == ASSUME Init PROVE BudgetInv
<1>1. PaperTypes
  BY TypesInit
<1>2. BudgetHolds
  BY CostNothing DEF Init, BudgetHolds, Invested, Cost
<1>3. BotsBudget
  BY DEF Init, BotsBudget, Buying, Idle, Procs
<1> QED
  BY <1>1, <1>2, <1>3 DEF BudgetInv

\* One bot keeps it.  A purchase of a user, or an overlap, sets the token
\* apart; only Reset takes a position away under the bot.
LEMMA BudgetNext ==
  ASSUME OneBot, BudgetInv, [Next]_vars
  PROVE  BudgetInv'
<1>0. PaperTypes /\ BudgetHolds /\ BotsBudget /\ PaperTypes'
  BY TypesNext DEF BudgetInv
<1>00. \A p \in Bots : p \in Procs
  BY DEF Procs
<1>1. CASE UNCHANGED vars
  BY <1>0, <1>1 DEF BudgetInv, BudgetHolds, BotsBudget, Buying, Budgeted, Invested, vars
<1>2. ASSUME NEW p \in Procs, NEW c, Begin(p, c) PROVE BudgetInv'
  <2>1. UNCHANGED <<position, mixed, manual>> /\ call' = [call EXCEPT ![p] = c] /\ Trading(c)
    BY <1>2 DEF Begin
  <2>2. call'[p] = c /\ \A q \in Procs \ {p} : call'[q] = call[q]
    BY <1>0, <2>1, CallTypes
  <2>3. BudgetHolds'
    BY <1>0, <2>1 DEF BudgetHolds, Invested
  <2>4. ASSUME NEW q \in Bots, Buying(q)' PROVE Budgeted(q)'
    <3>1. CASE q = p
      <4>1. c.side = "BUY" /\ p \in Bots
        BY <2>2, <2>4, <3>1, <1>00 DEF Buying
      <4>2. c.pc = "read" /\ AtMost(c.walk.usd, Whole(MaxOrder))
            /\ AtMost(Plus(Cost(position[c.token]), c.walk.usd), Whole(MaxOrder))
        BY <1>2, <4>1 DEF Begin
      <4> QED
        BY <2>1, <2>2, <3>1, <4>2 DEF Budgeted
    <3>2. CASE q # p
      BY <1>0, <1>00, <2>1, <2>2, <2>4, <3>2 DEF Budgeted, Buying, BotsBudget
    <3> QED
      BY <3>1, <3>2
  <2> QED
    BY <1>0, <2>3, <2>4 DEF BudgetInv, BotsBudget
<1>3. ASSUME NEW p \in Procs, ReadPosition(p) PROVE BudgetInv'
  <2>1. PICK d : /\ call' = [call EXCEPT ![p] = d] /\ Trading(call[p]) /\ Trading(d)
                 /\ call[p].pc = "read" /\ d.pc = "write" /\ d.base = position[d.token]
                 /\ d.token = call[p].token /\ d.side = call[p].side /\ d.walk = call[p].walk
    BY <1>0, <1>3, ReadStep
  <2>2. call'[p] = d /\ \A q \in Procs \ {p} : call'[q] = call[q]
    BY <1>0, <2>1, CallTypes
  <2>3. UNCHANGED <<position, mixed, manual>>
    BY <1>3 DEF ReadPosition
  <2>4. BudgetHolds'
    BY <1>0, <2>3 DEF BudgetHolds, Invested
  <2>5. ASSUME NEW q \in Bots, Buying(q)' PROVE Budgeted(q)'
    <3>1. CASE q = p
      <4>1. Budgeted(p)
        BY <1>0, <2>1, <2>2, <2>5, <3>1 DEF Buying, BotsBudget
      <4> QED
        BY <2>1, <2>2, <2>3, <3>1, <4>1 DEF Budgeted
    <3>2. CASE q # p
      BY <1>0, <1>00, <2>2, <2>3, <2>5, <3>2 DEF Budgeted, Buying, BotsBudget
    <3> QED
      BY <3>1, <3>2
  <2> QED
    BY <1>0, <2>4, <2>5 DEF BudgetInv, BotsBudget
<1>4. ASSUME NEW p \in Procs, WritePosition(p) PROVE BudgetInv'
  <2>1. PICK d : /\ call' = [call EXCEPT ![p] = d] /\ Trading(call[p]) /\ Trading(d)
                 /\ call[p].pc = "write" /\ d.pc = "row"
    BY <1>0, <1>4, WriteStep
  <2>2. call'[p] = d /\ \A q \in Procs \ {p} : call'[q] = call[q]
    BY <1>0, <2>1, CallTypes
  <2> DEFINE c == call[p]
             t == c.token
  <2>3. /\ position' = [position EXCEPT ![t] = Made(c)]
        /\ mixed \subseteq mixed' /\ manual \subseteq manual'
        /\ position[t] # c.base => t \in mixed'
        /\ c.side = "BUY" /\ p \in Users => t \in manual'
    BY <1>4 DEF WritePosition, Made
  <2>4. t \in Tokens /\ c.side \in Sides /\ c.walk \in Walks /\ c.base \in Positions /\ Positive(c.walk.shares)
    BY <2>1 DEF Trading
  <2>5. DOMAIN position = Tokens /\ position'[t] = Made(c) /\ \A u \in Tokens \ {t} : position'[u] = position[u]
    BY <1>0, <2>3, <2>4 DEF PaperTypes
  <2>6. c.side = "SELL" => Made(c) = Sold(c.base, c.walk) /\ AtMost(Cost(Made(c)), Cost(c.base))
    BY <2>1, CostSold DEF Made
  <2>7. c.side = "BUY" => Cost(Made(c)) = Plus(Cost(c.base), c.walk.usd)
    BY <2>4, CostBought DEF Made
  <2>8. t \in manual' \cup mixed' \/ AtMost(Cost(Made(c)), Whole(MaxOrder))
    <3> SUFFICES ASSUME t \notin manual' \cup mixed' PROVE AtMost(Cost(Made(c)), Whole(MaxOrder))
      OBVIOUS
    <3>1. position[t] = c.base /\ t \notin manual \cup mixed
      BY <2>3
    <3>2. CASE c.side = "SELL"
      <4>1. AtMost(Cost(c.base), Whole(MaxOrder))
        BY <1>0, <2>4, <3>1 DEF BudgetHolds, Invested, Cost
      <4>2. Cost(Made(c)) \in Frac /\ Cost(c.base) \in Frac /\ Whole(MaxOrder) \in Frac
        <5>1. Made(c) \in Positions
          BY <2>1, MadeType
        <5>2. \A pos \in Positions : Cost(pos) \in Frac
          BY Closed DEF Positions, Cost, Amounts
        <5>3. Whole(MaxOrder) \in Frac
          BY PaperAssumption, Wholes
        <5> QED
          BY <2>4, <5>1, <5>2, <5>3
      <4> QED
        BY <2>6, <3>2, <4>1, <4>2, Ordering
    <3>3. CASE c.side = "BUY"
      <4>1. p \in Bots
        BY <2>3, <3>3 DEF Procs
      <4>2. Budgeted(p)
        BY <1>0, <2>1, <3>3, <4>1 DEF BotsBudget, Buying
      <4>3. AtMost(Plus(Cost(c.base), c.walk.usd), Whole(MaxOrder))
        BY <2>1, <3>1, <4>2 DEF Budgeted
      <4> QED
        BY <2>7, <3>3, <4>3
    <3> QED
      BY <2>4, <3>2, <3>3 DEF Sides
  <2>9. BudgetHolds'
    <3>1. ASSUME NEW u \in Tokens, u \notin manual' \cup mixed' PROVE AtMost(Cost(position'[u]), Whole(MaxOrder))
      <4>1. CASE u = t
        BY <2>5, <2>8, <3>1, <4>1
      <4>2. CASE u # t
        <5>1. u \notin manual \cup mixed
          BY <2>3, <3>1
        <5> QED
          BY <1>0, <2>5, <4>2, <5>1 DEF BudgetHolds, Invested, Cost
      <4> QED
        BY <4>1, <4>2
    <3> QED
      BY <3>1 DEF BudgetHolds, Invested, Cost
  <2>10. ASSUME NEW q \in Bots, Buying(q)' PROVE Budgeted(q)'
    <3>1. q # p
      BY <2>1, <2>2, <2>10 DEF Buying
    <3>2. call'[q] = call[q] /\ Budgeted(q)
      BY <1>0, <1>00, <2>2, <2>10, <3>1 DEF Buying, BotsBudget
    <3>3. CASE call[q].token # t
      <4>1. call[q].token \in Tokens
        BY <1>0, <1>00, <2>10, <3>2, Calls DEF Buying, Trading
      <4>2. position'[call[q].token] = position[call[q].token]
        BY <2>5, <3>3, <4>1
      <4> QED
        BY <2>3, <3>2, <4>2 DEF Budgeted
    <3>4. CASE call[q].token = t
      <4>1. p \in Users
        BY <3>1 DEF OneBot, Procs
      <4>2. CASE c.side = "BUY"
        BY <2>3, <3>2, <3>4, <4>1, <4>2 DEF Budgeted
      <4>3. CASE c.side = "SELL" /\ position[t] # c.base
        BY <2>3, <3>2, <3>4, <4>3 DEF Budgeted
      <4>4. CASE c.side = "SELL" /\ position[t] = c.base
        <5>1. position[t] # Nothing
          <6>1. /\ Plus(c.walk.shares, c.walk.left) = c.base.shares
                /\ c.walk.shares \in Amounts /\ c.walk.left \in Amounts
            BY <2>1, <4>4 DEF Trading, Walks
          <6>2. Positive(c.base.shares)
            BY <2>4, <6>1, AmountLaws
          <6>3. ~Positive(Nothing.shares)
            BY NothingType, Ordering DEF Nothing
          <6> QED
            BY <4>4, <6>2, <6>3
        <5>2. call[q].pc = "read" /\ AtMost(Plus(Cost(position[t]), call[q].walk.usd), Whole(MaxOrder))
                => AtMost(Plus(Cost(position'[t]), call[q].walk.usd), Whole(MaxOrder))
          <6> SUFFICES ASSUME AtMost(Plus(Cost(position[t]), call[q].walk.usd), Whole(MaxOrder))
                       PROVE  AtMost(Plus(Cost(position'[t]), call[q].walk.usd), Whole(MaxOrder))
            OBVIOUS
          <6>1. call[q].walk.usd \in Frac
            BY <1>0, <1>00, <2>10, <3>2, Calls DEF Buying, Trading, Walks, Amounts
          <6>2. position[t] \in Positions /\ position'[t] \in Positions
            BY <1>0, <2>4 DEF PaperTypes
          <6>3. Cost(position[t]) \in Frac /\ Cost(position'[t]) \in Frac
            BY <6>2, Closed DEF Positions, Cost, Amounts
          <6>4. AtMost(Cost(position'[t]), Cost(position[t]))
            BY <2>5, <2>6, <4>4
          <6>5. Whole(MaxOrder) \in Frac
            BY PaperAssumption, Wholes
          <6> QED
            BY <6>1, <6>3, <6>4, <6>5, LessMore
        <5> QED
          BY <2>3, <3>2, <3>4, <5>1, <5>2 DEF Budgeted
      <4> QED
        BY <2>4, <4>2, <4>3, <4>4 DEF Sides
    <3> QED
      BY <3>3, <3>4
  <2> QED
    BY <1>0, <2>9, <2>10 DEF BudgetInv, BotsBudget
<1>5. ASSUME NEW p \in Procs, StoreOrder(p) \/ Crash(p) PROVE BudgetInv'
  <2>1. call' = [call EXCEPT ![p] = Idle] /\ UNCHANGED <<position, mixed, manual>>
    BY <1>5 DEF StoreOrder, Crash, Go
  <2>2. call'[p] = Idle /\ \A q \in Procs \ {p} : call'[q] = call[q]
    BY <1>0, <2>1, CallTypes
  <2>3. BudgetHolds'
    BY <1>0, <2>1 DEF BudgetHolds, Invested
  <2>4. ASSUME NEW q \in Bots, Buying(q)' PROVE Budgeted(q)'
    <3>1. q # p
      BY <2>2, <2>4 DEF Buying, Idle
    <3> QED
      BY <1>0, <1>00, <2>1, <2>2, <2>4, <3>1 DEF Budgeted, Buying, BotsBudget
  <2> QED
    BY <1>0, <2>3, <2>4 DEF BudgetInv, BotsBudget
<1>6. CASE Reset
  <2>1. /\ position' = [t \in Tokens |-> Nothing] /\ call' = call
        /\ manual' = {t \in manual : \E q \in Procs : call[q].pc # "idle" /\ call[q].token = t}
    BY <1>6 DEF Reset
  <2>2. \A t \in Tokens : position'[t] = Nothing
    BY <2>1
  <2>3. BudgetHolds'
    BY <2>2, CostNothing DEF BudgetHolds, Invested, Cost
  <2>4. ASSUME NEW q \in Bots, Buying(q)' PROVE Budgeted(q)'
    <3> DEFINE c == call[q]
               t == c.token
    <3>1. Budgeted(q) /\ c.pc \in {"read", "write"} /\ Trading(c)
      BY <1>0, <1>00, <2>1, <2>4, Calls DEF Buying, BotsBudget
    <3>2. t \in Tokens /\ c.walk.usd \in Frac
      BY <3>1 DEF Trading, Walks, Amounts
    <3>3. position'[t] = Nothing
      BY <2>2, <3>2
    <3>4. AtMost(c.walk.usd, Whole(MaxOrder))
      BY <3>1 DEF Budgeted
    <3>5. Plus(Cost(Nothing), c.walk.usd) = c.walk.usd
      BY <3>2, CostNothing, Sums
    <3>6. CASE c.pc = "read"
      BY <2>1, <3>3, <3>4, <3>5, <3>6 DEF Budgeted
    <3>7. CASE c.pc = "write" /\ c.base = Nothing
      BY <2>1, <3>3, <3>4, <3>5, <3>7 DEF Budgeted
    <3>8. CASE c.pc = "write" /\ c.base # Nothing
      BY <2>1, <3>3, <3>4, <3>8 DEF Budgeted
    <3> QED
      BY <3>1, <3>6, <3>7, <3>8
  <2> QED
    BY <1>0, <2>3, <2>4 DEF BudgetInv, BotsBudget
<1>7. ASSUME NEW t \in Tokens, FetchBook(t) PROVE BudgetInv'
  <2>1. UNCHANGED <<position, mixed, manual, call>>
    BY <1>7 DEF FetchBook
  <2> QED
    BY <1>0, <2>1 DEF BudgetInv, BudgetHolds, BotsBudget, Buying, Budgeted, Invested
<1> QED
  BY <1>0, <1>1, <1>2, <1>3, <1>4, <1>5, <1>6, <1>7, Steps

\* Whatever crashes, sales and resets come in between, one bot does not take a
\* position above its budget, unless a user buys the token as well or a trade
\* overlaps the bot's.  Two bots could: neither would see the other's buy.
THEOREM PaperBudget == ASSUME OneBot PROVE Spec => []BudgetHolds
<1>1. Init => BudgetInv
  BY BudgetInit
<1>2. BudgetInv /\ [Next]_vars => BudgetInv'
  BY BudgetNext
<1>3. BudgetInv => BudgetHolds
  BY DEF BudgetInv
<1> QED
  BY <1>1, <1>2, <1>3, PTL DEF Spec

-----------------------------------------------------------------------------
(* Folds over sequences.                                                   *)

\* What two recurrences of the same steps reach is the same.
LEMMA SamePrefix ==
  ASSUME NEW n \in Nat, NEW g, NEW h, g[0] = h[0],
         \A j \in 1 .. n : g[j - 1] = h[j - 1] => g[j] = h[j]
  PROVE  g[n] = h[n]
<1> DEFINE P == {j \in Nat : j <= n => g[j] = h[j]}
<1>1. 0 \in P
  OBVIOUS
<1>2. ASSUME NEW j \in Nat, j \in P PROVE j + 1 \in P
  <2> SUFFICES ASSUME j + 1 <= n PROVE g[j + 1] = h[j + 1]
    OBVIOUS
  <2>1. j + 1 \in 1 .. n /\ (j + 1) - 1 = j /\ g[j] = h[j]
    BY <1>2
  <2> QED
    BY <2>1
<1>3. Nat \subseteq P
  <2> HIDE DEF P
  <2> QED
    BY <1>1, <1>2, NatInd
<1>4. n \in P
  BY <1>3
<1> QED
  BY <1>4

\* What each step of a recurrence keeps holds at its end.
LEMMA Along ==
  ASSUME NEW n \in Nat, NEW P, 0 \in P, \A j \in 1 .. n : j - 1 \in P => j \in P
  PROVE  \A j \in 0 .. n : j \in P
<1> DEFINE Q == {j \in Nat : j <= n => j \in P}
<1>1. 0 \in Q
  OBVIOUS
<1>2. ASSUME NEW j \in Nat, j \in Q PROVE j + 1 \in Q
  <2> SUFFICES ASSUME j + 1 <= n PROVE j + 1 \in P
    OBVIOUS
  <2>1. j + 1 \in 1 .. n /\ (j + 1) - 1 = j /\ j \in P
    BY <1>2
  <2> QED
    BY <2>1
<1>3. Nat \subseteq Q
  <2> HIDE DEF Q
  <2> QED
    BY <1>1, <1>2, NatInd
<1> QED
  BY <1>3

\* The first j of n numbers end in j.
LEMMA Segments ==
  ASSUME NEW n \in Nat
  PROVE  /\ IsFiniteSet(1 .. n)
         /\ \A S \in (SUBSET (1 .. n)) \ {{}} : Max(S) \in S
         /\ \A j \in 1 .. n : 1 .. j # {} /\ Max(1 .. j) = j /\ (1 .. j) \ {j} = 1 .. (j - 1)
         /\ 1 .. 0 = {} /\ \A j \in 0 .. n : 1 .. j \in SUBSET (1 .. n)
<1>1. IsFiniteSet(1 .. n)
  <2>1. 1 \in Int /\ n \in Int
    OBVIOUS
  <2> QED
    BY <2>1, FS_Interval
<1>2. ASSUME NEW S \in (SUBSET (1 .. n)) \ {{}} PROVE Max(S) \in S
  <2>1. PICK up : up = [i \in 1 .. n |-> i]
    OBVIOUS
  <2>2. \E i \in S : \A j \in S : up[j] <= up[i]
    <3>1. PICK T : T = 1 .. n
      OBVIOUS
    <3>2. IsFiniteSet(T) /\ (\A i \in T : up[i] \in Int) /\ S \in SUBSET T /\ S # {}
      BY <1>1, <1>2, <2>1, <3>1
    <3> QED
      BY <3>2, GreatestExists
  <2>3. \E i \in S : \A j \in S : i >= j
    BY <2>1, <2>2
  <2> QED
    BY <2>3 DEF Max
<1>3. ASSUME NEW j \in 1 .. n PROVE 1 .. j # {} /\ Max(1 .. j) = j /\ (1 .. j) \ {j} = 1 .. (j - 1)
  <2>1. j \in 1 .. j /\ \A i \in 1 .. j : j >= i
    OBVIOUS
  <2>2. Max(1 .. j) \in 1 .. j /\ \A i \in 1 .. j : Max(1 .. j) >= i
    BY <2>1 DEF Max
  <2> QED
    BY <2>1, <2>2
<1>4. 1 .. 0 = {} /\ \A j \in 0 .. n : 1 .. j \in SUBSET (1 .. n)
  OBVIOUS
<1>5. \A S \in (SUBSET (1 .. n)) \ {{}} : Max(S) \in S
  BY <1>2
<1> QED
  BY <1>1, <1>3, <1>4, <1>5

\* The sum of a sequence, term by term.
LEMMA TotalFold ==
  ASSUME NEW s \in Seq(Frac)
  PROVE  \E g : /\ g[0] = Zero /\ Total(s) = g[Len(s)]
                /\ \A j \in 1 .. Len(s) : g[j] = Plus(g[j - 1], s[j])
<1> DEFINE n == Len(s)
           T == 1 .. n
           W == Frac
           b == Zero
           last == [S \in SUBSET T |-> Max(S)]
           G == [x \in W \X T |-> Plus(x[1], s[x[2]])]
           Fold(f) == [S \in SUBSET T |-> IF S = {} THEN b ELSE Plus(f[S \ {Max(S)}], s[Max(S)])]
<1>1. /\ n \in Nat /\ DOMAIN s = T /\ IsFiniteSet(T) /\ b \in W
      /\ \A S \in (SUBSET T) \ {{}} : Max(S) \in S
  <2>1. n \in Nat /\ DOMAIN s = T /\ b \in W
    BY Wholes
  <2> QED
    BY <2>1, Segments
<1>2. \A w \in W, i \in T : Plus(w, s[i]) \in W
  BY Closed
<1>3. G \in [W \X T -> W] /\ \A w \in W, i \in T : G[<<w, i>>] = Plus(w, s[i])
  BY <1>2
<1>4. PICK f : Folding(f, T, W, b, last, G)
  <2> HIDE DEF T, W, b, G
  <2>1. \A S \in (SUBSET T) \ {{}} : last[S] \in S
    BY <1>1
  <2> HIDE DEF last
  <2>2. Foldable(T, W, b, last, G)
    BY <1>1, <1>3, <2>1 DEF Foldable
  <2> QED
    BY <2>2, FoldExists
<1>5. f = Fold(f)
  <2> HIDE DEF W, T, b, G
  <2>1. ASSUME NEW S \in SUBSET T PROVE f[S] = Fold(f)[S]
    <3>1. f[S] = IF S = {} THEN b ELSE G[<<f[S \ {last[S]}], last[S]>>]
      BY <1>4 DEF Folding
    <3>2. CASE S = {}
      BY <3>1, <3>2
    <3>3. CASE S # {}
      <4>1. last[S] = Max(S) /\ Max(S) \in T /\ f[S \ {Max(S)}] \in W
        BY <1>1, <1>4, <3>3 DEF Folding
      <4>2. f[S] = Plus(f[S \ {Max(S)}], s[Max(S)])
        BY <1>3, <3>1, <3>3, <4>1
      <4> QED
        BY <3>3, <4>2
    <3> QED
      BY <3>2, <3>3
  <2> QED
    BY <1>4, <2>1 DEF Folding
<1> DEFINE iter == CHOOSE g : g = Fold(g)
<1>6. iter = Fold(iter)
  BY <1>5
<1>7. Total(s) = iter[T]
  <2>1. Total(s) = iter[DOMAIN s]
    BY <1>1, Zenon DEF Total, FoldLeft, MapThenFoldSet
  <2> QED
    BY <1>1, <2>1
<1> HIDE DEF iter
<1> DEFINE g == [j \in 0 .. n |-> iter[1 .. j]]
<1>8. g[0] = Zero /\ Total(s) = g[n]
  <2>1. 1 .. 0 = {} /\ 1 .. 0 \in SUBSET T /\ T \in SUBSET T
    OBVIOUS
  <2>2. iter[1 .. 0] = Zero
    BY <1>6, <2>1
  <2> QED
    BY <1>1, <1>7, <2>2
<1>9. ASSUME NEW j \in 1 .. n PROVE g[j] = Plus(g[j - 1], s[j])
  <2>1. /\ 1 .. j # {} /\ Max(1 .. j) = j /\ (1 .. j) \ {j} = 1 .. (j - 1)
        /\ 1 .. j \in SUBSET T
    BY <1>1, Segments
  <2>2. iter[1 .. j] = Plus(iter[1 .. (j - 1)], s[j])
    BY <1>6, <2>1
  <2> QED
    BY <1>1, <2>2
<1> QED
  <2> HIDE DEF g
  <2> QED
    BY <1>8, <1>9

\* A sum of fractions is one.
LEMMA TotalIn == ASSUME NEW s \in Seq(Frac) PROVE Total(s) \in Frac
<1>1. PICK g : /\ g[0] = Zero /\ Total(s) = g[Len(s)]
               /\ \A j \in 1 .. Len(s) : g[j] = Plus(g[j - 1], s[j])
  BY TotalFold
<1> DEFINE P == {j \in Nat : g[j] \in Frac}
<1>2. 0 \in P
  BY <1>1, Wholes
<1>3. ASSUME NEW j \in 1 .. Len(s), j - 1 \in P PROVE j \in P
  BY <1>1, <1>3, Closed
<1>4. Len(s) \in Nat /\ Len(s) \in 0 .. Len(s)
  OBVIOUS
<1>5. Len(s) \in P
  <2> HIDE DEF P
  <2> QED
    BY <1>2, <1>3, <1>4, Along
<1> QED
  BY <1>1, <1>5

\* The sum of nothing,
LEMMA TotalNothing == Total(<<>>) = Zero
<1>1. <<>> \in Seq(Frac) /\ Len(<<>>) = 0
  OBVIOUS
<1> QED
  BY <1>1, TotalFold

\* and of one term more.
LEMMA TotalAppend ==
  ASSUME NEW s \in Seq(Frac), NEW x \in Frac
  PROVE  Total(Append(s, x)) = Plus(Total(s), x)
<1>1. PICK g : /\ g[0] = Zero /\ Total(s) = g[Len(s)]
               /\ \A j \in 1 .. Len(s) : g[j] = Plus(g[j - 1], s[j])
  BY TotalFold
<1> DEFINE r == Append(s, x)
<1>2. /\ r \in Seq(Frac) /\ Len(r) = Len(s) + 1 /\ r[Len(s) + 1] = x
      /\ \A j \in 1 .. Len(s) : r[j] = s[j]
  OBVIOUS
<1>3. PICK h : /\ h[0] = Zero /\ Total(r) = h[Len(r)]
               /\ \A j \in 1 .. Len(r) : h[j] = Plus(h[j - 1], r[j])
  BY <1>2, TotalFold
<1> HIDE DEF r
<1>4. Len(s) \in Nat /\ \A j \in 1 .. Len(s) : j \in 1 .. Len(r)
  BY <1>2
<1>5. \A j \in 1 .. Len(s) : g[j - 1] = h[j - 1] => g[j] = h[j]
  BY <1>1, <1>2, <1>3, <1>4
<1>6. g[Len(s)] = h[Len(s)]
  BY <1>1, <1>3, <1>4, <1>5, SamePrefix
<1>7. Len(r) \in 1 .. Len(r) /\ Len(r) - 1 = Len(s)
  BY <1>2, <1>4
<1>8. h[Len(r)] = Plus(h[Len(s)], r[Len(r)])
  BY <1>3, <1>7
<1> QED
  BY <1>1, <1>2, <1>3, <1>6, <1>8 DEF r

-----------------------------------------------------------------------------
(* The ledger of a token: the order rows, and the row that a trade which   *)
(* has written its position is about to store.                             *)

\* The trades on t that have written their position and not their row, and the
\* tokens that no trade has torn or mixed.
Pending(t) == {p \in Procs : call[p].pc = "row" /\ call[p].token = t}
Apart(t)   == t \notin torn \cup mixed

\* The rows of t with the row that is on its way.
Ledger(t) == IF Pending(t) = {} THEN orders
             ELSE Append(orders, OrderRow(call[CHOOSE p : p \in Pending(t)]))

\* No more than one is, as long as nothing overlapped.
OneRow == \A t \in Tokens : Apart(t) => \A p, q \in Pending(t) : p = q

LedgerTypes == PaperTypes /\ OneRow

\* What a step can do to the ledger and the position of a token whose trades
\* were not cut in two and did not overlap.
Kept(t)    == Apart(t) /\ Ledger(t)' = Ledger(t) /\ position'[t] = position[t]
Written(t, c) ==
  /\ Apart(t) /\ Trading(c) /\ c.token = t /\ c.base = position[t]
  /\ Ledger(t)' = Append(Ledger(t), OrderRow(c)) /\ position'[t] = Made(c)
Passed(t, row) ==
  /\ Apart(t) /\ row \in Rows /\ row.token # t /\ position'[t] = position[t]
  /\ \/ Ledger(t) = orders /\ Ledger(t)' = Append(orders, row)
     \/ \E last \in Rows : /\ Ledger(t) = Append(orders, last)
                           /\ Ledger(t)' = Append(Append(orders, row), last)
Cleared(t) == Ledger(t)' = <<>> /\ position'[t] = Nothing

\* What a step does to the ledger and the position of a token that stays apart:
\* nothing, a trade on it, a trade on another token, or Reset.
LedgerMoves ==
  \A t \in Tokens : Apart(t)' =>
    \/ Kept(t) \/ Cleared(t) \/ \E c : Written(t, c) \/ Passed(t, c)

\* A ledger is rows.
LEMMA LedgerRows ==
  ASSUME PaperTypes, NEW t \in Tokens
  PROVE  /\ Ledger(t) \in Seq(Rows)
         /\ \/ Pending(t) = {} /\ Ledger(t) = orders
            \/ \E p \in Pending(t) : /\ Trading(call[p]) /\ OrderRow(call[p]) \in Rows
                                     /\ Ledger(t) = Append(orders, OrderRow(call[p]))
<1>1. orders \in Seq(Rows)
  BY DEF PaperTypes
<1>2. CASE Pending(t) = {}
  BY <1>1, <1>2 DEF Ledger
<1>3. CASE Pending(t) # {}
  <2>1. PICK p : p \in Pending(t) /\ Ledger(t) = Append(orders, OrderRow(call[p]))
    BY <1>3 DEF Ledger
  <2>2. Trading(call[p])
    BY <2>1, Calls DEF Pending
  <2>3. OrderRow(call[p]) \in Rows
    BY <2>2, RowType
  <2> QED
    BY <1>1, <2>1, <2>2, <2>3
<1> QED
  BY <1>2, <1>3

\* It stays when its rows and its pending trades do.
LEMMA LedgerSame ==
  ASSUME NEW t, orders' = orders, Pending(t)' = Pending(t),
         \A p \in Pending(t) : OrderRow(call'[p]) = OrderRow(call[p])
  PROVE  Ledger(t)' = Ledger(t)
<1>1. CASE Pending(t) = {}
  BY <1>1 DEF Ledger
<1>2. CASE Pending(t) # {}
  <2>1. PICK p : p = CHOOSE q : q \in Pending(t)
    OBVIOUS
  <2>2. p \in Pending(t)
    BY <1>2, <2>1
  <2>3. Ledger(t) = Append(orders, OrderRow(call[p]))
    BY <1>2, <2>1 DEF Ledger
  <2>4. Ledger(t)' = Append(orders', OrderRow(call'[CHOOSE q : q \in Pending(t)']))
    BY <1>2 DEF Ledger, OrderRow
  <2>5. (CHOOSE q : q \in Pending(t)') = p
    BY <2>1
  <2> QED
    BY <2>2, <2>3, <2>4, <2>5
<1> QED
  BY <1>1, <1>2

\* With one trade pending the ledger is the rows and its row.
LEMMA OneLedger ==
  ASSUME LedgerTypes, NEW t \in Tokens, Apart(t), NEW p \in Pending(t)
  PROVE  Pending(t) = {p} /\ Ledger(t) = Append(orders, OrderRow(call[p]))
<1>1. \A q \in Pending(t) : q = p
  BY DEF LedgerTypes, OneRow
<1>2. (CHOOSE q : q \in Pending(t)) = p
  BY <1>1
<1> QED
  BY <1>1, <1>2 DEF Ledger

\* Nobody has a row pending at the beginning.
LEMMA LedgerStarts == ASSUME Init PROVE LedgerTypes
<1>1. \A t \in Tokens : Pending(t) = {}
  BY DEF Init, Pending, Idle
<1> QED
  BY <1>1, TypesInit DEF LedgerTypes, OneRow

\* Every step moves every ledger in one of these ways.
LEMMA LedgerSteps ==
  ASSUME LedgerTypes, [Next]_vars
  PROVE  LedgerTypes' /\ LedgerMoves
<1>0. PaperTypes /\ PaperTypes' /\ OneRow
  BY TypesNext DEF LedgerTypes
<1>1. CASE UNCHANGED vars
  <2>1. \A t \in Tokens : Kept(t) \/ ~Apart(t)'
    BY <1>1 DEF vars, Kept, Ledger, Pending, Apart
  <2>2. OneRow'
    BY <1>0, <1>1 DEF vars, OneRow, Pending, Apart
  <2> QED
    BY <1>0, <2>1, <2>2 DEF LedgerTypes, LedgerMoves
<1>2. ASSUME NEW p \in Procs, NEW d, call' = [call EXCEPT ![p] = d], d = Idle \/ Trading(d),
             call[p].pc # "row", d.pc # "row", UNCHANGED <<position, orders, torn, mixed>>
      PROVE  LedgerTypes' /\ LedgerMoves
  <2>1. call'[p] = d /\ \A q \in Procs \ {p} : call'[q] = call[q]
    BY <1>0, <1>2, CallTypes
  <2>2. ASSUME NEW t PROVE Pending(t)' = Pending(t)
    BY <1>2, <2>1 DEF Pending
  <2>3. ASSUME NEW t, NEW q \in Pending(t) PROVE OrderRow(call'[q]) = OrderRow(call[q])
    BY <1>2, <2>1 DEF Pending
  <2>4. \A t \in Tokens : Ledger(t)' = Ledger(t)
    BY <1>2, <2>2, <2>3, LedgerSame
  <2>5. LedgerMoves
    BY <1>2, <2>4 DEF LedgerMoves, Kept, Apart
  <2>6. OneRow'
    BY <1>0, <1>2, <2>2 DEF OneRow, Apart
  <2> QED
    BY <1>0, <2>5, <2>6 DEF LedgerTypes, LedgerMoves
<1>3. ASSUME NEW p \in Procs, WritePosition(p) PROVE LedgerTypes' /\ LedgerMoves
  <2>1. PICK d : /\ call' = [call EXCEPT ![p] = d] /\ Trading(call[p]) /\ Trading(d)
                 /\ call[p].pc = "write" /\ d.pc = "row" /\ d.token = call[p].token
                 /\ d.side = call[p].side /\ d.walk = call[p].walk
    BY <1>0, <1>3, WriteStep
  <2>0. PICK c, u : c = call[p] /\ u = c.token
    OBVIOUS
  <2>2. call'[p] = d /\ \A q \in Procs \ {p} : call'[q] = call[q]
    BY <1>0, <2>1, CallTypes
  <2>3. /\ position' = [position EXCEPT ![u] = Made(c)] /\ orders' = orders /\ torn' = torn
        /\ mixed' = IF position[u] # c.base \/ Unrecorded(u) THEN mixed \cup {u} ELSE mixed
    BY <1>3, <2>0 DEF WritePosition, Made
  <2>4. u \in Tokens /\ DOMAIN position = Tokens
    BY <1>0, <2>0, <2>1 DEF Trading, PaperTypes
  <2>5. /\ position'[u] = Made(c) /\ \A t \in Tokens \ {u} : position'[t] = position[t]
    BY <2>3, <2>4
  <2>6. Pending(u)' = Pending(u) \cup {p} /\ p \notin Pending(u)
    BY <2>0, <2>1, <2>2 DEF Pending
  <2>7. \A t : t # u => Pending(t)' = Pending(t)
    BY <2>0, <2>1, <2>2 DEF Pending
  <2>8. OrderRow(d) = OrderRow(c)
    BY <2>0, <2>1 DEF OrderRow
  <2>9. ASSUME NEW t \in Tokens, t # u, Apart(t)' PROVE Kept(t) /\ Apart(t)
    <3>1. Apart(t)
      BY <2>3, <2>9 DEF Apart
    <3>2. \A q \in Pending(t) : OrderRow(call'[q]) = OrderRow(call[q])
      BY <2>0, <2>1, <2>2 DEF Pending
    <3>3. Ledger(t)' = Ledger(t)
      BY <2>3, <2>7, <2>9, <3>2, LedgerSame
    <3> QED
      BY <2>5, <2>9, <3>1, <3>3 DEF Kept
  <2>10. ASSUME Apart(u)' PROVE Written(u, c) /\ Pending(u)' = {p}
    <3>1. position[u] = c.base /\ ~Unrecorded(u) /\ Apart(u)
      BY <2>3, <2>10 DEF Apart
    <3>2. Pending(u) = {}
      BY <3>1 DEF Unrecorded, Pending
    <3>3. Pending(u)' = {p}
      BY <2>6, <3>2
    <3>4. Ledger(u) = orders
      BY <3>2 DEF Ledger
    <3>5. Ledger(u)' = Append(orders', OrderRow(call'[CHOOSE q : q \in Pending(u)']))
      BY <3>3 DEF Ledger, OrderRow
    <3>6. (CHOOSE q : q \in Pending(u)') = p
      BY <3>3
    <3>7. Ledger(u)' = Append(Ledger(u), OrderRow(c))
      BY <2>2, <2>3, <2>8, <3>4, <3>5, <3>6
    <3> QED
      BY <2>0, <2>1, <2>5, <3>1, <3>3, <3>7 DEF Written
  <2>11. LedgerMoves
    BY <2>9, <2>10 DEF LedgerMoves
  <2>12. OneRow'
    <3>1. ASSUME NEW t \in Tokens, Apart(t)' PROVE \A q, r \in Pending(t)' : q = r
      <4>1. CASE t = u
        BY <2>10, <3>1, <4>1
      <4>2. CASE t # u
        BY <1>0, <2>7, <2>9, <3>1, <4>2 DEF OneRow
      <4> QED
        BY <4>1, <4>2
    <3> QED
      BY <3>1 DEF OneRow
  <2> QED
    BY <1>0, <2>11, <2>12 DEF LedgerTypes
<1>4. ASSUME NEW p \in Procs, StoreOrder(p) PROVE LedgerTypes' /\ LedgerMoves
  <2>0. PICK c, u, row : c = call[p] /\ u = c.token /\ row = OrderRow(c)
    OBVIOUS
  <2>1. /\ c.pc = "row" /\ Trading(c) /\ call' = [call EXCEPT ![p] = Idle]
        /\ orders' = Append(orders, row) /\ UNCHANGED <<position, torn, mixed>>
    BY <1>0, <1>4, <2>0, Calls DEF StoreOrder, Go
  <2>2. call'[p] = Idle /\ \A q \in Procs \ {p} : call'[q] = call[q]
    BY <1>0, <2>1, CallTypes
  <2>3. u \in Tokens /\ row \in Rows /\ row.token = u
    BY <2>0, <2>1, RowType DEF Trading
  <2>4. Pending(u)' = Pending(u) \ {p} /\ p \in Pending(u) /\ \A t : t # u => Pending(t)' = Pending(t)
    BY <2>0, <2>1, <2>2 DEF Pending, Idle
  <2>5. ASSUME Apart(u) PROVE Kept(u) /\ Pending(u)' = {}
    <3>1. Pending(u) = {p} /\ Ledger(u) = Append(orders, row)
      BY <2>0, <2>3, <2>4, <2>5, OneLedger
    <3>2. Pending(u)' = {}
      BY <2>4, <3>1
    <3>3. Ledger(u)' = orders'
      BY <3>2 DEF Ledger
    <3> QED
      BY <2>1, <2>5, <3>1, <3>2, <3>3 DEF Kept
  <2>6. ASSUME NEW t \in Tokens, t # u, Apart(t) PROVE Passed(t, row)
    <3>1. CASE Pending(t) = {}
      <4>1. Ledger(t) = orders /\ Ledger(t)' = orders'
        BY <2>4, <2>6, <3>1 DEF Ledger
      <4> QED
        BY <2>1, <2>3, <2>6, <4>1 DEF Passed
    <3>2. CASE Pending(t) # {}
      <4>1. PICK q : q \in Pending(t)
        BY <3>2
      <4>2. Pending(t) = {q} /\ Ledger(t) = Append(orders, OrderRow(call[q]))
        BY <2>6, <4>1, OneLedger
      <4>3. Pending(t)' = {q}
        BY <2>4, <2>6, <4>2
      <4>4. q # p /\ call'[q] = call[q] /\ Trading(call[q])
        BY <1>0, <2>0, <2>2, <2>6, <4>1, Calls DEF Pending
      <4>5. Ledger(t)' = Append(orders', OrderRow(call'[CHOOSE r : r \in Pending(t)']))
        BY <4>3 DEF Ledger, OrderRow
      <4>6. (CHOOSE r : r \in Pending(t)') = q
        BY <4>3
      <4>7. Ledger(t)' = Append(Append(orders, row), OrderRow(call[q]))
        BY <2>1, <4>4, <4>5, <4>6
      <4>8. OrderRow(call[q]) \in Rows
        BY <4>4, RowType
      <4> QED
        BY <2>1, <2>3, <2>6, <4>2, <4>7, <4>8 DEF Passed
    <3> QED
      BY <3>1, <3>2
  <2>7. \A t : Apart(t)' <=> Apart(t)
    BY <2>1 DEF Apart
  <2>8. LedgerMoves
    BY <2>5, <2>6, <2>7 DEF LedgerMoves
  <2>9. OneRow'
    <3>1. ASSUME NEW t \in Tokens, Apart(t)' PROVE \A q, r \in Pending(t)' : q = r
      <4>1. Pending(t)' \subseteq Pending(t)
        BY <2>4
      <4> QED
        BY <1>0, <2>7, <3>1, <4>1 DEF OneRow
    <3> QED
      BY <3>1 DEF OneRow
  <2> QED
    BY <1>0, <2>8, <2>9 DEF LedgerTypes
<1>5. ASSUME NEW p \in Procs, Crash(p), call[p].pc = "row" PROVE LedgerTypes' /\ LedgerMoves
  <2>0. PICK u : u = call[p].token
    OBVIOUS
  <2>1. /\ call' = [call EXCEPT ![p] = Idle] /\ UNCHANGED <<position, orders, mixed>>
        /\ torn' = torn \cup {u}
    BY <1>5, <2>0 DEF Crash, Go
  <2>2. call'[p] = Idle /\ \A q \in Procs \ {p} : call'[q] = call[q]
    BY <1>0, <2>1, CallTypes
  <2>3. \A t : t # u => Pending(t)' = Pending(t)
    BY <2>0, <2>1, <2>2 DEF Pending, Idle
  <2>4. \A t : Apart(t)' => t # u /\ Apart(t)
    BY <2>1 DEF Apart
  <2>5. ASSUME NEW t \in Tokens, Apart(t)' PROVE Kept(t)
    <3>1. t # u /\ Apart(t) /\ Pending(t)' = Pending(t)
      BY <2>3, <2>4, <2>5
    <3>2. \A q \in Pending(t) : OrderRow(call'[q]) = OrderRow(call[q])
      BY <2>0, <2>2, <3>1 DEF Pending
    <3>3. Ledger(t)' = Ledger(t)
      BY <2>1, <3>1, <3>2, LedgerSame
    <3> QED
      BY <2>1, <3>1, <3>3 DEF Kept
  <2>6. OneRow'
    BY <1>0, <2>3, <2>4 DEF OneRow
  <2> QED
    BY <1>0, <2>5, <2>6 DEF LedgerTypes, LedgerMoves
<1>6. CASE Reset
  <2>1. /\ orders' = <<>> /\ position' = [t \in Tokens |-> Nothing] /\ call' = call
        /\ torn' = {t \in Tokens : Unrecorded(t)}
    BY <1>6 DEF Reset
  <2>2. ASSUME NEW t \in Tokens, Apart(t)' PROVE Pending(t)' = {} /\ Cleared(t)
    <3>1. Pending(t) = {}
      BY <2>1, <2>2 DEF Apart, Unrecorded, Pending
    <3>2. Pending(t)' = {}
      BY <2>1, <3>1 DEF Pending
    <3>3. Ledger(t)' = <<>>
      BY <2>1, <3>2 DEF Ledger
    <3> QED
      BY <2>1, <3>2, <3>3 DEF Cleared
  <2>3. OneRow'
    BY <2>2 DEF OneRow
  <2> QED
    BY <1>0, <2>2, <2>3 DEF LedgerTypes, LedgerMoves
<1>7. ASSUME NEW t \in Tokens, FetchBook(t) PROVE LedgerTypes' /\ LedgerMoves
  <2>1. UNCHANGED <<position, orders, call, torn, mixed>>
    BY <1>7 DEF FetchBook
  <2>2. \A u \in Tokens : Kept(u) \/ ~Apart(u)'
    BY <2>1 DEF Kept, Ledger, Pending, Apart
  <2>3. OneRow'
    BY <1>0, <2>1 DEF OneRow, Pending, Apart
  <2> QED
    BY <1>0, <2>2, <2>3 DEF LedgerTypes, LedgerMoves
<1>8. ASSUME NEW p \in Procs, NEW c, Begin(p, c) PROVE LedgerTypes' /\ LedgerMoves
  <2>1. /\ call' = [call EXCEPT ![p] = c] /\ Trading(c) /\ call[p].pc # "row" /\ c.pc # "row"
        /\ UNCHANGED <<position, orders, torn, mixed>>
    BY <1>8 DEF Begin
  <2> QED
    BY <1>2, <2>1
<1>9. ASSUME NEW p \in Procs, ReadPosition(p) PROVE LedgerTypes' /\ LedgerMoves
  <2>1. PICK d : /\ call' = [call EXCEPT ![p] = d] /\ Trading(d) /\ call[p].pc = "read" /\ d.pc = "write"
    BY <1>0, <1>9, ReadStep
  <2>2. UNCHANGED <<position, orders, torn, mixed>>
    BY <1>9 DEF ReadPosition
  <2> QED
    BY <1>2, <2>1, <2>2
<1>10. ASSUME NEW p \in Procs, Crash(p), call[p].pc # "row" PROVE LedgerTypes' /\ LedgerMoves
  <2>1. call' = [call EXCEPT ![p] = Idle] /\ UNCHANGED <<position, orders, torn, mixed>> /\ Idle.pc # "row"
    BY <1>10 DEF Crash, Go, Idle
  <2> QED
    BY <1>2, <1>10, <2>1
<1>11. LedgerTypes' /\ LedgerMoves
  <2>1. \A p \in Procs : Crash(p) => LedgerTypes' /\ LedgerMoves
    BY <1>5, <1>10
  <2>2. ASSUME Next PROVE LedgerTypes' /\ LedgerMoves
    <3>1. \/ \E p \in Procs : \/ \E c : Begin(p, c)
                            \/ ReadPosition(p) \/ WritePosition(p) \/ StoreOrder(p) \/ Crash(p)
          \/ Reset \/ \E t \in Tokens : FetchBook(t)
      BY <1>0, <2>2, Steps
    <3> QED
      BY <1>3, <1>4, <1>6, <1>7, <1>8, <1>9, <2>1, <3>1
  <2> QED
    BY <1>1, <2>2
<1> QED
  BY <1>11

-----------------------------------------------------------------------------
(* Money.                                                                  *)

\* The money of one side of a token's rows, and what the rows made in all.
Part(t, side, rows) ==
  [i \in DOMAIN rows |-> IF rows[i].token = t /\ rows[i].side = side THEN rows[i].usd ELSE Zero]
Gained(t, rows) == Minus(Total(Part(t, "SELL", rows)), Total(Part(t, "BUY", rows)))

\* What one row earns.
Earned(row) == IF row.side = "SELL" THEN row.usd ELSE Minus(Zero, row.usd)

\* Money spent is money lost.
LEMMA LessIsLoss ==
  ASSUME NEW a \in Frac, NEW b \in Frac, NEW c \in Frac
  PROVE  Minus(a, Plus(b, c)) = Plus(Minus(a, b), Minus(Zero, c))
<1>1. PICK d \in Nat \ {0} : Fits(a, d) /\ Fits(b, d) /\ Fits(c, d)
  BY FitTogether
<1>2. Num(a, d) \in Int /\ Num(b, d) \in Int /\ Num(c, d) \in Int /\ Fits(Zero, d) /\ Num(Zero, d) = 0
  BY <1>1, NumInt, NumZero
<1>3. /\ Fits(Minus(a, Plus(b, c)), d) /\ Num(Minus(a, Plus(b, c)), d) = Num(a, d) - (Num(b, d) + Num(c, d))
      /\ Fits(Plus(Minus(a, b), Minus(Zero, c)), d)
      /\ Num(Plus(Minus(a, b), Minus(Zero, c)), d) = (Num(a, d) - Num(b, d)) + (0 - Num(c, d))
  BY <1>1, <1>2, NumPlus, NumMinus
<1> QED
  BY <1>2, <1>3, NumOrder

\* A sale turns cost into money and the rest into profit.
LEMMA SoldLaw ==
  ASSUME NEW r \in Frac, NEW s \in Frac, NEW m \in Frac, NEW u \in Frac
  PROVE  Minus(Plus(r, Minus(u, s)), m) = Plus(Minus(r, Plus(s, m)), u)
<1>1. PICK d \in Nat \ {0} : Fits(r, d) /\ Fits(s, d) /\ Fits(m, d) /\ Fits(u, d)
  BY FitTogether
<1>2. Num(r, d) \in Int /\ Num(s, d) \in Int /\ Num(m, d) \in Int /\ Num(u, d) \in Int
  BY <1>1, NumInt
<1>3. /\ Fits(Minus(Plus(r, Minus(u, s)), m), d)
      /\ Num(Minus(Plus(r, Minus(u, s)), m), d) = (Num(r, d) + (Num(u, d) - Num(s, d))) - Num(m, d)
  BY <1>1, NumPlus, NumMinus
<1>4. /\ Fits(Plus(Minus(r, Plus(s, m)), u), d)
      /\ Num(Plus(Minus(r, Plus(s, m)), u), d) = (Num(r, d) - (Num(s, d) + Num(m, d))) + Num(u, d)
  BY <1>1, NumPlus, NumMinus
<1> QED
  BY <1>2, <1>3, <1>4, NumOrder

\* No rows, no money.
LEMMA EmptyMoney ==
  ASSUME NEW t PROVE Gained(t, <<>>) = Minus(Nothing.realized, Cost(Nothing))
<1>1. \A side : Part(t, side, <<>>) = <<>>
  BY DEF Part
<1>2. Gained(t, <<>>) = Minus(Zero, Zero)
  BY <1>1, TotalNothing DEF Gained
<1> QED
  BY <1>2, CostNothing DEF Nothing

\* A row adds its money to its own side of its own token.
LEMMA PartAppend ==
  ASSUME NEW t, NEW side, NEW rows \in Seq(Rows), NEW row \in Rows,
         NEW x, x = IF row.token = t /\ row.side = side THEN row.usd ELSE Zero
  PROVE  /\ Part(t, side, rows) \in Seq(Frac) /\ x \in Frac
         /\ Part(t, side, Append(rows, row)) = Append(Part(t, side, rows), x)
<1>1. Len(rows) \in Nat /\ DOMAIN rows = 1 .. Len(rows)
  OBVIOUS
<1>2. \A r \in Rows : r.usd \in Frac
  BY DEF Rows, Priced, Amounts
<1>3. \A i \in 1 .. Len(rows) : rows[i] \in Rows
  OBVIOUS
<1>4. x \in Frac
  BY <1>2, NothingType
<1>5. \A i \in 1 .. Len(rows) : Part(t, side, rows)[i] \in Frac
  BY <1>1, <1>2, <1>3, NothingType DEF Part
<1>6. Part(t, side, rows) = [i \in 1 .. Len(rows) |-> Part(t, side, rows)[i]]
  BY <1>1 DEF Part
<1>7. Part(t, side, rows) \in Seq(Frac) /\ Len(Part(t, side, rows)) = Len(rows)
  BY <1>1, <1>5, <1>6
<1> DEFINE more == Append(rows, row)
<1>8. /\ DOMAIN more = 1 .. (Len(rows) + 1) /\ more[Len(rows) + 1] = row
      /\ \A i \in 1 .. Len(rows) : more[i] = rows[i]
  OBVIOUS
<1> DEFINE longer == Append(Part(t, side, rows), x)
<1>9. /\ longer = [i \in 1 .. (Len(rows) + 1) |-> longer[i]]
      /\ longer[Len(rows) + 1] = x
      /\ \A i \in 1 .. Len(rows) : longer[i] = Part(t, side, rows)[i]
  BY <1>7
<1> HIDE DEF more, longer
<1>10. Part(t, side, more) = [i \in 1 .. (Len(rows) + 1) |-> Part(t, side, more)[i]]
  BY <1>8 DEF Part
<1>11. ASSUME NEW i \in 1 .. (Len(rows) + 1) PROVE Part(t, side, more)[i] = longer[i]
  <2>1. CASE i \in 1 .. Len(rows)
    BY <1>1, <1>8, <1>9, <2>1 DEF Part
  <2>2. CASE i = Len(rows) + 1
    BY <1>8, <1>9, <2>2 DEF Part
  <2> QED
    BY <1>1, <2>1, <2>2
<1>12. Part(t, side, more) = longer
  BY <1>9, <1>10, <1>11
<1> QED
  BY <1>4, <1>7, <1>12 DEF more, longer

\* What one more row earns.
LEMMA GainedAppend ==
  ASSUME NEW t, NEW rows \in Seq(Rows), NEW row \in Rows
  PROVE  /\ Gained(t, rows) \in Frac /\ Earned(row) \in Frac
         /\ Gained(t, Append(rows, row)) =
              IF row.token = t THEN Plus(Gained(t, rows), Earned(row)) ELSE Gained(t, rows)
<1>1. row.usd \in Frac /\ row.side \in Sides /\ Zero \in Frac
  BY NothingType DEF Rows, Priced, Amounts
<1>2. PICK x : x = IF row.token = t /\ row.side = "SELL" THEN row.usd ELSE Zero
  OBVIOUS
<1>3. PICK y : y = IF row.token = t /\ row.side = "BUY" THEN row.usd ELSE Zero
  OBVIOUS
<1>4. PICK a, b : a = Total(Part(t, "SELL", rows)) /\ b = Total(Part(t, "BUY", rows))
  OBVIOUS
<1>5. a \in Frac /\ b \in Frac /\ x \in Frac /\ y \in Frac
  BY <1>2, <1>3, <1>4, PartAppend, TotalIn
<1>6. Gained(t, rows) = Minus(a, b) /\ Minus(a, b) \in Frac
  BY <1>4, <1>5, Closed DEF Gained
<1>7. Gained(t, Append(rows, row)) = Minus(Plus(a, x), Plus(b, y))
  <2>1. Total(Part(t, "SELL", Append(rows, row))) = Plus(a, x)
    <3>1. /\ Part(t, "SELL", rows) \in Seq(Frac) /\ x \in Frac
          /\ Part(t, "SELL", Append(rows, row)) = Append(Part(t, "SELL", rows), x)
      BY <1>2, PartAppend
    <3> QED
      BY <1>4, <3>1, TotalAppend
  <2>2. Total(Part(t, "BUY", Append(rows, row))) = Plus(b, y)
    <3>1. /\ Part(t, "BUY", rows) \in Seq(Frac) /\ y \in Frac
          /\ Part(t, "BUY", Append(rows, row)) = Append(Part(t, "BUY", rows), y)
      BY <1>3, PartAppend
    <3> QED
      BY <1>4, <3>1, TotalAppend
  <2> QED
    BY <2>1, <2>2 DEF Gained
<1>8. Earned(row) \in Frac
  BY <1>1, Closed DEF Earned
<1>9. CASE row.token # t
  BY <1>2, <1>3, <1>5, <1>6, <1>7, <1>8, <1>9, Sums
<1>10. CASE row.token = t /\ row.side = "SELL"
  <2>1. x = row.usd /\ y = Zero /\ Earned(row) = x
    BY <1>2, <1>3, <1>10 DEF Earned
  <2>2. Minus(Plus(a, x), b) = Plus(Minus(a, b), x) /\ Plus(b, Zero) = b
    BY <1>5, Sums
  <2> QED
    BY <1>6, <1>7, <1>8, <1>10, <2>1, <2>2
<1>11. CASE row.token = t /\ row.side = "BUY"
  <2>1. x = Zero /\ y = row.usd /\ Earned(row) = Minus(Zero, y)
    BY <1>2, <1>3, <1>11 DEF Earned
  <2>2. Plus(a, Zero) = a
    BY <1>5, Sums
  <2>3. Minus(a, Plus(b, y)) = Plus(Minus(a, b), Minus(Zero, y))
    BY <1>5, LessIsLoss
  <2> QED
    BY <1>6, <1>7, <1>8, <1>11, <2>1, <2>2, <2>3
<1> QED
  BY <1>1, <1>9, <1>10, <1>11 DEF Sides

\* A trade moves the profit less the cost of what is held by its own money.
LEMMA MadeMoney ==
  ASSUME NEW c, Trading(c)
  PROVE  Minus(Made(c).realized, Cost(Made(c))) =
           Plus(Minus(c.base.realized, Cost(c.base)), Earned(OrderRow(c)))
<1>1. /\ c.walk \in Walks /\ c.base \in Positions /\ Positive(c.walk.shares) /\ c.side \in Sides
      /\ c.walk.usd \in Frac /\ c.walk.shares \in Frac /\ c.base.avg \in Frac
      /\ c.base.realized \in Frac /\ Cost(c.base) \in Frac
  <2>1. c.walk \in Walks /\ c.base \in Positions /\ Positive(c.walk.shares) /\ c.side \in Sides
    BY DEF Trading
  <2>2. c.walk.usd \in Frac /\ c.walk.shares \in Frac
    BY <2>1 DEF Walks, Amounts
  <2>3. c.base.avg \in Frac /\ c.base.realized \in Frac /\ c.base.shares \in Frac
    BY <2>1 DEF Positions, Amounts
  <2> QED
    BY <2>1, <2>2, <2>3, Closed DEF Cost
<1>2. PICK r, k, u : r = c.base.realized /\ k = Cost(c.base) /\ u = c.walk.usd
  OBVIOUS
<1>3. r \in Frac /\ k \in Frac /\ u \in Frac
  BY <1>1, <1>2
<1>4. OrderRow(c).side = c.side /\ OrderRow(c).usd = u
  BY <1>2, RowType
<1>5. CASE c.side = "BUY"
  <2>1. Made(c).realized = r /\ Cost(Made(c)) = Plus(k, u)
    BY <1>1, <1>2, <1>5, CostBought DEF Made
  <2>2. Earned(OrderRow(c)) = Minus(Zero, u)
    BY <1>4, <1>5 DEF Earned
  <2>3. Minus(r, Plus(k, u)) = Plus(Minus(r, k), Minus(Zero, u))
    BY <1>3, LessIsLoss
  <2> QED
    BY <1>2, <2>1, <2>2, <2>3
<1>6. CASE c.side = "SELL"
  <2>1. PICK s, m : s = Times(c.walk.shares, c.base.avg) /\ m = Cost(Made(c))
    OBVIOUS
  <2>2. s \in Frac /\ m \in Frac
    <3>1. Made(c) \in Positions
      BY MadeType
    <3>2. Made(c).shares \in Frac /\ Made(c).avg \in Frac
      BY <3>1 DEF Positions, Amounts
    <3> QED
      BY <1>1, <2>1, <3>2, Closed DEF Cost
  <2>3. k = Plus(s, m)
    BY <1>2, <1>6, <2>1, CostSold DEF Made
  <2>4. Made(c).realized = Plus(r, Minus(u, s))
    BY <1>2, <1>6, <2>1 DEF Made, Sold
  <2>5. Earned(OrderRow(c)) = u
    BY <1>4, <1>6 DEF Earned
  <2>6. Minus(Plus(r, Minus(u, s)), m) = Plus(Minus(r, Plus(s, m)), u)
    BY <1>3, <2>2, SoldLaw
  <2> QED
    BY <1>2, <2>1, <2>3, <2>4, <2>5, <2>6
<1> QED
  BY <1>1, <1>5, <1>6 DEF Sides

\* The money of a token balances; the inductive invariant.
Balanced(t) == Gained(t, Ledger(t)) = Minus(position[t].realized, Cost(position[t]))

MoneyInv == LedgerTypes /\ \A t \in Tokens : Apart(t) => Balanced(t)

\* The facts that make MoneyInv inductive, and MoneyConserved part of it.
LEMMA MoneyInit == ASSUME Init PROVE MoneyInv
<1>1. LedgerTypes /\ orders = <<>> /\ \A t \in Tokens : Pending(t) = {} /\ position[t] = Nothing
  BY LedgerStarts DEF Init, Pending, Idle
<1>2. ASSUME NEW t \in Tokens PROVE Balanced(t)
  <2>1. Ledger(t) = <<>>
    BY <1>1 DEF Ledger
  <2> QED
    BY <1>1, <2>1, EmptyMoney DEF Balanced
<1> QED
  BY <1>1, <1>2 DEF MoneyInv

\* A row and the position it belongs to earn the same.
LEMMA MoneyNext == ASSUME MoneyInv, [Next]_vars PROVE MoneyInv'
<1>1. LedgerTypes /\ PaperTypes /\ LedgerTypes' /\ LedgerMoves
  BY LedgerSteps DEF MoneyInv, LedgerTypes
<1>2. ASSUME NEW t \in Tokens, Apart(t)' PROVE Balanced(t)'
  <2>1. CASE Kept(t)
    BY <2>1 DEF Kept, Balanced, MoneyInv
  <2>2. CASE Cleared(t)
    BY <2>2, EmptyMoney DEF Cleared, Balanced
  <2>3. ASSUME NEW c, Written(t, c) PROVE Balanced(t)'
    <3>1. /\ Trading(c) /\ c.base = position[t] /\ Balanced(t) /\ position'[t] = Made(c)
          /\ Ledger(t)' = Append(Ledger(t), OrderRow(c)) /\ c.token = t
      BY <2>3 DEF Written, MoneyInv
    <3>2. OrderRow(c) \in Rows /\ OrderRow(c).token = t /\ Ledger(t) \in Seq(Rows)
      BY <1>1, <3>1, RowType, LedgerRows
    <3>3. Gained(t, Ledger(t)') = Plus(Gained(t, Ledger(t)), Earned(OrderRow(c)))
      BY <3>1, <3>2, GainedAppend
    <3> QED
      BY <3>1, <3>3, MadeMoney DEF Balanced
  <2>4. ASSUME NEW row, Passed(t, row) PROVE Balanced(t)'
    <3>1. Balanced(t) /\ row \in Rows /\ row.token # t /\ position'[t] = position[t]
      BY <2>4 DEF Passed, MoneyInv
    <3>2. orders \in Seq(Rows) /\ Append(orders, row) \in Seq(Rows)
      BY <1>1, <3>1 DEF PaperTypes
    <3>3. Gained(t, Append(orders, row)) = Gained(t, orders)
      BY <3>1, <3>2, GainedAppend
    <3>4. ASSUME NEW last \in Rows
          PROVE  Gained(t, Append(Append(orders, row), last)) = Gained(t, Append(orders, last))
      <4>1. PICK more : more = Append(orders, row)
        OBVIOUS
      <4>2. more \in Seq(Rows) /\ Gained(t, more) = Gained(t, orders)
        BY <3>2, <3>3, <4>1
      <4>3. Gained(t, Append(more, last)) =
              IF last.token = t THEN Plus(Gained(t, more), Earned(last)) ELSE Gained(t, more)
        BY <4>2, GainedAppend
      <4>4. Gained(t, Append(orders, last)) =
              IF last.token = t THEN Plus(Gained(t, orders), Earned(last)) ELSE Gained(t, orders)
        BY <3>2, GainedAppend
      <4> QED
        BY <4>1, <4>2, <4>3, <4>4
    <3>5. Gained(t, Ledger(t)') = Gained(t, Ledger(t))
      BY <2>4, <3>3, <3>4 DEF Passed
    <3> QED
      BY <3>1, <3>5 DEF Balanced
  <2> QED
    BY <1>1, <1>2, <2>1, <2>2, <2>3, <2>4 DEF LedgerMoves
<1> QED
  BY <1>1, <1>2 DEF MoneyInv

\* A token that is settled has no row pending.
LEMMA MoneyHolds == ASSUME MoneyInv PROVE MoneyConserved
<1>1. ASSUME NEW t \in Tokens, Settled(t)
      PROVE  Minus(Money(t, "SELL"), Money(t, "BUY")) = Minus(position[t].realized, Invested(t))
  <2>1. Apart(t) /\ Pending(t) = {}
    BY <1>1 DEF Settled, Apart, Unrecorded, Pending
  <2>2. Ledger(t) = orders /\ Balanced(t)
    BY <2>1 DEF Ledger, MoneyInv
  <2>3. \A side : Money(t, side) = Total(Part(t, side, orders))
    BY DEF Money, Part
  <2> QED
    BY <2>2, <2>3 DEF Balanced, Gained, Cost, Invested
<1> QED
  BY <1>1 DEF MoneyConserved

\* No money appears or disappears in a token whose trades neither crashed
\* between their two commits nor overlapped: what its order rows took in, less
\* what they paid, is the profit booked less the cost of what is held.
THEOREM PaperMoney == Spec => []MoneyConserved
<1>1. Init => MoneyInv
  BY MoneyInit
<1>2. MoneyInv /\ [Next]_vars => MoneyInv'
  BY MoneyNext
<1>3. MoneyInv => MoneyConserved
  BY MoneyHolds
<1> QED
  BY <1>1, <1>2, <1>3, PTL DEF Spec

-----------------------------------------------------------------------------
(* The views.                                                              *)

\* What these rows make of a token, and what one more row does.
ViewStep(t, pos, row) == IF row.token = t THEN ReplayRow(pos, row) ELSE pos

\* The position that a list of rows makes.
ViewOf(t, rows) ==
  FoldLeft(LAMBDA pos, row : IF row.token = t THEN ReplayRow(pos, row) ELSE pos, Nothing, rows)

\* Replaying a row leaves a position,
LEMMA ReplayType ==
  ASSUME NEW pos \in Positions, NEW row \in Rows
  PROVE  ReplayRow(pos, row) \in Positions
<1> DEFINE n == Over(row.usd, row.price)
           sold == Smaller(n, pos.shares)
           shares == Minus(pos.shares, sold)
<1>1. /\ row.usd \in Amounts /\ row.price \in Amounts /\ Positive(row.usd) /\ Positive(row.price)
      /\ pos.shares \in Amounts /\ pos.avg \in Amounts /\ pos.realized \in Frac
  BY DEF Rows, Priced, Positions
<1>2. n \in Amounts /\ Positive(n)
  BY <1>1, AmountLaws, Quotients DEF Amounts
<1>3. sold \in Amounts /\ AtMost(sold, pos.shares)
  BY <1>1, <1>2, AmountLaws, Smallers DEF Amounts
<1>4. shares \in Amounts
  BY <1>1, <1>3, AmountLaws
<1>5. Plus(pos.realized, Minus(row.usd, Times(sold, pos.avg))) \in Frac
  BY <1>1, <1>3, Closed DEF Amounts
<1>6. CASE row.side = "BUY"
  <2>1. PICK w : w = [shares |-> n, usd |-> row.usd]
    OBVIOUS
  <2>2. w.shares \in Amounts /\ w.usd \in Amounts /\ Positive(w.shares)
    BY <1>1, <1>2, <2>1
  <2>3. Bought(pos, w) \in Positions
    BY <2>2, BoughtType
  <2> QED
    BY <1>6, <2>1, <2>3 DEF ReplayRow
<1>7. CASE row.side # "BUY"
  <2>1. PICK avg : avg = IF Positive(shares) THEN pos.avg ELSE Zero
    OBVIOUS
  <2>2. avg \in Amounts
    BY <1>1, <2>1, NothingType
  <2>3. ReplayRow(pos, row) =
          [shares |-> shares, avg |-> avg,
           realized |-> Plus(pos.realized, Minus(row.usd, Times(sold, pos.avg)))]
    BY <1>7, <2>1 DEF ReplayRow
  <2> QED
    BY <1>4, <1>5, <2>2, <2>3 DEF Positions
<1> QED
  BY <1>6, <1>7

\* whatever token it is of.
LEMMA ViewType ==
  ASSUME NEW t, NEW pos \in Positions, NEW row \in Rows PROVE ViewStep(t, pos, row) \in Positions
BY ReplayType DEF ViewStep

\* The position that the rows make of a token, row by row.
LEMMA ViewFold ==
  ASSUME NEW t, NEW s \in Seq(Rows)
  PROVE  \E g : /\ g[0] = Nothing /\ ViewOf(t, s) = g[Len(s)]
                /\ \A j \in 1 .. Len(s) : g[j] = ViewStep(t, g[j - 1], s[j])
<1> DEFINE n == Len(s)
           T == 1 .. n
           W == Positions
           b == Nothing
           last == [S \in SUBSET T |-> Max(S)]
           G == [x \in W \X T |-> ViewStep(t, x[1], s[x[2]])]
           Fold(f) == [S \in SUBSET T |-> IF S = {} THEN b ELSE ViewStep(t, f[S \ {Max(S)}], s[Max(S)])]
<1>1. /\ n \in Nat /\ DOMAIN s = T /\ IsFiniteSet(T) /\ b \in W
      /\ \A S \in (SUBSET T) \ {{}} : Max(S) \in S
  <2>1. n \in Nat /\ DOMAIN s = T /\ b \in W
    BY NothingType
  <2> QED
    BY <2>1, Segments
<1>2. \A w \in W, i \in T : ViewStep(t, w, s[i]) \in W
  BY ViewType
<1>3. G \in [W \X T -> W] /\ \A w \in W, i \in T : G[<<w, i>>] = ViewStep(t, w, s[i])
  BY <1>2
<1>4. PICK f : Folding(f, T, W, b, last, G)
  <2> HIDE DEF T, W, b, G
  <2>1. \A S \in (SUBSET T) \ {{}} : last[S] \in S
    BY <1>1
  <2> HIDE DEF last
  <2>2. Foldable(T, W, b, last, G)
    BY <1>1, <1>3, <2>1 DEF Foldable
  <2> QED
    BY <2>2, FoldExists
<1>5. f = Fold(f)
  <2> HIDE DEF W, T, b, G
  <2>1. ASSUME NEW S \in SUBSET T PROVE f[S] = Fold(f)[S]
    <3>1. f[S] = IF S = {} THEN b ELSE G[<<f[S \ {last[S]}], last[S]>>]
      BY <1>4 DEF Folding
    <3>2. CASE S = {}
      BY <3>1, <3>2
    <3>3. CASE S # {}
      <4>1. last[S] = Max(S) /\ Max(S) \in T /\ f[S \ {Max(S)}] \in W
        BY <1>1, <1>4, <3>3 DEF Folding
      <4>2. f[S] = ViewStep(t, f[S \ {Max(S)}], s[Max(S)])
        BY <1>3, <3>1, <3>3, <4>1
      <4> QED
        BY <3>3, <4>2
    <3> QED
      BY <3>2, <3>3
  <2> QED
    BY <1>4, <2>1 DEF Folding
<1> DEFINE iter == CHOOSE g : g = Fold(g)
<1>6. iter = Fold(iter)
  BY <1>5
<1>7. ViewOf(t, s) = iter[T]
  <2>1. ViewOf(t, s) = iter[DOMAIN s]
    BY <1>1, Zenon DEF ViewOf, ViewStep, FoldLeft, MapThenFoldSet
  <2> QED
    BY <1>1, <2>1
<1> HIDE DEF iter
<1> DEFINE g == [j \in 0 .. n |-> iter[1 .. j]]
<1>8. g[0] = Nothing /\ ViewOf(t, s) = g[n]
  <2>1. 1 .. 0 = {} /\ 1 .. 0 \in SUBSET T /\ T \in SUBSET T
    OBVIOUS
  <2>2. iter[1 .. 0] = Nothing
    BY <1>6, <2>1
  <2> QED
    BY <1>1, <1>7, <2>2
<1>9. ASSUME NEW j \in 1 .. n PROVE g[j] = ViewStep(t, g[j - 1], s[j])
  <2>1. /\ 1 .. j # {} /\ Max(1 .. j) = j /\ (1 .. j) \ {j} = 1 .. (j - 1)
        /\ 1 .. j \in SUBSET T
    BY <1>1, Segments
  <2>2. iter[1 .. j] = ViewStep(t, iter[1 .. (j - 1)], s[j])
    BY <1>6, <2>1
  <2> QED
    BY <1>1, <2>2
<1> QED
  <2> HIDE DEF g
  <2> QED
    BY <1>8, <1>9

\* A list of rows makes a position,
LEMMA ViewIn == ASSUME NEW t, NEW s \in Seq(Rows) PROVE ViewOf(t, s) \in Positions
<1>1. PICK g : /\ g[0] = Nothing /\ ViewOf(t, s) = g[Len(s)]
               /\ \A j \in 1 .. Len(s) : g[j] = ViewStep(t, g[j - 1], s[j])
  BY ViewFold
<1> DEFINE P == {j \in Nat : g[j] \in Positions}
<1>2. 0 \in P
  BY <1>1, NothingType
<1>3. ASSUME NEW j \in 1 .. Len(s), j - 1 \in P PROVE j \in P
  <2>1. s[j] \in Rows /\ g[j - 1] \in Positions
    BY <1>3
  <2> QED
    BY <1>1, <2>1, ViewType
<1>4. Len(s) \in Nat /\ Len(s) \in 0 .. Len(s)
  OBVIOUS
<1>5. Len(s) \in P
  <2> HIDE DEF P
  <2> QED
    BY <1>2, <1>3, <1>4, Along
<1> QED
  BY <1>1, <1>5

\* no rows make the empty one,
LEMMA ViewNothing == ASSUME NEW t PROVE ViewOf(t, <<>>) = Nothing
<1>1. <<>> \in Seq(Rows) /\ Len(<<>>) = 0
  OBVIOUS
<1> QED
  BY <1>1, ViewFold

\* and one more row is replayed on it.
LEMMA ViewAppend ==
  ASSUME NEW t, NEW s \in Seq(Rows), NEW x \in Rows
  PROVE  ViewOf(t, Append(s, x)) = ViewStep(t, ViewOf(t, s), x)
<1>1. PICK g : /\ g[0] = Nothing /\ ViewOf(t, s) = g[Len(s)]
               /\ \A j \in 1 .. Len(s) : g[j] = ViewStep(t, g[j - 1], s[j])
  BY ViewFold
<1> DEFINE r == Append(s, x)
<1>2. /\ r \in Seq(Rows) /\ Len(r) = Len(s) + 1 /\ r[Len(s) + 1] = x
      /\ \A j \in 1 .. Len(s) : r[j] = s[j]
  OBVIOUS
<1> HIDE DEF r
<1>3. PICK h : /\ h[0] = Nothing /\ ViewOf(t, r) = h[Len(r)]
               /\ \A j \in 1 .. Len(r) : h[j] = ViewStep(t, h[j - 1], r[j])
  BY <1>2, ViewFold
<1>4. Len(s) \in Nat /\ \A j \in 1 .. Len(s) : j \in 1 .. Len(r)
  BY <1>2
<1>5. \A j \in 1 .. Len(s) : g[j - 1] = h[j - 1] => g[j] = h[j]
  BY <1>1, <1>2, <1>3, <1>4
<1>6. g[Len(s)] = h[Len(s)]
  BY <1>1, <1>3, <1>4, <1>5, SamePrefix
<1>7. Len(r) \in 1 .. Len(r) /\ Len(r) - 1 = Len(s)
  BY <1>2, <1>4
<1>8. h[Len(r)] = ViewStep(t, h[Len(s)], r[Len(r)])
  BY <1>3, <1>7
<1> QED
  BY <1>1, <1>2, <1>3, <1>6, <1>8 DEF r

\* A view and a position say the same: of what is sold out, the average price
\* is of no account.
Alike(v, pos) ==
  v.shares = pos.shares /\ v.realized = pos.realized /\ (Positive(v.shares) => v.avg = pos.avg)

\* Positions that are alike cost the same.
LEMMA AlikeCost ==
  ASSUME NEW v \in Positions, NEW pos \in Positions, Alike(v, pos)
  PROVE  Cost(v) = Cost(pos)
<1>1. v.shares \in Amounts /\ v.avg \in Frac /\ pos.avg \in Frac /\ v.shares = pos.shares
  BY DEF Positions, Amounts, Alike
<1>2. CASE Positive(v.shares)
  BY <1>2 DEF Alike, Cost
<1>3. CASE v.shares = Zero
  BY <1>1, <1>3, Products DEF Cost
<1> QED
  BY <1>1, <1>2, <1>3, AmountLaws

\* The row of a trade does to the view what the trade did to the position.
LEMMA MadeView ==
  ASSUME NEW c, Trading(c), NEW v \in Positions, Alike(v, c.base)
  PROVE  Alike(ReplayRow(v, OrderRow(c)), Made(c))
<1> DEFINE row == OrderRow(c)
<1>1. /\ c.walk.shares \in Frac /\ c.walk.usd \in Frac /\ c.walk.left \in Amounts /\ c.side \in Sides
      /\ Positive(c.walk.shares) /\ Positive(c.walk.usd) /\ c.base \in Positions
      /\ c.walk.shares \in Amounts
  BY DEF Trading, Walks, Amounts
<1>2. row.usd = c.walk.usd /\ row.price = Over(c.walk.usd, c.walk.shares) /\ row.side = c.side
  BY RowType
<1>3. Over(row.usd, row.price) = c.walk.shares
  BY <1>1, <1>2, Quotients
<1>4. v.shares = c.base.shares /\ v.realized = c.base.realized
  BY DEF Alike
<1>5. Cost(v) = Cost(c.base)
  BY <1>1, AlikeCost
<1> HIDE DEF row
<1>6. CASE c.side = "BUY"
  <2>1. v.avg \in Frac /\ v.shares \in Frac /\ c.base.avg \in Frac /\ c.base.shares \in Frac
    BY <1>1 DEF Positions, Amounts
  <2>2. Times(v.avg, v.shares) = Times(c.base.avg, c.base.shares)
    BY <1>5, <2>1, Products DEF Cost
  <2>3. ReplayRow(v, row) = Bought(v, [shares |-> c.walk.shares, usd |-> c.walk.usd])
    BY <1>2, <1>3, <1>6 DEF ReplayRow
  <2>4. Made(c) = Bought(c.base, c.walk)
    BY <1>6 DEF Made
  <2>5. Bought(v, [shares |-> c.walk.shares, usd |-> c.walk.usd]) = Bought(c.base, c.walk)
    BY <1>4, <2>2 DEF Bought
  <2> QED
    BY <2>3, <2>4, <2>5 DEF Alike, row
<1>7. CASE c.side = "SELL"
  <2>1. Plus(c.walk.shares, c.walk.left) = v.shares
    BY <1>4, <1>7 DEF Trading
  <2>2. v.shares \in Amounts /\ v.shares \in Frac /\ c.walk.left \in Frac
    BY <1>1 DEF Positions, Amounts
  <2>3. Positive(v.shares)
    BY <1>1, <2>1, AmountLaws
  <2>4. v.avg = c.base.avg
    BY <2>3 DEF Alike
  <2>5. Minus(v.shares, c.walk.shares) = c.walk.left
    <3>1. Plus(c.walk.left, c.walk.shares) = v.shares
      BY <1>1, <2>1, <2>2, Sums
    <3> QED
      BY <1>1, <2>2, <3>1, Sums
  <2>6. AtMost(c.walk.shares, v.shares)
    BY <1>1, <2>2, <2>5, Sums DEF Amounts
  <2>7. Smaller(c.walk.shares, v.shares) = c.walk.shares
    BY <2>6 DEF Smaller
  <2>8. ReplayRow(v, row) =
          [shares |-> c.walk.left, avg |-> IF Positive(c.walk.left) THEN v.avg ELSE Zero,
           realized |-> Plus(v.realized, Minus(c.walk.usd, Times(c.walk.shares, v.avg)))]
    BY <1>2, <1>3, <1>7, <2>5, <2>7 DEF ReplayRow
  <2>9. Made(c) = Sold(c.base, c.walk)
    BY <1>7 DEF Made
  <2> QED
    BY <1>4, <2>4, <2>8, <2>9 DEF Alike, Sold, row
<1> QED
  BY <1>1, <1>6, <1>7 DEF Sides

\* The rows say what the table says; the inductive invariant.
Viewed(t) == Alike(ViewOf(t, Ledger(t)), position[t])

ViewInv == LedgerTypes /\ \A t \in Tokens : Apart(t) => Viewed(t)

\* The two facts that make ViewInv inductive.
LEMMA ViewInit == ASSUME Init PROVE ViewInv
<1>1. LedgerTypes /\ orders = <<>> /\ \A t \in Tokens : Pending(t) = {} /\ position[t] = Nothing
  BY LedgerStarts DEF Init, Pending, Idle
<1>2. ASSUME NEW t \in Tokens PROVE Viewed(t)
  <2>1. Ledger(t) = <<>>
    BY <1>1 DEF Ledger
  <2> QED
    BY <1>1, <2>1, ViewNothing DEF Viewed, Alike
<1> QED
  BY <1>1, <1>2 DEF ViewInv

\* Replaying the row of a trade does what the trade did.
LEMMA ViewNext == ASSUME ViewInv, [Next]_vars PROVE ViewInv'
<1>1. LedgerTypes /\ PaperTypes /\ LedgerTypes' /\ LedgerMoves
  BY LedgerSteps DEF ViewInv, LedgerTypes
<1>2. ASSUME NEW t \in Tokens, Apart(t)' PROVE Viewed(t)'
  <2>1. CASE Kept(t)
    BY <2>1 DEF Kept, Viewed, ViewInv
  <2>2. CASE Cleared(t)
    BY <2>2, ViewNothing DEF Cleared, Viewed, Alike
  <2>3. ASSUME NEW c, Written(t, c) PROVE Viewed(t)'
    <3>1. /\ Trading(c) /\ c.base = position[t] /\ Viewed(t) /\ position'[t] = Made(c)
          /\ Ledger(t)' = Append(Ledger(t), OrderRow(c)) /\ c.token = t
      BY <2>3 DEF Written, ViewInv
    <3>2. OrderRow(c) \in Rows /\ OrderRow(c).token = t /\ Ledger(t) \in Seq(Rows)
      BY <1>1, <3>1, RowType, LedgerRows
    <3>3. ViewOf(t, Ledger(t)') = ReplayRow(ViewOf(t, Ledger(t)), OrderRow(c))
      BY <3>1, <3>2, ViewAppend DEF ViewStep
    <3>4. ViewOf(t, Ledger(t)) \in Positions
      BY <3>2, ViewIn
    <3> QED
      BY <3>1, <3>3, <3>4, MadeView DEF Viewed
  <2>4. ASSUME NEW row, Passed(t, row) PROVE Viewed(t)'
    <3>1. Viewed(t) /\ row \in Rows /\ row.token # t /\ position'[t] = position[t]
      BY <2>4 DEF Passed, ViewInv
    <3>2. orders \in Seq(Rows)
      BY <1>1 DEF PaperTypes
    <3>3. PICK more : more = Append(orders, row)
      OBVIOUS
    <3>4. more \in Seq(Rows) /\ ViewOf(t, more) = ViewOf(t, orders)
      BY <3>1, <3>2, <3>3, ViewAppend DEF ViewStep
    <3>5. ASSUME NEW last \in Rows
          PROVE  ViewOf(t, Append(more, last)) = ViewOf(t, Append(orders, last))
      <4>1. ViewOf(t, Append(more, last)) = ViewStep(t, ViewOf(t, more), last)
        BY <3>4, ViewAppend
      <4>2. ViewOf(t, Append(orders, last)) = ViewStep(t, ViewOf(t, orders), last)
        BY <3>2, ViewAppend
      <4> QED
        BY <3>4, <4>1, <4>2
    <3>6. ViewOf(t, Ledger(t)') = ViewOf(t, Ledger(t))
      BY <2>4, <3>3, <3>4, <3>5 DEF Passed
    <3> QED
      BY <3>1, <3>6 DEF Viewed
  <2> QED
    BY <1>1, <1>2, <2>1, <2>2, <2>3, <2>4 DEF LedgerMoves
<1> QED
  BY <1>1, <1>2 DEF ViewInv

\* What the dashboard shows is the view of the rows,
LEMMA ActiveView == ASSUME NEW t PROVE ActivePosition(t) = ViewOf(t, orders)
BY DEF ActivePosition, ViewOf

\* and of a settled token it is what the table says.
LEMMA SettledView ==
  ASSUME ViewInv, NEW t \in Tokens, Settled(t)
  PROVE  Alike(ActivePosition(t), position[t])
<1>1. Apart(t) /\ Pending(t) = {}
  BY DEF Settled, Apart, Unrecorded, Pending
<1>2. Ledger(t) = orders /\ Viewed(t)
  BY <1>1 DEF Ledger, ViewInv
<1> QED
  BY <1>2, ActiveView DEF Viewed

\* TokenSeq lists tokens.
LEMMA TokenSeqIn == /\ DOMAIN TokenSeq = 1 .. Cardinality(Tokens) /\ Cardinality(Tokens) \in Nat
                    /\ \A k \in DOMAIN TokenSeq : TokenSeq[k] \in Tokens
<1>1. IsFiniteSet(Tokens)
  BY PaperAssumption
<1>2. Cardinality(Tokens) \in Nat /\ ExistsBijection(1 .. Cardinality(Tokens), Tokens)
  BY <1>1, FS_CardinalityType
<1>3. \E f \in [1 .. Cardinality(Tokens) -> Tokens] : IsInjective(f)
  BY <1>2 DEF ExistsBijection, Bijection, Injection, IsInjective
<1>4. TokenSeq \in [1 .. Cardinality(Tokens) -> Tokens]
  BY <1>3 DEF TokenSeq, SetToSeq
<1> QED
  BY <1>2, <1>4

\* The tiles are the same for positions that are alike.
LEMMA StatsAlike ==
  ASSUME NEW v \in [Tokens -> Positions], NEW pos \in [Tokens -> Positions],
         \A t \in Tokens : Alike(v[t], pos[t])
  PROVE  Stats(v) = Stats(pos)
<1>1. \A t \in Tokens : Cost(v[t]) = Cost(pos[t])
  BY AlikeCost
<1>2. [k \in DOMAIN TokenSeq |-> v[TokenSeq[k]].realized] =
        [k \in DOMAIN TokenSeq |-> pos[TokenSeq[k]].realized]
  BY TokenSeqIn DEF Alike
<1>3. [k \in DOMAIN TokenSeq |-> Cost(v[TokenSeq[k]])] =
        [k \in DOMAIN TokenSeq |-> Cost(pos[TokenSeq[k]])]
  BY <1>1, TokenSeqIn
<1>4. [k \in DOMAIN TokenSeq |->
         Minus(Times(v[TokenSeq[k]].shares, TileBid(TokenSeq[k])), Cost(v[TokenSeq[k]]))] =
        [k \in DOMAIN TokenSeq |->
           Minus(Times(pos[TokenSeq[k]].shares, TileBid(TokenSeq[k])), Cost(pos[TokenSeq[k]]))]
  BY <1>1, TokenSeqIn DEF Alike
<1>5. {t \in Tokens : Positive(v[t].shares)} = {t \in Tokens : Positive(pos[t].shares)}
  BY DEF Alike
<1> QED
  BY <1>2, <1>3, <1>4, <1>5, Zenon DEF Stats, Cost

\* ViewsAgree follows.
LEMMA ViewsHold == ASSUME ViewInv PROVE ViewsAgree
<1>1. \A t \in Tokens : Settled(t) => Alike(ActivePosition(t), position[t])
  BY SettledView
<1>2. ASSUME \A t \in Tokens : Settled(t) PROVE WebStats = CliStats
  <2>1. orders \in Seq(Rows) /\ position \in [Tokens -> Positions]
    BY DEF ViewInv, LedgerTypes, PaperTypes
  <2>2. PICK v : v = [t \in Tokens |-> ActivePosition(t)]
    OBVIOUS
  <2>3. v \in [Tokens -> Positions]
    BY <2>1, <2>2, ActiveView, ViewIn
  <2>4. \A t \in Tokens : Alike(v[t], position[t])
    BY <1>1, <1>2, <2>2
  <2> QED
    BY <2>1, <2>2, <2>3, <2>4, StatsAlike DEF WebStats, CliStats
<1> QED
  BY <1>1, <1>2 DEF ViewsAgree, Alike

\* The positions kept up trade by trade are the ones that the dashboards work
\* out from the order rows, and the totals of the two dashboards are the same.
THEOREM PaperViews == Spec => []ViewsAgree
<1>1. Init => ViewInv
  BY ViewInit
<1>2. ViewInv /\ [Next]_vars => ViewInv'
  BY ViewNext
<1>3. ViewInv => ViewsAgree
  BY ViewsHold
<1> QED
  BY <1>1, <1>2, <1>3, PTL DEF Spec

-----------------------------------------------------------------------------
(* The chart and the tile.                                                 *)

\* The greatest of a finite set of numbers.
LEMMA MaxIs ==
  ASSUME NEW S, IsFiniteSet(S), S # {}, S \subseteq Int
  PROVE  Max(S) \in S /\ \A j \in S : Max(S) >= j
<1>1. PICK up : up = [i \in S |-> i]
  OBVIOUS
<1>2. \A i \in S : up[i] \in Int
  BY <1>1
<1>3. \E i \in S : \A j \in S : up[j] <= up[i]
  BY <1>2, GreatestExists
<1>4. \E i \in S : \A j \in S : i >= j
  BY <1>1, <1>3
<1> QED
  BY <1>4 DEF Max

\* The books of a token, and those that the chart takes into account.
Snapped(t) == {i \in DOMAIN snapshots : snapshots[i].token = t}
Charted(t) == {i \in DOMAIN snapshots :
                 snapshots[i].token = t /\ snapshots[i].after > 0 /\ snapshots[i].book.bids # <<>>}

\* The last of some snapshots.
LEMMA LatestIs ==
  ASSUME PaperTypes, NEW ids \in SUBSET DOMAIN snapshots
  PROVE  /\ ids = {} => Latest(ids) = {}
         /\ ids # {} => /\ Max(ids) \in ids /\ (\A j \in ids : Max(ids) >= j)
                        /\ Latest(ids) = {snapshots[Max(ids)]}
<1>1. IsFiniteSet(ids) /\ ids \subseteq Int
  <2>1. snapshots \in Seq(Snapshots)
    BY DEF PaperTypes
  <2>2. DOMAIN snapshots = 1 .. Len(snapshots) /\ Len(snapshots) \in Nat
    BY <2>1
  <2>3. IsFiniteSet(DOMAIN snapshots)
    BY <2>2, Segments
  <2> QED
    BY <2>2, <2>3, FS_Subset
<1>2. ids = {} => Latest(ids) = {}
  BY DEF Latest
<1>3. ASSUME ids # {}
      PROVE  /\ Max(ids) \in ids /\ (\A j \in ids : Max(ids) >= j)
             /\ Latest(ids) = {snapshots[Max(ids)]}
  <2>1. Max(ids) \in ids /\ \A j \in ids : Max(ids) >= j
    BY <1>1, <1>3, MaxIs
  <2>2. {j \in ids : j = Max(ids)} = {Max(ids)}
    BY <2>1
  <2> QED
    BY <2>1, <2>2 DEF Latest
<1> QED
  BY <1>2, <1>3

\* A book without bids has no best bid, any other has one.
LEMMA BestBidIs ==
  ASSUME NEW s \in Snapshots
  PROVE  IF s.book.bids = <<>> THEN BestBid(s) = {}
         ELSE \E b \in Nat : BestBid(s) = {b}
<1> DEFINE levels == s.book.bids
           prices == {l[1] : l \in ToSet(levels)}
<1>1. levels \in Seq(Nat \X Nat)
  <2>1. s.book \in Books
    BY DEF Snapshots
  <2> QED
    BY <2>1, BookLevels
<1>2. CASE levels = <<>>
  BY <1>2 DEF BestBid
<1>3. CASE levels # <<>>
  <2>1. Len(levels) \in Nat /\ DOMAIN levels = 1 .. Len(levels) /\ 1 \in DOMAIN levels
    BY <1>1, <1>3
  <2>2. \A i \in DOMAIN levels : levels[i] \in Nat \X Nat
    BY <1>1
  <2>3. prices = {levels[i][1] : i \in DOMAIN levels}
    BY DEF ToSet
  <2>4. prices \subseteq Int /\ prices # {} /\ prices \subseteq Nat
    <3>1. \A i \in DOMAIN levels : levels[i][1] \in Nat
      BY <2>2
    <3> HIDE DEF prices, levels
    <3>2. levels[1][1] \in prices
      BY <2>1, <2>3
    <3>3. prices \subseteq Nat
      BY <2>3, <3>1
    <3> QED
      BY <3>2, <3>3
  <2>5. IsFiniteSet(prices)
    <3>1. IsFiniteSet(DOMAIN levels)
      BY <2>1, Segments
    <3>2. PICK f : f = [i \in DOMAIN levels |-> levels[i][1]]
      OBVIOUS
    <3>3. prices = {f[i] : i \in DOMAIN levels}
      BY <2>3, <3>2
    <3>4. f \in [DOMAIN levels -> prices] /\ \A p \in prices : \E i \in DOMAIN levels : f[i] = p
      BY <3>2, <3>3
    <3>5. f \in Surjection(DOMAIN levels, prices)
      BY <3>4 DEF Surjection
    <3> HIDE DEF levels, prices
    <3> QED
      BY <3>1, <3>5, FS_Surjection
  <2> HIDE DEF prices
  <2>6. Max(prices) \in Nat
    BY <2>4, <2>5, MaxIs
  <2>7. BestBid(s) = {Max(prices)}
    BY <1>3 DEF BestBid, Dearest, prices
  <2> QED
    BY <1>3, <2>6, <2>7
<1> QED
  BY <1>2, <1>3

\* What the tile and the chart value a token at is a number.
LEMMA BidTypes ==
  ASSUME PaperTypes, NEW t \in Tokens
  PROVE  TileBid(t) \in Frac /\ ChartBid(t) \subseteq Frac
<1>1. \A b \in Nat : Whole(b) \in Frac
  BY Wholes
<1>2. ASSUME NEW ids \in SUBSET DOMAIN snapshots
      PROVE  \/ UNION {BestBid(s) : s \in Latest(ids)} = {}
             \/ \E b \in Nat : UNION {BestBid(s) : s \in Latest(ids)} = {b}
  <2>1. CASE ids = {}
    BY <2>1, LatestIs
  <2>2. CASE ids # {}
    <3>1. Latest(ids) = {snapshots[Max(ids)]} /\ snapshots[Max(ids)] \in Snapshots
      BY <2>2, LatestIs, Tables
    <3>2. UNION {BestBid(s) : s \in Latest(ids)} = BestBid(snapshots[Max(ids)])
      BY <3>1
    <3> QED
      BY <3>1, <3>2, BestBidIs
  <2> QED
    BY <2>1, <2>2
<1>3. TileBid(t) \in Frac
  <2>1. PICK bids : bids = UNION {BestBid(s) : s \in Latest(Snapped(t))}
    OBVIOUS
  <2>2. TileBid(t) = IF bids = {} THEN Zero ELSE Whole(Max(bids))
    BY <2>1 DEF TileBid, Snapped
  <2>3. bids = {} \/ \E b \in Nat : bids = {b}
    BY <1>2, <2>1 DEF Snapped
  <2>4. \A b \in Nat : Max({b}) = b
    BY DEF Max
  <2> QED
    BY <1>1, <2>2, <2>3, <2>4, NothingType
<1>4. ChartBid(t) \subseteq Frac
  <2>1. PICK bids : bids = UNION {BestBid(s) : s \in Latest(Charted(t))}
    OBVIOUS
  <2>2. ChartBid(t) = {Whole(b) : b \in bids}
    BY <2>1 DEF ChartBid, Charted
  <2>3. bids = {} \/ \E b \in Nat : bids = {b}
    BY <1>2, <2>1 DEF Charted
  <2> QED
    BY <1>1, <2>2, <2>3
<1> QED
  BY <1>3, <1>4

\* When the last book of a token has a bid and is not from before the first
\* order, the chart's last bid is the tile's.
LEMMA SameBid ==
  ASSUME PaperTypes, NEW t \in Tokens,
         \E s \in Latest(Snapped(t)) : s.after > 0 /\ s.book.bids # <<>>
  PROVE  ChartBid(t) = {TileBid(t)}
<1>1. Snapped(t) \in SUBSET DOMAIN snapshots /\ Charted(t) \in SUBSET DOMAIN snapshots
  BY DEF Snapped, Charted
<1>2. Snapped(t) # {}
  BY <1>1, LatestIs
<1>3. PICK m : m = Max(Snapped(t))
  OBVIOUS
<1>4. m \in Snapped(t) /\ (\A j \in Snapped(t) : m >= j) /\ Latest(Snapped(t)) = {snapshots[m]}
  BY <1>1, <1>2, <1>3, LatestIs
<1>5. snapshots[m].after > 0 /\ snapshots[m].book.bids # <<>>
  BY <1>4
<1>6. m \in Charted(t) /\ Charted(t) \subseteq Snapped(t)
  BY <1>4, <1>5 DEF Snapped, Charted
<1>7. Max(Charted(t)) = m
  <2>1. Max(Charted(t)) \in Charted(t) /\ \A j \in Charted(t) : Max(Charted(t)) >= j
    BY <1>1, <1>6, LatestIs
  <2>2. m \in Nat /\ Max(Charted(t)) \in Nat
    BY <1>1, <1>6, <2>1 DEF PaperTypes
  <2>3. Max(Charted(t)) >= m /\ m >= Max(Charted(t))
    BY <1>4, <1>6, <2>1
  <2> QED
    BY <2>2, <2>3
<1>8. Latest(Charted(t)) = {snapshots[m]}
  BY <1>1, <1>6, <1>7, LatestIs
<1>9. PICK b \in Nat : BestBid(snapshots[m]) = {b}
  BY <1>1, <1>4, <1>5, Tables, BestBidIs
<1>10. /\ UNION {BestBid(s) : s \in Latest(Snapped(t))} = {b}
       /\ UNION {BestBid(s) : s \in Latest(Charted(t))} = {b}
  BY <1>4, <1>8, <1>9
<1>11. Max({b}) = b
  BY DEF Max
<1>12. TileBid(t) = Whole(b)
  BY <1>10, <1>11 DEF TileBid, Snapped
<1>13. ChartBid(t) = {Whole(b)}
  BY <1>10 DEF ChartBid, Charted
<1> QED
  BY <1>12, <1>13

\* What the chart and the tile make of a token.
Charting(t) ==
  LET pos == ActivePosition(t)
      bid == ChartBid(t)
  IN  IF bid = {} THEN Zero ELSE Times(pos.shares, Minus(CHOOSE b \in bid : TRUE, pos.avg))
Tiling(t) ==
  Minus(Times(ActivePosition(t).shares, TileBid(t)),
        Times(ActivePosition(t).shares, ActivePosition(t).avg))

\* They make the same of it.
LEMMA ChartedAlike ==
  ASSUME PaperTypes, NEW t \in Tokens,
         Positive(ActivePosition(t).shares) =>
           \E s \in Latest(Snapped(t)) : s.after > 0 /\ s.book.bids # <<>>
  PROVE  Charting(t) = Tiling(t)
<1>1. PICK n, a, b : n = ActivePosition(t).shares /\ a = ActivePosition(t).avg /\ b = TileBid(t)
  OBVIOUS
<1>2. n \in Amounts /\ n \in Frac /\ a \in Frac /\ b \in Frac
  <2>1. ActivePosition(t) \in Positions
    BY ActiveView, ViewIn DEF PaperTypes
  <2> QED
    BY <1>1, <2>1, BidTypes DEF Positions, Amounts
<1>3. CASE Positive(n)
  <2>1. ChartBid(t) = {b}
    BY <1>1, <1>3, SameBid
  <2>2. Charting(t) = Times(n, Minus(b, a))
    BY <1>1, <2>1 DEF Charting
  <2>3. Tiling(t) = Minus(Times(n, b), Times(n, a))
    BY <1>1 DEF Tiling
  <2>4. Times(Minus(b, a), n) = Minus(Times(b, n), Times(a, n)) /\ Minus(b, a) \in Frac
    BY <1>2, Products, Closed
  <2> QED
    BY <1>2, <2>2, <2>3, <2>4, Products
<1>4. CASE n = Zero
  <2>1. Tiling(t) = Zero
    BY <1>1, <1>2, <1>4, Products, Sums DEF Tiling
  <2>2. CASE ChartBid(t) = {}
    BY <2>1, <2>2 DEF Charting
  <2>3. CASE ChartBid(t) # {}
    <3>1. PICK c : c = CHOOSE x \in ChartBid(t) : TRUE
      OBVIOUS
    <3>2. c \in Frac
      BY <2>3, <3>1, BidTypes
    <3>3. Charting(t) = Times(n, Minus(c, a))
      BY <1>1, <2>3, <3>1 DEF Charting
    <3> QED
      BY <1>2, <1>4, <2>1, <3>2, <3>3, Products, Closed
  <2> QED
    BY <2>2, <2>3
<1> QED
  BY <1>2, <1>3, <1>4, AmountLaws

\* So the sums are the same.
LEMMA ChartHolds == ASSUME PaperTypes PROVE ChartMatchesTile
<1> SUFFICES ASSUME \A t \in Tokens : Positive(ActivePosition(t).shares) =>
                      \E s \in Latest({i \in DOMAIN snapshots : snapshots[i].token = t}) :
                        s.after > 0 /\ s.book.bids # <<>>
             PROVE  ChartUnrealized = WebStats.unrealized
  BY DEF ChartMatchesTile
<1>1. \A t \in Tokens : Charting(t) = Tiling(t)
  BY ChartedAlike DEF Snapped
<1>2. [k \in DOMAIN TokenSeq |-> Charting(TokenSeq[k])] = [k \in DOMAIN TokenSeq |-> Tiling(TokenSeq[k])]
  BY <1>1, TokenSeqIn
<1>3. ChartUnrealized = Total([k \in DOMAIN TokenSeq |-> Charting(TokenSeq[k])])
  BY DEF ChartUnrealized, Charting
<1>4. PICK v : v = [t \in Tokens |-> ActivePosition(t)]
  OBVIOUS
<1>5. Stats(v).unrealized =
        Total([k \in DOMAIN TokenSeq |->
                 Minus(Times(v[TokenSeq[k]].shares, TileBid(TokenSeq[k])),
                       Times(v[TokenSeq[k]].shares, v[TokenSeq[k]].avg))])
  BY DEF Stats
<1>6. [k \in DOMAIN TokenSeq |->
         Minus(Times(v[TokenSeq[k]].shares, TileBid(TokenSeq[k])),
               Times(v[TokenSeq[k]].shares, v[TokenSeq[k]].avg))] =
        [k \in DOMAIN TokenSeq |-> Tiling(TokenSeq[k])]
  BY <1>4, TokenSeqIn DEF Tiling
<1>7. WebStats.unrealized = Total([k \in DOMAIN TokenSeq |-> Tiling(TokenSeq[k])])
  BY <1>4, <1>5, <1>6 DEF WebStats
<1> QED
  BY <1>2, <1>3, <1>7

\* The chart's last point and the tile agree once every position held has a
\* bid in its last book, and that book is not from before the first order.
THEOREM PaperChart == Spec => []ChartMatchesTile
<1>1. Init => PaperTypes
  BY TypesInit
<1>2. PaperTypes /\ [Next]_vars => PaperTypes'
  BY TypesNext
<1>3. PaperTypes => ChartMatchesTile
  BY ChartHolds
<1> QED
  BY <1>1, <1>2, <1>3, PTL DEF Spec

-----------------------------------------------------------------------------
(* The lots.                                                               *)

\* Lots, a sale on its way through them, and what is known of a token.
Lots     == [left : Amounts, price : Amounts]
Sales    == [left : Amounts, usd : Frac, profit : Frac, open : Seq(Lots)]
LotBooks == [open : Seq(Lots), profit : Frac]

\* What is left in each lot, and what that cost.
Lefts(open) == [i \in DOMAIN open |-> open[i].left]
Costs(open) == [i \in DOMAIN open |-> Times(open[i].left, open[i].price)]

\* What a sale does to a lot, and to all of them.
SaleStep(s, lot) ==
  LET n    == Smaller(lot.left, s.left)
      paid == Times(s.usd, Over(n, s.left))
  IN  IF ~Positive(n) THEN [s EXCEPT !.open = Append(@, lot)]
      ELSE [left |-> Minus(s.left, n), usd |-> Minus(s.usd, paid),
            profit |-> Plus(s.profit, Minus(paid, Times(n, lot.price))),
            open |-> Append(s.open, [lot EXCEPT !.left = Minus(@, n)])]

\* A sale, as ApplyToLots has it.
SaleOf(start, lots) ==
  FoldLeft(LAMBDA s, lot :
             LET n    == Smaller(lot.left, s.left)
                 paid == Times(s.usd, Over(n, s.left))
             IN  IF ~Positive(n) THEN [s EXCEPT !.open = Append(@, lot)]
                 ELSE [left |-> Minus(s.left, n), usd |-> Minus(s.usd, paid),
                       profit |-> Plus(s.profit, Minus(paid, Times(n, lot.price))),
                       open |-> Append(s.open, [lot EXCEPT !.left = Minus(@, n)])],
           start, lots)

\* What these rows make of the lots of a token, and what one more row does.
LotStep(t, lots, row) == IF row.token = t THEN ApplyToLots(lots, row) ELSE lots

\* No lots yet.
NoLots == [open |-> <<>>, profit |-> Zero]
LotsOf(t, rows) ==
  FoldLeft(LAMBDA lots, row : IF row.token = t THEN ApplyToLots(lots, row) ELSE lots,
           [open |-> <<>>, profit |-> Zero], rows)

\* One of anything.
LEMMA TimesOne == ASSUME NEW a \in Frac PROVE Times(a, Whole(1)) = a
<1>1. a[1] \in Int /\ a[2] \in Nat \ {0} /\ a = Fraction(a[1], a[2])
  BY Parts DEF Frac
<1>2. a[1] * 1 = a[1] /\ a[2] * 1 = a[2]
  BY <1>1
<1> QED
  BY <1>1, <1>2 DEF Times, Whole

\* Anything of itself.
LEMMA OverSelf == ASSUME NEW a \in Frac, Positive(a) PROVE Over(a, a) = Whole(1)
<1> DEFINE q == Over(a, a)
           z == Minus(q, Whole(1))
<1>1. q \in Frac /\ Times(q, a) = a /\ Whole(1) \in Frac /\ Zero \in Frac
  <2>1. 1 \in Int
    OBVIOUS
  <2> QED
    BY <2>1, Closed, Quotients, Wholes
<1> HIDE DEF q
<1>2. z \in Frac /\ Minus(Zero, z) \in Frac
  BY <1>1, Closed
<1>3. Times(z, a) = Zero
  <2>1. Times(z, a) = Minus(Times(q, a), Times(Whole(1), a))
    BY <1>1, Products
  <2>2. Times(Whole(1), a) = a /\ Minus(a, a) = Zero
    BY <1>1, TimesOne, Products, Sums
  <2> QED
    BY <1>1, <2>1, <2>2
<1>4. Times(Minus(Zero, z), a) = Zero
  BY <1>1, <1>2, <1>3, Products, Sums
<1>5. ~Positive(z) /\ ~Positive(Minus(Zero, z))
  <2>1. Positive(z) => Positive(Times(z, a))
    BY <1>2, Products
  <2>2. Positive(Minus(Zero, z)) => Positive(Times(Minus(Zero, z), a))
    BY <1>2, Products
  <2> QED
    BY <1>1, <1>3, <1>4, <2>1, <2>2, Ordering
<1>6. z = Zero
  BY <1>1, <1>2, <1>5, Ordering
<1>7. Plus(z, Whole(1)) = q /\ Plus(Zero, Whole(1)) = Whole(1)
  BY <1>1, Sums
<1> QED
  BY <1>6, <1>7 DEF q

\* Money that a lot takes from a sale is profit over its cost.
LEMMA MovedLaw ==
  ASSUME NEW r \in Frac, NEW u \in Frac, NEW m \in Frac, NEW k \in Frac
  PROVE  Plus(Plus(r, Minus(m, k)), Minus(u, m)) = Minus(Plus(r, u), k)
<1>1. PICK d \in Nat \ {0} : Fits(r, d) /\ Fits(u, d) /\ Fits(m, d) /\ Fits(k, d)
  BY FitTogether
<1>2. Num(r, d) \in Int /\ Num(u, d) \in Int /\ Num(m, d) \in Int /\ Num(k, d) \in Int
  BY <1>1, NumInt
<1>3. /\ Fits(Plus(Plus(r, Minus(m, k)), Minus(u, m)), d)
      /\ Num(Plus(Plus(r, Minus(m, k)), Minus(u, m)), d) =
           (Num(r, d) + (Num(m, d) - Num(k, d))) + (Num(u, d) - Num(m, d))
  BY <1>1, NumPlus, NumMinus
<1>4. /\ Fits(Minus(Plus(r, u), k), d)
      /\ Num(Minus(Plus(r, u), k), d) = (Num(r, d) + Num(u, d)) - Num(k, d)
  BY <1>1, NumPlus, NumMinus
<1> QED
  BY <1>2, <1>3, <1>4, NumOrder

\* Differences of differences.
LEMMA LessBoth ==
  ASSUME NEW x \in Frac, NEW y \in Frac, NEW k \in Frac
  PROVE  /\ Minus(Minus(x, k), Minus(y, k)) = Minus(x, y)
         /\ Plus(Minus(x, k), y) = Plus(x, Minus(y, k))
         /\ Minus(Minus(x, k), y) = Minus(Minus(x, y), k)
<1>1. PICK d \in Nat \ {0} : Fits(x, d) /\ Fits(y, d) /\ Fits(k, d)
  BY FitTogether
<1>2. Num(x, d) \in Int /\ Num(y, d) \in Int /\ Num(k, d) \in Int
  BY <1>1, NumInt
<1>3. /\ Fits(Minus(Minus(x, k), Minus(y, k)), d) /\ Fits(Minus(x, y), d)
      /\ Num(Minus(Minus(x, k), Minus(y, k)), d) = (Num(x, d) - Num(k, d)) - (Num(y, d) - Num(k, d))
      /\ Num(Minus(x, y), d) = Num(x, d) - Num(y, d)
  BY <1>1, NumMinus
<1>4. /\ Fits(Plus(Minus(x, k), y), d) /\ Fits(Plus(x, Minus(y, k)), d)
      /\ Num(Plus(Minus(x, k), y), d) = (Num(x, d) - Num(k, d)) + Num(y, d)
      /\ Num(Plus(x, Minus(y, k)), d) = Num(x, d) + (Num(y, d) - Num(k, d))
  BY <1>1, NumPlus, NumMinus
<1>5. /\ Fits(Minus(Minus(x, k), y), d) /\ Fits(Minus(Minus(x, y), k), d)
      /\ Num(Minus(Minus(x, k), y), d) = (Num(x, d) - Num(k, d)) - Num(y, d)
      /\ Num(Minus(Minus(x, y), k), d) = (Num(x, d) - Num(y, d)) - Num(k, d)
  BY <1>1, NumMinus
<1> QED
  BY <1>2, <1>3, <1>4, <1>5, NumOrder

\* A sale that comes to a lot neither makes shares nor money: what it closes
\* of the lot it no longer sells, and its profit is what it was paid for that
\* less what that cost.
Moved(s, lot, v, rest) ==
  /\ v.open = Append(s.open, rest)
  /\ Plus(rest.left, s.left) = Plus(lot.left, v.left)
  /\ Minus(Plus(v.profit, v.usd), Times(rest.left, rest.price)) =
       Minus(Plus(s.profit, s.usd), Times(lot.left, lot.price))
  /\ (s.left = Zero => s.usd = Zero) => (v.left = Zero => v.usd = Zero)
  /\ Positive(v.left) => rest.left = Zero /\ Positive(s.left)

\* A sale does that to each lot.
LEMMA SaleMoves ==
  ASSUME NEW s \in Sales, NEW lot \in Lots
  PROVE  /\ SaleStep(s, lot) \in Sales
         /\ \E rest \in Lots : Moved(s, lot, SaleStep(s, lot), rest)
<1>1. PICK n : n = Smaller(lot.left, s.left)
  OBVIOUS
<1>2. /\ s.left \in Amounts /\ s.usd \in Frac /\ s.profit \in Frac /\ s.open \in Seq(Lots)
      /\ lot.left \in Amounts /\ lot.price \in Amounts
  BY DEF Sales, Lots
<1>3. /\ n \in Amounts /\ n \in {lot.left, s.left} /\ AtMost(n, lot.left) /\ AtMost(n, s.left)
      /\ n \in Frac /\ lot.left \in Frac /\ s.left \in Frac /\ lot.price \in Frac
  BY <1>1, <1>2, AmountLaws, Smallers DEF Amounts
<1>4. PICK v : v = SaleStep(s, lot)
  OBVIOUS
<1>5. CASE ~Positive(n)
  <2>1. v = [s EXCEPT !.open = Append(@, lot)]
    BY <1>1, <1>4, <1>5 DEF SaleStep
  <2>2. Append(s.open, lot) \in Seq(Lots)
    BY <1>2
  <2>3. v \in Sales
    BY <2>1, <2>2 DEF Sales
  <2>4. v.left = s.left /\ v.usd = s.usd /\ v.profit = s.profit /\ v.open = Append(s.open, lot)
    BY <2>1 DEF Sales
  <2>5. Positive(s.left) => lot.left = Zero
    BY <1>2, <1>3, <1>5, AmountLaws
  <2> QED
    BY <1>3, <1>4, <2>3, <2>4, <2>5 DEF Moved, Lots
<1>6. CASE Positive(n)
  <2>1. PICK share, paid, cost : /\ share = Over(n, s.left) /\ paid = Times(s.usd, share)
                                 /\ cost = Times(n, lot.price)
    OBVIOUS
  <2>2. PICK rest : rest = [lot EXCEPT !.left = Minus(@, n)]
    OBVIOUS
  <2>3. v = [left |-> Minus(s.left, n), usd |-> Minus(s.usd, paid),
             profit |-> Plus(s.profit, Minus(paid, cost)), open |-> Append(s.open, rest)]
    BY <1>1, <1>4, <1>6, <2>1, <2>2 DEF SaleStep
  <2>4. Positive(s.left) /\ Positive(lot.left)
    <3>1. \A a \in Amounts : AtMost(n, a) => Positive(a)
      BY <1>3, <1>6, Ordering DEF Amounts
    <3> QED
      BY <1>2, <1>3, <3>1
  <2>5. share \in Frac /\ paid \in Frac /\ cost \in Frac
    BY <1>2, <1>3, <2>1, <2>4, Closed
  <2>6. rest.left = Minus(lot.left, n) /\ rest.price = lot.price /\ rest.left \in Amounts
    BY <1>2, <1>3, <2>2, AmountLaws DEF Lots
  <2>7. rest \in Lots
    BY <1>2, <2>2, <2>6 DEF Lots
  <2>8. Minus(s.left, n) \in Amounts
    BY <1>2, <1>3, AmountLaws
  <2>9. Minus(s.usd, paid) \in Frac /\ Plus(s.profit, Minus(paid, cost)) \in Frac
    BY <1>2, <2>5, Closed
  <2>10. v \in Sales
    <3>1. Append(s.open, rest) \in Seq(Lots)
      BY <1>2, <2>7
    <3> QED
      BY <2>3, <2>8, <2>9, <3>1 DEF Sales
  <2>11. Plus(rest.left, s.left) = Plus(lot.left, v.left)
    BY <1>3, <2>3, <2>6, LessBoth
  <2>12. Minus(Plus(v.profit, v.usd), Times(rest.left, rest.price)) =
           Minus(Plus(s.profit, s.usd), Times(lot.left, lot.price))
    <3>1. Plus(v.profit, v.usd) = Minus(Plus(s.profit, s.usd), cost)
      BY <1>2, <2>3, <2>5, MovedLaw
    <3>2. Times(rest.left, rest.price) = Minus(Times(lot.left, lot.price), cost)
      BY <1>3, <2>1, <2>6, Products
    <3>3. Plus(s.profit, s.usd) \in Frac /\ Times(lot.left, lot.price) \in Frac
      BY <1>2, <1>3, Closed
    <3> QED
      BY <2>5, <3>1, <3>2, <3>3, LessBoth
  <2>13. ASSUME n = s.left PROVE v.left = Zero /\ v.usd = Zero
    <3>1. share = Whole(1)
      BY <1>3, <1>6, <2>1, <2>13, OverSelf
    <3>2. paid = s.usd
      BY <1>2, <2>1, <3>1, TimesOne
    <3> QED
      BY <1>2, <1>3, <2>3, <2>13, <3>2, Sums
  <2>14. ASSUME n = lot.left PROVE rest.left = Zero
    BY <1>3, <2>6, <2>14, Sums
  <2>15. ASSUME v.left = Zero PROVE n = s.left
    <3>1. Plus(Minus(s.left, n), n) = s.left /\ Plus(Zero, n) = n
      BY <1>3, Sums
    <3> QED
      BY <2>3, <2>15, <3>1
  <2>16. ~Positive(Zero)
    BY NothingType, Ordering
  <2>17. Positive(v.left) => rest.left = Zero
    BY <1>3, <2>13, <2>14, <2>16
  <2>18. v.left = Zero => v.usd = Zero
    BY <2>13, <2>15
  <2>19. v.open = Append(s.open, rest)
    BY <2>3
  <2> QED
    BY <1>4, <2>4, <2>7, <2>10, <2>11, <2>12, <2>17, <2>18, <2>19 DEF Moved
<1> QED
  BY <1>5, <1>6

\* It stays a sale.
LEMMA SaleType ==
  ASSUME NEW s \in Sales, NEW lot \in Lots PROVE SaleStep(s, lot) \in Sales
BY SaleMoves

\* What a sale makes of the lots, lot by lot.
LEMMA SaleFold ==
  ASSUME NEW start \in Sales, NEW s \in Seq(Lots)
  PROVE  \E g : /\ g[0] = start /\ SaleOf(start, s) = g[Len(s)]
                /\ \A j \in 1 .. Len(s) : g[j] = SaleStep(g[j - 1], s[j])
<1> DEFINE n == Len(s)
           T == 1 .. n
           W == Sales
           b == start
           last == [S \in SUBSET T |-> Max(S)]
           G == [x \in W \X T |-> SaleStep(x[1], s[x[2]])]
           Fold(f) == [S \in SUBSET T |-> IF S = {} THEN b ELSE SaleStep(f[S \ {Max(S)}], s[Max(S)])]
<1>1. /\ n \in Nat /\ DOMAIN s = T /\ IsFiniteSet(T) /\ b \in W
      /\ \A S \in (SUBSET T) \ {{}} : Max(S) \in S
  <2>1. n \in Nat /\ DOMAIN s = T /\ b \in W
    OBVIOUS
  <2> QED
    BY <2>1, Segments
<1>2. \A w \in W, i \in T : SaleStep(w, s[i]) \in W
  BY SaleType
<1>3. G \in [W \X T -> W] /\ \A w \in W, i \in T : G[<<w, i>>] = SaleStep(w, s[i])
  BY <1>2
<1>4. PICK f : Folding(f, T, W, b, last, G)
  <2> HIDE DEF T, W, b, G
  <2>1. \A S \in (SUBSET T) \ {{}} : last[S] \in S
    BY <1>1
  <2> HIDE DEF last
  <2>2. Foldable(T, W, b, last, G)
    BY <1>1, <1>3, <2>1 DEF Foldable
  <2> QED
    BY <2>2, FoldExists
<1>5. f = Fold(f)
  <2> HIDE DEF W, T, b, G
  <2>1. ASSUME NEW S \in SUBSET T PROVE f[S] = Fold(f)[S]
    <3>1. f[S] = IF S = {} THEN b ELSE G[<<f[S \ {last[S]}], last[S]>>]
      BY <1>4 DEF Folding
    <3>2. CASE S = {}
      BY <3>1, <3>2
    <3>3. CASE S # {}
      <4>1. last[S] = Max(S) /\ Max(S) \in T /\ f[S \ {Max(S)}] \in W
        BY <1>1, <1>4, <3>3 DEF Folding
      <4>2. f[S] = SaleStep(f[S \ {Max(S)}], s[Max(S)])
        BY <1>3, <3>1, <3>3, <4>1
      <4> QED
        BY <3>3, <4>2
    <3> QED
      BY <3>2, <3>3
  <2> QED
    BY <1>4, <2>1 DEF Folding
<1> DEFINE iter == CHOOSE g : g = Fold(g)
<1>6. iter = Fold(iter)
  BY <1>5
<1>7. SaleOf(start, s) = iter[T]
  <2>1. SaleOf(start, s) = iter[DOMAIN s]
    BY <1>1, Zenon DEF SaleOf, SaleStep, FoldLeft, MapThenFoldSet
  <2> QED
    BY <1>1, <2>1
<1> HIDE DEF iter
<1> DEFINE g == [j \in 0 .. n |-> iter[1 .. j]]
<1>8. g[0] = start /\ SaleOf(start, s) = g[n]
  <2>1. 1 .. 0 = {} /\ 1 .. 0 \in SUBSET T /\ T \in SUBSET T
    OBVIOUS
  <2>2. iter[1 .. 0] = start
    BY <1>6, <2>1
  <2> QED
    BY <1>1, <1>7, <2>2
<1>9. ASSUME NEW j \in 1 .. n PROVE g[j] = SaleStep(g[j - 1], s[j])
  <2>1. /\ 1 .. j # {} /\ Max(1 .. j) = j /\ (1 .. j) \ {j} = 1 .. (j - 1)
        /\ 1 .. j \in SUBSET T
    BY <1>1, Segments
  <2>2. iter[1 .. j] = SaleStep(iter[1 .. (j - 1)], s[j])
    BY <1>6, <2>1
  <2> QED
    BY <1>1, <2>2
<1> QED
  <2> HIDE DEF g
  <2> QED
    BY <1>8, <1>9

\* What lots have left and cost are sequences of fractions.
LEMMA LotTypes ==
  ASSUME NEW open \in Seq(Lots)
  PROVE  /\ Lefts(open) \in Seq(Frac) /\ Len(Lefts(open)) = Len(open)
         /\ Costs(open) \in Seq(Frac) /\ Len(Costs(open)) = Len(open)
         /\ \A i \in 1 .. Len(open) :
              /\ open[i] \in Lots /\ open[i].left \in Amounts /\ open[i].price \in Amounts
              /\ Lefts(open)[i] = open[i].left
              /\ Costs(open)[i] = Times(open[i].left, open[i].price)
              /\ Costs(open)[i] \in Frac
<1>1. Len(open) \in Nat /\ DOMAIN open = 1 .. Len(open) /\ \A i \in 1 .. Len(open) : open[i] \in Lots
  OBVIOUS
<1>2. \A lot \in Lots : /\ lot.left \in Amounts /\ lot.price \in Amounts /\ lot.left \in Frac
                         /\ Times(lot.left, lot.price) \in Frac
  <2> TAKE lot \in Lots
  <2>1. lot.left \in Amounts /\ lot.price \in Amounts
    BY DEF Lots
  <2> QED
    BY <2>1, AmountLaws DEF Amounts
<1>3. PICK l, k : l = Lefts(open) /\ k = Costs(open)
  OBVIOUS
<1>4. /\ l = [i \in 1 .. Len(open) |-> open[i].left]
      /\ k = [i \in 1 .. Len(open) |-> Times(open[i].left, open[i].price)]
  BY <1>1, <1>3 DEF Lefts, Costs
<1>5. \A i \in 1 .. Len(open) : /\ l[i] = open[i].left /\ k[i] = Times(open[i].left, open[i].price)
                                /\ l[i] \in Frac /\ k[i] \in Frac
  BY <1>1, <1>2, <1>4
<1>6. l \in [1 .. Len(open) -> Frac] /\ k \in [1 .. Len(open) -> Frac]
  <2>1. l = [i \in 1 .. Len(open) |-> l[i]] /\ k = [i \in 1 .. Len(open) |-> k[i]]
    BY <1>4
  <2> QED
    BY <1>5, <2>1
<1>7. l \in Seq(Frac) /\ Len(l) = Len(open) /\ k \in Seq(Frac) /\ Len(k) = Len(open)
  BY <1>1, <1>6
<1> QED
  BY <1>1, <1>2, <1>3, <1>5, <1>7

\* One more lot adds what it has left and what it cost.
LEMMA MoreLots ==
  ASSUME NEW open \in Seq(Lots), NEW lot \in Lots
  PROVE  /\ Append(open, lot) \in Seq(Lots)
         /\ Total(Lefts(open)) \in Frac /\ Total(Costs(open)) \in Frac
         /\ Total(Lefts(Append(open, lot))) = Plus(Total(Lefts(open)), lot.left)
         /\ Total(Costs(Append(open, lot))) = Plus(Total(Costs(open)), Times(lot.left, lot.price))
<1>1. PICK more, n : more = Append(open, lot) /\ n = Len(open)
  OBVIOUS
<1>2. /\ more \in Seq(Lots) /\ Len(more) = n + 1 /\ more[n + 1] = lot /\ n \in Nat
      /\ \A i \in 1 .. n : more[i] = open[i]
  BY <1>1
<1>3. PICK l, k, lm, km : l = Lefts(open) /\ k = Costs(open) /\ lm = Lefts(more) /\ km = Costs(more)
  OBVIOUS
<1>4. /\ l \in Seq(Frac) /\ Len(l) = n /\ k \in Seq(Frac) /\ Len(k) = n
      /\ \A i \in 1 .. n : l[i] = open[i].left /\ k[i] = Times(open[i].left, open[i].price)
  BY <1>1, <1>3, LotTypes
<1>5. /\ lm \in Seq(Frac) /\ Len(lm) = n + 1 /\ km \in Seq(Frac) /\ Len(km) = n + 1
      /\ \A i \in 1 .. (n + 1) : lm[i] = more[i].left /\ km[i] = Times(more[i].left, more[i].price)
  BY <1>2, <1>3, LotTypes
<1>6. PICK x, y : x = lot.left /\ y = Times(lot.left, lot.price)
  OBVIOUS
<1>7. x \in Frac /\ y \in Frac
  <2>1. lot.left \in Amounts /\ lot.price \in Amounts
    BY DEF Lots
  <2> QED
    BY <1>6, <2>1, AmountLaws DEF Amounts
<1>8. \A i \in 1 .. n : i \in 1 .. (n + 1) /\ lm[i] = l[i] /\ km[i] = k[i]
  <2>1. \A i \in 1 .. n : i \in 1 .. (n + 1)
    BY <1>2
  <2> QED
    BY <1>2, <1>4, <1>5, <2>1
<1>9. n + 1 \in 1 .. (n + 1) /\ lm[n + 1] = x /\ km[n + 1] = y
  BY <1>2, <1>5, <1>6
<1>10. lm = Append(l, x) /\ km = Append(k, y)
  <2>1. \A i \in 1 .. (n + 1) : i \in 1 .. n \/ i = n + 1
    BY <1>2
  <2>2. PICK la, ka : la = Append(l, x) /\ ka = Append(k, y)
    OBVIOUS
  <2>3. /\ la \in Seq(Frac) /\ Len(la) = n + 1 /\ la[n + 1] = x /\ (\A i \in 1 .. n : la[i] = l[i])
        /\ ka \in Seq(Frac) /\ Len(ka) = n + 1 /\ ka[n + 1] = y /\ (\A i \in 1 .. n : ka[i] = k[i])
    BY <1>4, <1>7, <2>2
  <2>4. \A i \in 1 .. (n + 1) : lm[i] = la[i] /\ km[i] = ka[i]
    BY <1>8, <1>9, <2>1, <2>3
  <2>5. /\ lm = [i \in 1 .. (n + 1) |-> lm[i]] /\ la = [i \in 1 .. (n + 1) |-> la[i]]
        /\ km = [i \in 1 .. (n + 1) |-> km[i]] /\ ka = [i \in 1 .. (n + 1) |-> ka[i]]
    BY <1>5, <2>3
  <2> QED
    BY <2>2, <2>4, <2>5
<1>11. Total(lm) = Plus(Total(l), x) /\ Total(km) = Plus(Total(k), y)
  BY <1>4, <1>7, <1>10, TotalAppend
<1>12. Total(l) \in Frac /\ Total(k) \in Frac
  BY <1>4, TotalIn
<1> QED
  BY <1>1, <1>2, <1>3, <1>6, <1>11, <1>12

\* No lots have nothing left.
LEMMA NothingOpen ==
  /\ <<>> \in Seq(Lots) /\ Total(Lefts(<<>>)) = Zero /\ Total(Costs(<<>>)) = Zero
<1>1. Lefts(<<>>) = <<>> /\ Costs(<<>>) = <<>>
  BY DEF Lefts, Costs
<1> QED
  BY <1>1, TotalNothing

\* Lots that have nothing left cost nothing.
LEMMA NoneLeft ==
  ASSUME NEW open \in Seq(Lots), Total(Lefts(open)) = Zero
  PROVE  Total(Costs(open)) = Zero
<1>1. PICK l, k, n : l = Lefts(open) /\ k = Costs(open) /\ n = Len(open)
  OBVIOUS
<1>2. /\ l \in Seq(Frac) /\ Len(l) = n /\ k \in Seq(Frac) /\ Len(k) = n /\ n \in Nat
      /\ \A i \in 1 .. n : /\ open[i].left \in Amounts /\ open[i].price \in Amounts
                           /\ l[i] = open[i].left /\ k[i] = Times(open[i].left, open[i].price)
  BY <1>1, LotTypes
<1>3. PICK a : /\ a[0] = Zero /\ Total(l) = a[Len(l)]
               /\ \A j \in 1 .. Len(l) : a[j] = Plus(a[j - 1], l[j])
  BY <1>2, TotalFold
<1>4. PICK b : /\ b[0] = Zero /\ Total(k) = b[Len(k)]
               /\ \A j \in 1 .. Len(k) : b[j] = Plus(b[j - 1], k[j])
  BY <1>2, TotalFold
<1> DEFINE P == {j \in Nat : a[j] \in Amounts /\ (a[j] = Zero => b[j] = Zero)}
<1>5. 0 \in P
  BY <1>3, <1>4, NothingType
<1>6. ASSUME NEW j \in 1 .. n, j - 1 \in P PROVE j \in P
  <2>1. PICK x, y, u, w : x = a[j - 1] /\ y = l[j] /\ u = b[j - 1] /\ w = k[j]
    OBVIOUS
  <2>2. x \in Amounts /\ (x = Zero => u = Zero) /\ y \in Amounts /\ w = Times(y, open[j].price)
    BY <1>2, <1>6, <2>1
  <2>3. a[j] = Plus(x, y) /\ b[j] = Plus(u, w) /\ j \in Nat
    BY <1>2, <1>3, <1>4, <2>1
  <2>4. Plus(x, y) \in Amounts /\ (Plus(x, y) = Zero => x = Zero /\ y = Zero)
    <3>1. Plus(x, y) \in Amounts
      BY <2>2, AmountLaws
    <3>2. (Positive(x) \/ Positive(y)) <=> Positive(Plus(x, y))
      BY <2>2, AmountLaws
    <3>3. \A c \in Amounts : (c = Zero) <=> ~Positive(c)
      BY AmountLaws
    <3> QED
      BY <2>2, <3>1, <3>2, <3>3
  <2>5. ASSUME Plus(x, y) = Zero PROVE Plus(u, w) = Zero
    <3>1. u = Zero /\ y = Zero
      BY <2>2, <2>4, <2>5
    <3>2. w = Zero
      BY <1>2, <2>2, <3>1, Products DEF Amounts
    <3> QED
      BY <3>1, <3>2, NothingType, Sums
  <2> QED
    BY <2>3, <2>4, <2>5
<1>7. n \in P
  <2>1. n \in 0 .. n
    BY <1>2
  <2> HIDE DEF P
  <2> QED
    BY <1>2, <1>5, <1>6, <2>1, Along
<1> QED
  BY <1>1, <1>2, <1>3, <1>4, <1>7

\* A sale of no more than the lots have: it takes its shares off the lots, and
\* the profit is the money less the cost of what it took off.
SaleFits(start, lots, n, usd, profit) ==
  /\ start = [left |-> n, usd |-> usd, profit |-> profit, open |-> <<>>]
  /\ lots \in Seq(Lots) /\ n \in Amounts /\ usd \in Frac /\ profit \in Frac
  /\ Positive(n) /\ AtMost(n, Total(Lefts(lots)))

\* Its profit is what it brought less the cost of what it took.
LEMMA SaleLaw ==
  ASSUME NEW lots, NEW n, NEW usd, NEW profit, NEW start, SaleFits(start, lots, n, usd, profit)
  PROVE  LET v == SaleOf(start, lots) IN
           /\ v \in Sales
           /\ Total(Lefts(v.open)) = Minus(Total(Lefts(lots)), n)
           /\ Minus(v.profit, Total(Costs(v.open))) =
                Minus(Plus(profit, usd), Total(Costs(lots)))
<1>1. /\ lots \in Seq(Lots) /\ n \in Amounts /\ usd \in Frac /\ profit \in Frac /\ n \in Frac
      /\ Positive(n) /\ AtMost(n, Total(Lefts(lots))) /\ start \in Sales
      /\ start.left = n /\ start.usd = usd /\ start.profit = profit /\ start.open = <<>>
  BY NothingOpen DEF SaleFits, Sales, Amounts
<1>2. PICK l, k, m : l = Lefts(lots) /\ k = Costs(lots) /\ m = Len(lots)
  OBVIOUS
<1>3. /\ l \in Seq(Frac) /\ Len(l) = m /\ k \in Seq(Frac) /\ Len(k) = m /\ m \in Nat
      /\ \A i \in 1 .. m : /\ lots[i] \in Lots /\ l[i] = lots[i].left
                           /\ k[i] = Times(lots[i].left, lots[i].price)
                           /\ l[i] \in Frac /\ k[i] \in Frac
  BY <1>1, <1>2, LotTypes DEF Amounts
<1>4. PICK g : /\ g[0] = start /\ SaleOf(start, lots) = g[m]
               /\ \A j \in 1 .. m : g[j] = SaleStep(g[j - 1], lots[j])
  BY <1>1, <1>2, SaleFold
<1>5. PICK a : /\ a[0] = Zero /\ Total(l) = a[m]
               /\ \A j \in 1 .. m : a[j] = Plus(a[j - 1], l[j])
  BY <1>3, TotalFold
<1>6. PICK b : /\ b[0] = Zero /\ Total(k) = b[m]
               /\ \A j \in 1 .. m : b[j] = Plus(b[j - 1], k[j])
  BY <1>3, TotalFold
<1>7. PICK total : total = Plus(profit, usd) /\ total \in Frac
  BY <1>1, Closed
<1> DEFINE P == {j \in Nat :
      /\ g[j] \in Sales /\ a[j] \in Frac /\ b[j] \in Frac
      /\ Plus(Total(Lefts(g[j].open)), n) = Plus(a[j], g[j].left)
      /\ Minus(Plus(g[j].profit, g[j].usd), Total(Costs(g[j].open))) = Minus(total, b[j])
      /\ g[j].left = Zero => g[j].usd = Zero
      /\ Positive(g[j].left) => Total(Lefts(g[j].open)) = Zero}
<1>8. 0 \in P
  <2>1. Zero \in Frac /\ n # Zero
    BY <1>1, NothingType, Ordering
  <2> QED
    BY <1>1, <1>4, <1>5, <1>6, <1>7, <2>1, NothingOpen
<1>9. ASSUME NEW j \in 1 .. m, j - 1 \in P PROVE j \in P
  <2>1. PICK s, lot, v : s = g[j - 1] /\ lot = lots[j] /\ v = SaleStep(s, lot)
    OBVIOUS
  <2>2. PICK taken, cost, held, spent, x, y :
          /\ taken = a[j - 1] /\ cost = b[j - 1] /\ held = Total(Lefts(s.open))
          /\ spent = Total(Costs(s.open)) /\ x = l[j] /\ y = k[j]
    OBVIOUS
  <2>3. /\ s \in Sales /\ taken \in Frac /\ cost \in Frac
        /\ Plus(held, n) = Plus(taken, s.left)
        /\ Minus(Plus(s.profit, s.usd), spent) = Minus(total, cost)
        /\ s.left = Zero => s.usd = Zero
        /\ Positive(s.left) => held = Zero
    BY <1>9, <2>1, <2>2
  <2>4. /\ j \in Nat /\ g[j] = v /\ a[j] = Plus(taken, x) /\ b[j] = Plus(cost, y)
        /\ lot \in Lots /\ x = lot.left /\ y = Times(lot.left, lot.price) /\ x \in Frac /\ y \in Frac
    BY <1>3, <1>4, <1>5, <1>6, <2>1, <2>2
  <2> HIDE DEF P
  <2>5. /\ v \in Sales
        /\ \E rest \in Lots : Moved(s, lot, v, rest)
    <3>1. s \in Sales /\ lot \in Lots
      BY <2>3, <2>4
    <3> QED
      BY <2>1, <3>1, SaleMoves
  <2>6. PICK rest \in Lots :
          /\ v.open = Append(s.open, rest)
          /\ Plus(rest.left, s.left) = Plus(x, v.left)
          /\ Minus(Plus(v.profit, v.usd), Times(rest.left, rest.price)) = Minus(Plus(s.profit, s.usd), y)
          /\ v.left = Zero => v.usd = Zero
          /\ Positive(v.left) => rest.left = Zero /\ Positive(s.left)
    BY <2>3, <2>4, <2>5 DEF Moved
  <2>7. PICK z, w : z = rest.left /\ w = Times(rest.left, rest.price)
    OBVIOUS
  <2>8. /\ z \in Frac /\ w \in Frac /\ s.left \in Frac /\ v.left \in Frac /\ s.open \in Seq(Lots)
        /\ Plus(s.profit, s.usd) \in Frac /\ Plus(v.profit, v.usd) \in Frac
    <3>1. rest.left \in Amounts /\ rest.price \in Amounts
      BY DEF Lots
    <3>2. /\ s.left \in Amounts /\ s.usd \in Frac /\ s.profit \in Frac /\ s.open \in Seq(Lots)
          /\ v.left \in Amounts /\ v.usd \in Frac /\ v.profit \in Frac
      BY <2>3, <2>5 DEF Sales
    <3> QED
      BY <2>7, <3>1, <3>2, AmountLaws, Closed DEF Amounts
  <2>9. /\ held \in Frac /\ spent \in Frac
        /\ Total(Lefts(v.open)) = Plus(held, z) /\ Total(Costs(v.open)) = Plus(spent, w)
    BY <2>2, <2>6, <2>7, <2>8, MoreLots
  <2>10. Plus(Plus(held, z), n) = Plus(Plus(taken, x), v.left)
    <3>1. Plus(Plus(held, z), n) = Plus(Plus(held, n), z)
      <4>1. Plus(Plus(held, z), n) = Plus(held, Plus(z, n)) /\ Plus(Plus(held, n), z) = Plus(held, Plus(n, z))
        BY <1>1, <2>8, <2>9, Sums
      <4>2. Plus(z, n) = Plus(n, z)
        BY <1>1, <2>8, Sums
      <4> QED
        BY <4>1, <4>2
    <3>2. Plus(Plus(taken, s.left), z) = Plus(taken, Plus(s.left, z)) /\ Plus(s.left, z) = Plus(z, s.left)
      BY <2>3, <2>8, Sums
    <3>3. Plus(Plus(taken, x), v.left) = Plus(taken, Plus(x, v.left))
      BY <2>3, <2>4, <2>8, Sums
    <3> QED
      BY <2>3, <2>6, <2>7, <3>1, <3>2, <3>3
  <2>11. Minus(Plus(v.profit, v.usd), Plus(spent, w)) = Minus(total, Plus(cost, y))
    <3>1. PICK p, q : p = Plus(s.profit, s.usd) /\ q = Plus(v.profit, v.usd)
      OBVIOUS
    <3>2. p \in Frac /\ q \in Frac /\ Minus(q, w) = Minus(p, y) /\ Minus(p, spent) = Minus(total, cost)
      BY <2>3, <2>6, <2>7, <2>8, <3>1
    <3>3. Minus(q, Plus(spent, w)) = Minus(Minus(q, w), spent)
      <4>1. Plus(spent, w) = Plus(w, spent) /\ Minus(Minus(q, w), spent) = Minus(q, Plus(w, spent))
        BY <2>8, <2>9, <3>2, Sums
      <4> QED
        BY <4>1
    <3>4. Minus(Minus(p, y), spent) = Minus(Minus(p, spent), y)
      BY <2>4, <2>9, <3>2, LessBoth
    <3>5. Minus(Minus(total, cost), y) = Minus(total, Plus(cost, y))
      BY <1>7, <2>3, <2>4, Sums
    <3> QED
      BY <3>1, <3>2, <3>3, <3>4, <3>5
  <2>12. Positive(v.left) => Plus(held, z) = Zero
    BY <2>3, <2>6, <2>7, NothingType, Sums
  <2>13. Plus(taken, x) \in Frac /\ Plus(cost, y) \in Frac
    BY <2>3, <2>4, Closed
  <2> QED
    BY <2>4, <2>5, <2>6, <2>9, <2>10, <2>11, <2>12, <2>13 DEF P
<1>10. m \in P
  <2>1. m \in 0 .. m
    BY <1>3
  <2> HIDE DEF P
  <2> QED
    BY <1>3, <1>8, <1>9, <2>1, Along
<1>11. PICK v, all, held, spent, costs :
         /\ v = g[m] /\ all = a[m] /\ held = Total(Lefts(v.open)) /\ spent = Total(Costs(v.open))
         /\ costs = b[m]
  OBVIOUS
<1>12. /\ v \in Sales /\ all \in Frac /\ Plus(held, n) = Plus(all, v.left)
       /\ Minus(Plus(v.profit, v.usd), spent) = Minus(total, costs)
       /\ v.left = Zero => v.usd = Zero
       /\ Positive(v.left) => held = Zero
  BY <1>10, <1>11
<1> HIDE DEF P
<1>13. /\ v.left \in Amounts /\ v.left \in Frac /\ v.profit \in Frac /\ v.open \in Seq(Lots)
       /\ held \in Frac
  <2>1. v.left \in Amounts /\ v.profit \in Frac /\ v.open \in Seq(Lots)
    BY <1>12 DEF Sales
  <2>2. Lefts(v.open) \in Seq(Frac)
    BY <2>1, LotTypes
  <2> QED
    BY <1>11, <2>1, <2>2, TotalIn DEF Amounts
<1>14. v.left = Zero
  <2> SUFFICES ASSUME Positive(v.left) PROVE FALSE
    BY <1>13, AmountLaws
  <2>1. n = Plus(all, v.left)
    <3>1. Plus(Zero, n) = n
      BY <1>1, Sums
    <3> QED
      BY <1>12, <3>1
  <2>2. AtMost(n, all)
    BY <1>1, <1>2, <1>5, <1>11
  <2>3. AtMost(v.left, Minus(all, all)) /\ Minus(all, all) = Zero
    BY <1>12, <1>13, <2>1, <2>2, Sums
  <2> QED
    BY <1>13, <2>3, Ordering
<1>15. held = Minus(all, n)
  <2>1. Plus(all, Zero) = all
    BY <1>12, Sums
  <2> QED
    BY <1>1, <1>12, <1>13, <1>14, <2>1, Sums
<1>16. Minus(v.profit, spent) = Minus(total, costs)
  BY <1>12, <1>13, <1>14, Sums
<1> QED
  BY <1>2, <1>4, <1>5, <1>6, <1>7, <1>11, <1>12, <1>15, <1>16

\* A purchase opens a lot.
LEMMA BoughtLot ==
  ASSUME NEW lots \in LotBooks, NEW row \in Rows, row.side = "BUY"
  PROVE  /\ ApplyToLots(lots, row) \in LotBooks
         /\ Total(Lefts(ApplyToLots(lots, row).open)) =
              Plus(Total(Lefts(lots.open)), Over(row.usd, row.price))
         /\ Minus(ApplyToLots(lots, row).profit, Total(Costs(ApplyToLots(lots, row).open))) =
              Plus(Minus(lots.profit, Total(Costs(lots.open))), Minus(Zero, row.usd))
<1>1. /\ row.usd \in Amounts /\ row.price \in Amounts /\ Positive(row.price) /\ Positive(row.usd)
      /\ lots.open \in Seq(Lots) /\ lots.profit \in Frac
  BY DEF Rows, Priced, LotBooks
<1>2. PICK n : n = Over(row.usd, row.price) /\ n \in Amounts /\ Times(n, row.price) = row.usd
  <2>1. Over(row.usd, row.price) \in Amounts
    BY <1>1, AmountLaws
  <2>2. Times(Over(row.usd, row.price), row.price) = row.usd
    BY <1>1, Quotients DEF Amounts
  <2> QED
    BY <2>1, <2>2
<1>3. PICK lot : lot = [left |-> n, price |-> row.price]
  OBVIOUS
<1>4. lot \in Lots /\ lot.left = n /\ lot.price = row.price
  BY <1>1, <1>2, <1>3 DEF Lots
<1>5. PICK v : v = ApplyToLots(lots, row)
  OBVIOUS
<1>6. v = [lots EXCEPT !.open = Append(@, lot)]
  BY <1>2, <1>3, <1>5 DEF ApplyToLots
<1>7. v.open = Append(lots.open, lot) /\ v.profit = lots.profit /\ v \in LotBooks
  BY <1>1, <1>4, <1>6 DEF LotBooks
<1>8. PICK held, spent : held = Total(Lefts(lots.open)) /\ spent = Total(Costs(lots.open))
  OBVIOUS
<1>9. /\ held \in Frac /\ spent \in Frac /\ Total(Lefts(v.open)) = Plus(held, n)
      /\ Total(Costs(v.open)) = Plus(spent, row.usd)
  BY <1>1, <1>2, <1>4, <1>7, <1>8, MoreLots
<1>10. Minus(lots.profit, Plus(spent, row.usd)) = Plus(Minus(lots.profit, spent), Minus(Zero, row.usd))
  BY <1>1, <1>9, LessIsLoss DEF Amounts
<1> QED
  BY <1>2, <1>5, <1>7, <1>8, <1>9, <1>10

\* A sale leaves a sale.
LEMMA SaleIn ==
  ASSUME NEW start \in Sales, NEW lots \in Seq(Lots) PROVE SaleOf(start, lots) \in Sales
<1>1. PICK g : /\ g[0] = start /\ SaleOf(start, lots) = g[Len(lots)]
               /\ \A j \in 1 .. Len(lots) : g[j] = SaleStep(g[j - 1], lots[j])
  BY SaleFold
<1> DEFINE P == {j \in Nat : g[j] \in Sales}
<1>2. 0 \in P
  BY <1>1
<1>3. ASSUME NEW j \in 1 .. Len(lots), j - 1 \in P PROVE j \in P
  <2>1. lots[j] \in Lots /\ g[j - 1] \in Sales
    BY <1>3
  <2> QED
    BY <1>1, <2>1, SaleType
<1>4. Len(lots) \in Nat /\ Len(lots) \in 0 .. Len(lots)
  OBVIOUS
<1>5. Len(lots) \in P
  <2> HIDE DEF P
  <2> QED
    BY <1>2, <1>3, <1>4, Along
<1> QED
  BY <1>1, <1>5

\* What is sold of a token closes lots.
LEMMA SoldLots ==
  ASSUME NEW lots \in LotBooks, NEW row \in Rows, row.side # "BUY"
  PROVE  \E start : /\ start = [left |-> Over(row.usd, row.price), usd |-> row.usd,
                                profit |-> lots.profit, open |-> <<>>]
                    /\ start \in Sales /\ SaleOf(start, lots.open) \in Sales
                    /\ ApplyToLots(lots, row) = [open |-> SaleOf(start, lots.open).open,
                                                 profit |-> SaleOf(start, lots.open).profit]
                    /\ ApplyToLots(lots, row) \in LotBooks
<1>1. /\ row.usd \in Amounts /\ row.price \in Amounts /\ Positive(row.price)
      /\ lots.open \in Seq(Lots) /\ lots.profit \in Frac
  BY DEF Rows, Priced, LotBooks
<1>2. PICK start : start = [left |-> Over(row.usd, row.price), usd |-> row.usd,
                            profit |-> lots.profit, open |-> <<>>]
  OBVIOUS
<1>3. start \in Sales
  <2>1. Over(row.usd, row.price) \in Amounts /\ row.usd \in Frac
    BY <1>1, AmountLaws DEF Amounts
  <2> QED
    BY <1>1, <1>2, <2>1, NothingOpen DEF Sales
<1>4. ApplyToLots(lots, row) = [open |-> SaleOf(start, lots.open).open,
                                profit |-> SaleOf(start, lots.open).profit]
  BY <1>2 DEF ApplyToLots, SaleOf
<1>5. SaleOf(start, lots.open) \in Sales
  BY <1>1, <1>3, SaleIn
<1>6. PICK v : v = SaleOf(start, lots.open)
  OBVIOUS
<1>7. ApplyToLots(lots, row) \in LotBooks
  BY <1>4, <1>5, <1>6 DEF LotBooks, Sales
<1> QED
  BY <1>2, <1>3, <1>4, <1>5, <1>7

\* The lots lose what was sold, and the profit gains the rest.
LEMMA SoldLot ==
  ASSUME NEW lots \in LotBooks, NEW row \in Rows, row.side = "SELL",
         AtMost(Over(row.usd, row.price), Total(Lefts(lots.open)))
  PROVE  /\ Total(Lefts(ApplyToLots(lots, row).open)) =
              Minus(Total(Lefts(lots.open)), Over(row.usd, row.price))
         /\ Minus(ApplyToLots(lots, row).profit, Total(Costs(ApplyToLots(lots, row).open))) =
              Plus(Minus(lots.profit, Total(Costs(lots.open))), row.usd)
<1>1. /\ row.usd \in Amounts /\ row.price \in Amounts /\ Positive(row.price) /\ Positive(row.usd)
      /\ lots.open \in Seq(Lots) /\ lots.profit \in Frac
  BY DEF Rows, Priced, LotBooks
<1>2. PICK n : n = Over(row.usd, row.price) /\ n \in Amounts /\ Positive(n)
  <2>1. Over(row.usd, row.price) \in Amounts
    BY <1>1, AmountLaws
  <2>2. Positive(Over(row.usd, row.price))
    BY <1>1, Quotients DEF Amounts
  <2> QED
    BY <2>1, <2>2
<1>3. PICK start : /\ start = [left |-> Over(row.usd, row.price), usd |-> row.usd,
                               profit |-> lots.profit, open |-> <<>>]
                   /\ ApplyToLots(lots, row) = [open |-> SaleOf(start, lots.open).open,
                                                profit |-> SaleOf(start, lots.open).profit]
  BY SoldLots
<1>4. SaleFits(start, lots.open, n, row.usd, lots.profit)
  BY <1>1, <1>2, <1>3 DEF SaleFits, Amounts
<1>5. PICK v : v = SaleOf(start, lots.open)
  OBVIOUS
<1>6. /\ Total(Lefts(v.open)) = Minus(Total(Lefts(lots.open)), n)
      /\ Minus(v.profit, Total(Costs(v.open))) = Minus(Plus(lots.profit, row.usd), Total(Costs(lots.open)))
  BY <1>4, <1>5, SaleLaw
<1>7. ApplyToLots(lots, row).open = v.open /\ ApplyToLots(lots, row).profit = v.profit
  BY <1>3, <1>5
<1>8. Total(Costs(lots.open)) \in Frac
  <2>1. Costs(lots.open) \in Seq(Frac)
    BY <1>1, LotTypes
  <2> QED
    BY <2>1, TotalIn
<1>9. Minus(Plus(lots.profit, row.usd), Total(Costs(lots.open))) =
        Plus(Minus(lots.profit, Total(Costs(lots.open))), row.usd)
  BY <1>1, <1>8, Sums DEF Amounts
<1> QED
  BY <1>2, <1>6, <1>7, <1>9

\* The lots of a token stay what they are.
LEMMA LotType ==
  ASSUME NEW t, NEW lots \in LotBooks, NEW row \in Rows PROVE LotStep(t, lots, row) \in LotBooks
BY BoughtLot, SoldLots DEF LotStep

\* So are none.
LEMMA NoLotsType == NoLots \in LotBooks
BY NothingOpen, NothingType DEF NoLots, LotBooks

\* The lots that the rows make of a token, row by row.
LEMMA LotsFold ==
  ASSUME NEW t, NEW s \in Seq(Rows)
  PROVE  \E g : /\ g[0] = NoLots /\ LotsOf(t, s) = g[Len(s)]
                /\ \A j \in 1 .. Len(s) : g[j] = LotStep(t, g[j - 1], s[j])
<1> DEFINE n == Len(s)
           T == 1 .. n
           W == LotBooks
           b == NoLots
           last == [S \in SUBSET T |-> Max(S)]
           G == [x \in W \X T |-> LotStep(t, x[1], s[x[2]])]
           Fold(f) == [S \in SUBSET T |-> IF S = {} THEN b ELSE LotStep(t, f[S \ {Max(S)}], s[Max(S)])]
<1>1. /\ n \in Nat /\ DOMAIN s = T /\ IsFiniteSet(T) /\ b \in W
      /\ \A S \in (SUBSET T) \ {{}} : Max(S) \in S
  <2>1. n \in Nat /\ DOMAIN s = T /\ b \in W
    BY NoLotsType
  <2> QED
    BY <2>1, Segments
<1>2. \A w \in W, i \in T : LotStep(t, w, s[i]) \in W
  BY LotType
<1>3. G \in [W \X T -> W] /\ \A w \in W, i \in T : G[<<w, i>>] = LotStep(t, w, s[i])
  BY <1>2
<1>4. PICK f : Folding(f, T, W, b, last, G)
  <2> HIDE DEF T, W, b, G
  <2>1. \A S \in (SUBSET T) \ {{}} : last[S] \in S
    BY <1>1
  <2> HIDE DEF last
  <2>2. Foldable(T, W, b, last, G)
    BY <1>1, <1>3, <2>1 DEF Foldable
  <2> QED
    BY <2>2, FoldExists
<1>5. f = Fold(f)
  <2> HIDE DEF W, T, b, G
  <2>1. ASSUME NEW S \in SUBSET T PROVE f[S] = Fold(f)[S]
    <3>1. f[S] = IF S = {} THEN b ELSE G[<<f[S \ {last[S]}], last[S]>>]
      BY <1>4 DEF Folding
    <3>2. CASE S = {}
      BY <3>1, <3>2
    <3>3. CASE S # {}
      <4>1. last[S] = Max(S) /\ Max(S) \in T /\ f[S \ {Max(S)}] \in W
        BY <1>1, <1>4, <3>3 DEF Folding
      <4>2. f[S] = LotStep(t, f[S \ {Max(S)}], s[Max(S)])
        BY <1>3, <3>1, <3>3, <4>1
      <4> QED
        BY <3>3, <4>2
    <3> QED
      BY <3>2, <3>3
  <2> QED
    BY <1>4, <2>1 DEF Folding
<1> DEFINE iter == CHOOSE g : g = Fold(g)
<1>6. iter = Fold(iter)
  BY <1>5
<1>7. LotsOf(t, s) = iter[T]
  <2>1. LotsOf(t, s) = iter[DOMAIN s]
    BY <1>1, Zenon DEF LotsOf, LotStep, NoLots, FoldLeft, MapThenFoldSet
  <2> QED
    BY <1>1, <2>1
<1> HIDE DEF iter
<1> DEFINE g == [j \in 0 .. n |-> iter[1 .. j]]
<1>8. g[0] = NoLots /\ LotsOf(t, s) = g[n]
  <2>1. 1 .. 0 = {} /\ 1 .. 0 \in SUBSET T /\ T \in SUBSET T
    OBVIOUS
  <2>2. iter[1 .. 0] = NoLots
    BY <1>6, <2>1
  <2> QED
    BY <1>1, <1>7, <2>2
<1>9. ASSUME NEW j \in 1 .. n PROVE g[j] = LotStep(t, g[j - 1], s[j])
  <2>1. /\ 1 .. j # {} /\ Max(1 .. j) = j /\ (1 .. j) \ {j} = 1 .. (j - 1)
        /\ 1 .. j \in SUBSET T
    BY <1>1, Segments
  <2>2. iter[1 .. j] = LotStep(t, iter[1 .. (j - 1)], s[j])
    BY <1>6, <2>1
  <2> QED
    BY <1>1, <2>2
<1> QED
  <2> HIDE DEF g
  <2> QED
    BY <1>8, <1>9

\* The rows make lots,
LEMMA LotsIn == ASSUME NEW t, NEW s \in Seq(Rows) PROVE LotsOf(t, s) \in LotBooks
<1>1. PICK g : /\ g[0] = NoLots /\ LotsOf(t, s) = g[Len(s)]
               /\ \A j \in 1 .. Len(s) : g[j] = LotStep(t, g[j - 1], s[j])
  BY LotsFold
<1> DEFINE P == {j \in Nat : g[j] \in LotBooks}
<1>2. 0 \in P
  BY <1>1, NoLotsType
<1>3. ASSUME NEW j \in 1 .. Len(s), j - 1 \in P PROVE j \in P
  <2>1. s[j] \in Rows /\ g[j - 1] \in LotBooks
    BY <1>3
  <2> QED
    BY <1>1, <2>1, LotType
<1>4. Len(s) \in Nat /\ Len(s) \in 0 .. Len(s)
  OBVIOUS
<1>5. Len(s) \in P
  <2> HIDE DEF P
  <2> QED
    BY <1>2, <1>3, <1>4, Along
<1> QED
  BY <1>1, <1>5

\* no rows make none,
LEMMA LotsNothing == ASSUME NEW t PROVE LotsOf(t, <<>>) = NoLots
<1>1. <<>> \in Seq(Rows) /\ Len(<<>>) = 0
  OBVIOUS
<1> QED
  BY <1>1, LotsFold

\* and one more row is applied to them.
LEMMA LotsAppend ==
  ASSUME NEW t, NEW s \in Seq(Rows), NEW x \in Rows
  PROVE  LotsOf(t, Append(s, x)) = LotStep(t, LotsOf(t, s), x)
<1>1. PICK g : /\ g[0] = NoLots /\ LotsOf(t, s) = g[Len(s)]
               /\ \A j \in 1 .. Len(s) : g[j] = LotStep(t, g[j - 1], s[j])
  BY LotsFold
<1> DEFINE r == Append(s, x)
<1>2. /\ r \in Seq(Rows) /\ Len(r) = Len(s) + 1 /\ r[Len(s) + 1] = x
      /\ \A j \in 1 .. Len(s) : r[j] = s[j]
  OBVIOUS
<1> HIDE DEF r
<1>3. PICK h : /\ h[0] = NoLots /\ LotsOf(t, r) = h[Len(r)]
               /\ \A j \in 1 .. Len(r) : h[j] = LotStep(t, h[j - 1], r[j])
  BY <1>2, LotsFold
<1>4. Len(s) \in Nat /\ \A j \in 1 .. Len(s) : j \in 1 .. Len(r)
  BY <1>2
<1>5. \A j \in 1 .. Len(s) : g[j - 1] = h[j - 1] => g[j] = h[j]
  BY <1>1, <1>2, <1>3, <1>4
<1>6. g[Len(s)] = h[Len(s)]
  BY <1>1, <1>3, <1>4, <1>5, SamePrefix
<1>7. Len(r) \in 1 .. Len(r) /\ Len(r) - 1 = Len(s)
  BY <1>2, <1>4
<1>8. h[Len(r)] = LotStep(t, h[Len(s)], r[Len(r)])
  BY <1>3, <1>7
<1> QED
  BY <1>1, <1>2, <1>3, <1>6, <1>8 DEF r

\* The lots of a token, and what they have made.
Lotted(t) ==
  LET lots == LotsOf(t, Ledger(t))
  IN  /\ Total(Lefts(lots.open)) = position[t].shares
      /\ Minus(lots.profit, Total(Costs(lots.open))) = Gained(t, Ledger(t))

\* The inductive invariant.
LotsInv == MoneyInv /\ \A t \in Tokens : Apart(t) => Lotted(t)

\* No lots have made no money.
LEMMA EmptyLots ==
  ASSUME NEW t
  PROVE  /\ Total(Lefts(LotsOf(t, <<>>).open)) = Nothing.shares
         /\ Minus(LotsOf(t, <<>>).profit, Total(Costs(LotsOf(t, <<>>).open))) = Gained(t, <<>>)
<1>1. LotsOf(t, <<>>).open = <<>> /\ LotsOf(t, <<>>).profit = Zero
  BY LotsNothing DEF NoLots
<1>2. Minus(Zero, Zero) = Gained(t, <<>>)
  BY EmptyMoney, CostNothing DEF Nothing
<1> QED
  BY <1>1, <1>2, NothingOpen DEF Nothing

\* The two facts that make LotsInv inductive.
LEMMA LotsInit == ASSUME Init PROVE LotsInv
<1>1. orders = <<>> /\ \A t \in Tokens : Pending(t) = {} /\ position[t] = Nothing
  BY DEF Init, Pending, Idle
<1>2. ASSUME NEW t \in Tokens PROVE Lotted(t)
  <2>1. Ledger(t) = <<>>
    BY <1>1 DEF Ledger
  <2> QED
    BY <1>1, <2>1, EmptyLots DEF Lotted
<1> QED
  BY <1>2, MoneyInit DEF LotsInv

\* The row of a trade does to the lots what the trade did to the position.
LEMMA MadeLots ==
  ASSUME NEW c, Trading(c), NEW lots \in LotBooks, Total(Lefts(lots.open)) = c.base.shares
  PROVE  LET v == ApplyToLots(lots, OrderRow(c)) IN
           /\ Total(Lefts(v.open)) = Made(c).shares
           /\ Minus(v.profit, Total(Costs(v.open))) =
                Plus(Minus(lots.profit, Total(Costs(lots.open))), Earned(OrderRow(c)))
<1>1. PICK row : row = OrderRow(c)
  OBVIOUS
<1>2. /\ c.walk.shares \in Amounts /\ c.walk.usd \in Amounts /\ c.walk.left \in Amounts /\ c.side \in Sides
      /\ Positive(c.walk.shares) /\ Positive(c.walk.usd) /\ c.base.shares \in Amounts
  BY DEF Trading, Walks, Positions
<1>3. /\ row \in Rows /\ row.side = c.side /\ row.usd = c.walk.usd
      /\ row.price = Over(c.walk.usd, c.walk.shares)
  BY <1>1, RowType
<1>4. Over(row.usd, row.price) = c.walk.shares
  BY <1>2, <1>3, Quotients DEF Amounts
<1>5. CASE c.side = "BUY"
  <2>1. Made(c).shares = Plus(c.base.shares, c.walk.shares)
    BY <1>5 DEF Made, Bought
  <2>2. Earned(row) = Minus(Zero, row.usd)
    BY <1>3, <1>5 DEF Earned
  <2> QED
    BY <1>1, <1>3, <1>4, <1>5, <2>1, <2>2, BoughtLot
<1>6. CASE c.side = "SELL"
  <2>1. Plus(c.walk.shares, c.walk.left) = c.base.shares
    BY <1>6 DEF Trading
  <2>2. Minus(c.base.shares, c.walk.shares) = c.walk.left
    <3>1. Plus(c.walk.left, c.walk.shares) = c.base.shares
      BY <1>2, <2>1, Sums DEF Amounts
    <3> QED
      BY <1>2, <3>1, Sums DEF Amounts
  <2>3. AtMost(c.walk.shares, c.base.shares)
    BY <1>2, <2>2, Sums DEF Amounts
  <2>4. Made(c).shares = c.walk.left /\ Earned(row) = row.usd
    BY <1>3, <1>6 DEF Made, Sold, Earned
  <2> QED
    BY <1>1, <1>3, <1>4, <1>6, <2>2, <2>3, <2>4, SoldLot
<1> QED
  BY <1>2, <1>5, <1>6 DEF Sides

\* A trade does to the lots what it does to the position.
LEMMA LotsNext == ASSUME LotsInv, [Next]_vars PROVE LotsInv'
<1>1. LedgerTypes /\ PaperTypes /\ LedgerTypes' /\ LedgerMoves /\ MoneyInv'
  BY LedgerSteps, MoneyNext DEF LotsInv, MoneyInv, LedgerTypes
<1>2. ASSUME NEW t \in Tokens, Apart(t)' PROVE Lotted(t)'
  <2>1. CASE Kept(t)
    BY <2>1 DEF Kept, Lotted, LotsInv
  <2>2. CASE Cleared(t)
    BY <2>2, EmptyLots DEF Cleared, Lotted
  <2>3. ASSUME NEW c, Written(t, c) PROVE Lotted(t)'
    <3>1. /\ Trading(c) /\ c.base = position[t] /\ Lotted(t) /\ position'[t] = Made(c)
          /\ Ledger(t)' = Append(Ledger(t), OrderRow(c)) /\ c.token = t
      BY <2>3 DEF Written, LotsInv
    <3>2. OrderRow(c) \in Rows /\ OrderRow(c).token = t /\ Ledger(t) \in Seq(Rows)
      BY <1>1, <3>1, RowType, LedgerRows
    <3>3. Gained(t, Ledger(t)') = Plus(Gained(t, Ledger(t)), Earned(OrderRow(c)))
      BY <3>1, <3>2, GainedAppend
    <3>4. LotsOf(t, Ledger(t)') = ApplyToLots(LotsOf(t, Ledger(t)), OrderRow(c))
      BY <3>1, <3>2, LotsAppend DEF LotStep
    <3>5. PICK lots : lots = LotsOf(t, Ledger(t))
      OBVIOUS
    <3>6. /\ lots \in LotBooks /\ Total(Lefts(lots.open)) = c.base.shares
          /\ Minus(lots.profit, Total(Costs(lots.open))) = Gained(t, Ledger(t))
      BY <3>1, <3>2, <3>5, LotsIn DEF Lotted
    <3>7. PICK v : v = ApplyToLots(lots, OrderRow(c))
      OBVIOUS
    <3>8. /\ Total(Lefts(v.open)) = Made(c).shares
          /\ Minus(v.profit, Total(Costs(v.open))) =
               Plus(Minus(lots.profit, Total(Costs(lots.open))), Earned(OrderRow(c)))
      BY <3>1, <3>6, <3>7, MadeLots
    <3> QED
      BY <3>1, <3>3, <3>4, <3>5, <3>6, <3>7, <3>8 DEF Lotted
  <2>4. ASSUME NEW row, Passed(t, row) PROVE Lotted(t)'
    <3>1. Lotted(t) /\ row \in Rows /\ row.token # t /\ position'[t] = position[t]
      BY <2>4 DEF Passed, LotsInv
    <3>2. orders \in Seq(Rows)
      BY <1>1 DEF PaperTypes
    <3>3. PICK more : more = Append(orders, row)
      OBVIOUS
    <3>4. /\ more \in Seq(Rows) /\ LotsOf(t, more) = LotsOf(t, orders)
          /\ Gained(t, more) = Gained(t, orders)
      BY <3>1, <3>2, <3>3, LotsAppend, GainedAppend DEF LotStep
    <3>5. ASSUME NEW last \in Rows
          PROVE  /\ LotsOf(t, Append(more, last)) = LotsOf(t, Append(orders, last))
                 /\ Gained(t, Append(more, last)) = Gained(t, Append(orders, last))
      <4>1. LotsOf(t, Append(more, last)) = LotStep(t, LotsOf(t, more), last)
        BY <3>4, LotsAppend
      <4>2. LotsOf(t, Append(orders, last)) = LotStep(t, LotsOf(t, orders), last)
        BY <3>2, LotsAppend
      <4>3. Gained(t, Append(more, last)) =
              IF last.token = t THEN Plus(Gained(t, more), Earned(last)) ELSE Gained(t, more)
        BY <3>4, GainedAppend
      <4>4. Gained(t, Append(orders, last)) =
              IF last.token = t THEN Plus(Gained(t, orders), Earned(last)) ELSE Gained(t, orders)
        BY <3>2, GainedAppend
      <4> QED
        BY <3>4, <4>1, <4>2, <4>3, <4>4
    <3>6. LotsOf(t, Ledger(t)') = LotsOf(t, Ledger(t)) /\ Gained(t, Ledger(t)') = Gained(t, Ledger(t))
      BY <2>4, <3>3, <3>4, <3>5 DEF Passed
    <3> QED
      BY <3>1, <3>6 DEF Lotted
  <2> QED
    BY <1>1, <1>2, <2>1, <2>2, <2>3, <2>4 DEF LedgerMoves
<1> QED
  BY <1>1, <1>2 DEF LotsInv

\* A position that is closed has no lots left, so all its money is profit.
LEMMA LotsHold == ASSUME LotsInv PROVE LotsAgree
<1> SUFFICES ASSUME NEW t \in Tokens, Settled(t), ~Positive(position[t].shares)
             PROVE  LotProfit(t) = position[t].realized
  BY DEF LotsAgree
<1>1. Apart(t) /\ Pending(t) = {}
  BY DEF Settled, Apart, Unrecorded, Pending
<1>2. Ledger(t) = orders /\ Lotted(t) /\ Balanced(t)
  BY <1>1 DEF Ledger, LotsInv, MoneyInv
<1>3. PICK lots : lots = LotsOf(t, orders)
  OBVIOUS
<1>4. orders \in Seq(Rows) /\ position[t] \in Positions
  BY DEF LotsInv, MoneyInv, LedgerTypes, PaperTypes
<1>5. lots \in LotBooks
  BY <1>3, <1>4, LotsIn
<1>6. lots.open \in Seq(Lots) /\ lots.profit \in Frac
  BY <1>5 DEF LotBooks
<1>7. /\ position[t].shares \in Amounts /\ position[t].avg \in Frac /\ position[t].realized \in Frac
  BY <1>4 DEF Positions, Amounts
<1>8. position[t].shares = Zero /\ Cost(position[t]) = Zero
  <2>1. position[t].shares = Zero
    BY <1>7, AmountLaws
  <2> QED
    BY <1>7, <2>1, Products DEF Cost
<1>9. Total(Costs(lots.open)) = Zero
  BY <1>2, <1>3, <1>6, <1>8, NoneLeft DEF Lotted
<1>10. Minus(lots.profit, Zero) = Minus(position[t].realized, Zero)
  BY <1>2, <1>3, <1>8, <1>9 DEF Lotted, Balanced
<1>11. lots.profit = position[t].realized
  BY <1>6, <1>7, <1>10, Sums
<1>12. LotProfit(t) = lots.profit
  BY <1>3 DEF LotProfit, LotsOf
<1> QED
  BY <1>11, <1>12

\* Once a token is sold out, the profits of the histograms, which close the
\* oldest lots first, come to the one booked at average cost.
THEOREM PaperLots == Spec => []LotsAgree
<1>1. Init => LotsInv
  BY LotsInit
<1>2. LotsInv /\ [Next]_vars => LotsInv'
  BY LotsNext
<1>3. LotsInv => LotsAgree
  BY LotsHold
<1> QED
  BY <1>1, <1>2, <1>3, PTL DEF Spec

-----------------------------------------------------------------------------
(* Sums over a set of levels.                                              *)

\* A sum over finite sets, one element after another.
Summing(f, T, h) ==
  /\ f \in [SUBSET T -> Nat] /\ f[{}] = 0
  /\ \A S \in SUBSET T : \A x \in S : f[S] = h[x] + f[S \ {x}]

\* A finite set has such a sum.
LEMMA SumExists ==
  ASSUME NEW T, IsFiniteSet(T), NEW h \in [T -> Nat]
  PROVE  \E f : Summing(f, T, h)
<1>0. PICK last : last = [S \in SUBSET T |-> CHOOSE x \in S : TRUE]
  OBVIOUS
<1> DEFINE G == [x \in Nat \X T |-> h[x[2]] + x[1]]
<1>1. \A S \in (SUBSET T) \ {{}} : last[S] \in S
  BY <1>0
<1>2. \A n \in Nat, i \in T : G[<<n, i>>] = h[i] + n
  OBVIOUS
<1>3. G \in [Nat \X T -> Nat]
  OBVIOUS
<1>4. PICK f : Folding(f, T, Nat, 0, last, G)
  <2> HIDE DEF G
  <2>1. Foldable(T, Nat, 0, last, G)
    BY <1>1, <1>3 DEF Foldable
  <2> QED
    BY <2>1, FoldExists
<1>5. f \in [SUBSET T -> Nat] /\ \A S \in SUBSET T :
        f[S] = IF S = {} THEN 0 ELSE G[<<f[S \ {last[S]}], last[S]>>]
  BY <1>4 DEF Folding
<1> HIDE DEF G
<1>6. \A S \in SUBSET T : f[S] = IF S = {} THEN 0 ELSE h[last[S]] + f[S \ {last[S]}]
  <2> TAKE S \in SUBSET T
  <2>1. CASE S # {}
    <3>1. last[S] \in T /\ S \ {last[S]} \in SUBSET T
      BY <1>1, <2>1
    <3>2. f[S \ {last[S]}] \in Nat
      BY <1>5, <3>1
    <3> QED
      BY <1>2, <1>5, <2>1, <3>1, <3>2
  <2> QED
    BY <1>5, <2>1
<1> DEFINE P == {S \in SUBSET T : \A x \in S : f[S] = h[x] + f[S \ {x}]}
<1>7. ASSUME NEW S \in SUBSET T, \A R \in SUBSET S : R # S => R \in P PROVE S \in P
  <2> SUFFICES ASSUME NEW x \in S PROVE f[S] = h[x] + f[S \ {x}]
    OBVIOUS
  <2>1. PICK c : c = last[S]
    OBVIOUS
  <2>2. c \in S /\ f[S] = h[c] + f[S \ {c}]
    BY <1>1, <1>6, <2>1
  <2>3. CASE x # c
    <3>1. S \ {c} \in P /\ S \ {x} \in P /\ x \in S \ {c} /\ c \in S \ {x}
      BY <1>7, <2>2, <2>3
    <3>2. f[S \ {c}] = h[x] + f[(S \ {c}) \ {x}] /\ f[S \ {x}] = h[c] + f[(S \ {x}) \ {c}]
      BY <3>1
    <3>3. PICK r : r = (S \ {x}) \ {c} /\ r = (S \ {c}) \ {x} /\ r \in SUBSET T
      OBVIOUS
    <3>4. h[x] \in Nat /\ h[c] \in Nat /\ f[r] \in Nat
      BY <1>5, <2>2, <3>3
    <3>5. f[S \ {c}] = h[x] + f[r] /\ f[S \ {x}] = h[c] + f[r]
      BY <3>2, <3>3
    <3> QED
      BY <2>2, <3>4, <3>5
  <2> QED
    BY <2>2, <2>3
<1>8. SUBSET T \subseteq P
  <2> HIDE DEF P
  <2> QED
    BY <1>7, SetInd
<1>9. f[{}] = 0
  BY <1>6
<1>10. Summing(f, T, h)
  BY <1>5, <1>8, <1>9 DEF Summing
<1> QED
  BY <1>10

\* The shares of a set of levels add up one level at a time, in any order.
LEMMA SharesSum ==
  ASSUME NEW book, Levels(book)
  PROVE  \E f : /\ Summing(f, DOMAIN book, [i \in DOMAIN book |-> book[i][2]])
                /\ \A S \in SUBSET DOMAIN book : Shares(book, S) = f[S]
<1> DEFINE h == [i \in DOMAIN book |-> book[i][2]]
<1>1. h \in [DOMAIN book -> Nat] /\ IsFiniteSet(DOMAIN book)
  BY DEF Levels, Level
<1>2. PICK f : Summing(f, DOMAIN book, h)
  <2> HIDE DEF h
  <2> QED
    BY <1>1, SumExists
<1>3. ASSUME NEW S \in SUBSET DOMAIN book PROVE Shares(book, S) = f[S]
  <2> DEFINE Fold(g) == [s \in SUBSET S |-> IF s = {} THEN 0
               ELSE book[CHOOSE x \in s : TRUE][2] + g[s \ {CHOOSE x \in s : TRUE}]]
             iter == CHOOSE g : g = Fold(g)
  <2>1. Shares(book, S) = iter[S]
    BY Zenon DEF Shares, MapThenSumSet, MapThenFoldSet
  <2>2. PICK r : r = [s \in SUBSET S |-> f[s]]
    OBVIOUS
  <2>3. \A s \in SUBSET S : r[s] = f[s]
    BY <2>2
  <2>4. \A s \in SUBSET S : r[s] = Fold(r)[s]
    <3> TAKE s \in SUBSET S
    <3>1. CASE s = {}
      BY <1>2, <2>3, <3>1 DEF Summing
    <3>2. CASE s # {}
      <4>1. PICK c : c = CHOOSE x \in s : TRUE
        OBVIOUS
      <4>2. c \in s
        BY <3>2, <4>1
      <4>3. f[s] = h[c] + f[s \ {c}] /\ h[c] = book[c][2]
        BY <1>2, <4>2 DEF Summing
      <4>4. r[s] = book[c][2] + r[s \ {c}]
        BY <2>3, <4>3
      <4> QED
        BY <3>2, <4>1, <4>4
    <3> QED
      BY <3>1, <3>2
  <2>5. r = Fold(r)
    BY <2>2, <2>4
  <2>6. iter = Fold(iter)
    BY <2>5
  <2> HIDE DEF iter
  <2> DEFINE P == {s \in SUBSET S : iter[s] = r[s]}
  <2>7. ASSUME NEW s \in SUBSET S, \A R \in SUBSET s : R # s => R \in P PROVE s \in P
    <3>1. iter[s] = Fold(iter)[s] /\ r[s] = Fold(r)[s]
      BY <2>4, <2>6
    <3>2. CASE s = {}
      BY <3>1, <3>2
    <3>3. CASE s # {}
      <4>1. (CHOOSE x \in s : TRUE) \in s
        BY <3>3
      <4>2. s \ {CHOOSE x \in s : TRUE} \in P
        BY <2>7, <4>1
      <4> QED
        BY <3>1, <3>3, <4>2
    <3> QED
      BY <3>2, <3>3
  <2>8. SUBSET S \subseteq P
    <3>1. IsFiniteSet(S)
      BY <1>1, FS_Subset
    <3> HIDE DEF P
    <3> QED
      BY <2>7, <3>1, SetInd
  <2> QED
    BY <2>1, <2>3, <2>8
<1> QED
  BY <1>2, <1>3

\* So does what they are worth.
LEMMA WorthSum ==
  ASSUME NEW book, Levels(book)
  PROVE  \E f : /\ Summing(f, DOMAIN book, [i \in DOMAIN book |-> (book[i][1] * book[i][2])])
                /\ \A S \in SUBSET DOMAIN book : Worth(book, S) = f[S]
<1> DEFINE h == [i \in DOMAIN book |-> (book[i][1] * book[i][2])]
<1>1. h \in [DOMAIN book -> Nat] /\ IsFiniteSet(DOMAIN book)
  BY DEF Levels, Level
<1>2. PICK f : Summing(f, DOMAIN book, h)
  <2> HIDE DEF h
  <2> QED
    BY <1>1, SumExists
<1>3. ASSUME NEW S \in SUBSET DOMAIN book PROVE Worth(book, S) = f[S]
  <2> DEFINE Fold(g) == [s \in SUBSET S |-> IF s = {} THEN 0
               ELSE (book[CHOOSE x \in s : TRUE][1] * book[CHOOSE x \in s : TRUE][2]) + g[s \ {CHOOSE x \in s : TRUE}]]
             iter == CHOOSE g : g = Fold(g)
  <2>1. Worth(book, S) = iter[S]
    BY Zenon DEF Worth, MapThenSumSet, MapThenFoldSet
  <2>2. PICK r : r = [s \in SUBSET S |-> f[s]]
    OBVIOUS
  <2>3. \A s \in SUBSET S : r[s] = f[s]
    BY <2>2
  <2>4. \A s \in SUBSET S : r[s] = Fold(r)[s]
    <3> TAKE s \in SUBSET S
    <3>1. CASE s = {}
      BY <1>2, <2>3, <3>1 DEF Summing
    <3>2. CASE s # {}
      <4>1. PICK c : c = CHOOSE x \in s : TRUE
        OBVIOUS
      <4>2. c \in s
        BY <3>2, <4>1
      <4>3. f[s] = h[c] + f[s \ {c}] /\ h[c] = (book[c][1] * book[c][2])
        BY <1>2, <4>2 DEF Summing
      <4>4. r[s] = (book[c][1] * book[c][2]) + r[s \ {c}]
        BY <2>3, <4>3
      <4> QED
        BY <3>2, <4>1, <4>4
    <3> QED
      BY <3>1, <3>2
  <2>5. r = Fold(r)
    BY <2>2, <2>4
  <2>6. iter = Fold(iter)
    BY <2>5
  <2> HIDE DEF iter
  <2> DEFINE P == {s \in SUBSET S : iter[s] = r[s]}
  <2>7. ASSUME NEW s \in SUBSET S, \A R \in SUBSET s : R # s => R \in P PROVE s \in P
    <3>1. iter[s] = Fold(iter)[s] /\ r[s] = Fold(r)[s]
      BY <2>4, <2>6
    <3>2. CASE s = {}
      BY <3>1, <3>2
    <3>3. CASE s # {}
      <4>1. (CHOOSE x \in s : TRUE) \in s
        BY <3>3
      <4>2. s \ {CHOOSE x \in s : TRUE} \in P
        BY <2>7, <4>1
      <4> QED
        BY <3>1, <3>3, <4>2
    <3> QED
      BY <3>2, <3>3
  <2>8. SUBSET S \subseteq P
    <3>1. IsFiniteSet(S)
      BY <1>1, FS_Subset
    <3> HIDE DEF P
    <3> QED
      BY <2>7, <3>1, SetInd
  <2> QED
    BY <2>1, <2>3, <2>8
<1> QED
  BY <1>2, <1>3

-----------------------------------------------------------------------------
(* What a walk takes of a set of levels is the best of them.               *)

\* The levels that are better than a limit, and those at it.
Beyond(side, book, S, limit) ==
  {i \in S : IF side = "BUY" THEN book[i][1] < limit ELSE book[i][1] > limit}
At(book, S, limit) == {i \in S : book[i][1] = limit}

\* w took all of S, or has nothing left to take; it took all that is better than
\* its limit, and the rest at it.
Best(side, book, S, w) ==
  /\ w.left = Zero \/ (w.shares = Whole(Shares(book, S)) /\ w.usd = Whole(Worth(book, S)))
  /\ Positive(w.shares) =>
       LET better == Beyond(side, book, S, w.limit)
           n == Minus(w.shares, Whole(Shares(book, better)))
       IN  /\ Positive(n) /\ AtMost(n, Whole(Shares(book, At(book, S, w.limit))))
           /\ w.usd = Plus(Whole(Worth(book, better)), Times(n, Whole(w.limit)))

\* Whole numbers add and multiply as they should.
LEMMA WholeSums ==
  ASSUME NEW m \in Int, NEW n \in Int
  PROVE  /\ Plus(Whole(m), Whole(n)) = Whole(m + n) /\ Minus(Whole(m), Whole(n)) = Whole(m - n)
         /\ Times(Whole(m), Whole(n)) = Whole(m * n)
         /\ AtMost(Whole(m), Whole(n)) <=> m <= n
<1>1. \A k \in Int : Fits(Whole(k), 1) /\ Num(Whole(k), 1) = k
  <2> TAKE k \in Int
  <2>1. Stands(Whole(k), k * 1, 1) /\ k * 1 = k
    BY WholeStands
  <2> QED
    BY <2>1, NumEqual
<1>2. m + n \in Int /\ m - n \in Int /\ m * n \in Int
  OBVIOUS
<1>3. /\ Fits(Plus(Whole(m), Whole(n)), 1) /\ Num(Plus(Whole(m), Whole(n)), 1) = m + n
      /\ Fits(Minus(Whole(m), Whole(n)), 1) /\ Num(Minus(Whole(m), Whole(n)), 1) = m - n
  BY <1>1, NumPlus, NumMinus
<1>4. Fits(Times(Whole(m), Whole(n)), 1) /\ Num(Times(Whole(m), Whole(n)), 1) = m * n
  <2>1. 1 = 1 * 1 /\ 1 \in Nat \ {0}
    OBVIOUS
  <2>2. Fits(Times(Whole(m), Whole(n)), 1) /\ Num(Times(Whole(m), Whole(n)), 1) = Num(Whole(m), 1) * Num(Whole(n), 1)
    BY <1>1, <2>1, NumTimes
  <2> QED
    BY <1>1, <2>2
<1>5. 1 \in Nat \ {0}
  OBVIOUS
<1> QED
  BY <1>1, <1>2, <1>3, <1>4, <1>5, NumOrder

\* The shares and the worth of a set of levels.
LEMMA SetSums ==
  ASSUME NEW book, Levels(book), NEW S \in SUBSET DOMAIN book
  PROVE  /\ Shares(book, S) \in Nat /\ Worth(book, S) \in Nat
         /\ Shares(book, {}) = 0 /\ Worth(book, {}) = 0
         /\ \A x \in S : /\ Shares(book, S) = Shares(book, S \ {x}) + book[x][2]
                         /\ Worth(book, S) = Worth(book, S \ {x}) + book[x][1] * book[x][2]
<1>1. PICK f : /\ Summing(f, DOMAIN book, [i \in DOMAIN book |-> book[i][2]])
               /\ \A R \in SUBSET DOMAIN book : Shares(book, R) = f[R]
  BY SharesSum
<1>2. PICK g : /\ Summing(g, DOMAIN book, [i \in DOMAIN book |-> (book[i][1] * book[i][2])])
               /\ \A R \in SUBSET DOMAIN book : Worth(book, R) = g[R]
  BY WorthSum
<1>3. f[S] \in Nat /\ g[S] \in Nat /\ f[{}] = 0 /\ g[{}] = 0
  BY <1>1, <1>2 DEF Summing
<1>4. ASSUME NEW x \in S
      PROVE  /\ Shares(book, S) = Shares(book, S \ {x}) + book[x][2]
             /\ Worth(book, S) = Worth(book, S \ {x}) + book[x][1] * book[x][2]
  <2>1. f[S] = book[x][2] + f[S \ {x}]
    BY <1>1 DEF Summing
  <2>2. PICK m : m = book[x][1] * book[x][2]
    OBVIOUS
  <2>3. g[S] = m + g[S \ {x}]
    BY <1>2, <2>2 DEF Summing
  <2>4. book[x][2] \in Nat /\ m \in Nat
    BY <2>2 DEF Levels, Level
  <2>5. S \ {x} \in SUBSET DOMAIN book
    OBVIOUS
  <2>6. f[S \ {x}] \in Nat /\ g[S \ {x}] \in Nat
    BY <1>1, <1>2, <2>5 DEF Summing
  <2> QED
    BY <1>1, <1>2, <2>1, <2>2, <2>3, <2>4, <2>5, <2>6
<1> QED
  BY <1>1, <1>2, <1>3, <1>4

\* A set of levels splits into those that are beyond a price and those at it,
\* when there are no others; the latter are all worth that price.
LEMMA SetSplits ==
  ASSUME NEW book, Levels(book), NEW side, NEW limit \in Nat,
         NEW S \in SUBSET DOMAIN book,
         \A j \in S : IF side = "BUY" THEN book[j][1] <= limit ELSE book[j][1] >= limit
  PROVE  LET better == Beyond(side, book, S, limit)
             last   == At(book, S, limit)
         IN  /\ Shares(book, S) = Shares(book, better) + Shares(book, last)
             /\ Worth(book, S) = Worth(book, better) + limit * Shares(book, last)
<1> DEFINE B(R) == Beyond(side, book, R, limit)
           L(R) == At(book, R, limit)
           P == {R \in SUBSET S : /\ Shares(book, R) = Shares(book, B(R)) + Shares(book, L(R))
                                  /\ Worth(book, R) = Worth(book, B(R)) + limit * Shares(book, L(R))}
<1>1. ASSUME NEW R \in SUBSET S, \A Q \in SUBSET R : Q # R => Q \in P PROVE R \in P
  <2>0. \A Q \in SUBSET S : Q \in SUBSET DOMAIN book /\ B(Q) \in SUBSET DOMAIN book /\ L(Q) \in SUBSET DOMAIN book
    BY DEF Beyond, At
  <2>1. CASE R = {}
    <3>1. B(R) = {} /\ L(R) = {}
      BY <2>1 DEF Beyond, At
    <3>2. Shares(book, {}) = 0 /\ Worth(book, {}) = 0
      BY SetSums
    <3>3. limit * 0 = 0
      OBVIOUS
    <3>4. /\ Shares(book, R) = 0 /\ Worth(book, R) = 0 /\ Worth(book, B(R)) = 0
          /\ Shares(book, B(R)) = 0 /\ Shares(book, L(R)) = 0
      BY <2>1, <3>1, <3>2
    <3> HIDE DEF B, L
    <3> QED
      BY <3>3, <3>4
  <2>2. CASE R # {}
    <3>1. PICK x \in R : TRUE
      BY <2>2
    <3>2. PICK Q : Q = R \ {x}
      OBVIOUS
    <3>3. Q \in P
      BY <1>1, <3>1, <3>2
    <3>4. /\ Shares(book, R) = Shares(book, Q) + book[x][2]
          /\ Worth(book, R) = Worth(book, Q) + book[x][1] * book[x][2]
      BY <2>0, <3>1, <3>2, SetSums
    <3>5. book[x][1] \in Nat /\ book[x][2] \in Nat
      BY <3>1 DEF Levels, Level
    <3>6. /\ Shares(book, B(Q)) \in Nat /\ Shares(book, L(Q)) \in Nat /\ Worth(book, B(Q)) \in Nat
          /\ Shares(book, Q) = Shares(book, B(Q)) + Shares(book, L(Q))
          /\ Worth(book, Q) = Worth(book, B(Q)) + limit * Shares(book, L(Q))
      BY <2>0, <3>3, SetSums
    <3>7. CASE book[x][1] = limit
      <4>1. B(R) = B(Q) /\ x \in L(R) /\ L(Q) = L(R) \ {x}
        BY <3>1, <3>2, <3>7 DEF Beyond, At
      <4>2. Shares(book, L(R)) = Shares(book, L(Q)) + book[x][2]
        BY <2>0, <4>1, SetSums
      <4>3. PICK a, b, c : a = Shares(book, L(Q)) /\ b = book[x][2] /\ c = Shares(book, L(R))
        OBVIOUS
      <4>4. limit * c = limit * a + limit * b
        BY <3>5, <3>6, <4>2, <4>3
      <4>5. limit * a \in Int /\ limit * b \in Int
        BY <3>5, <3>6, <4>3
      <4>6. Worth(book, R) = Worth(book, B(R)) + limit * c
        BY <3>4, <3>6, <3>7, <4>1, <4>3, <4>4, <4>5
      <4> QED
        BY <3>4, <3>5, <3>6, <4>1, <4>2, <4>3, <4>6
    <3>8. CASE book[x][1] # limit
      <4>1. L(R) = L(Q) /\ x \in B(R) /\ B(Q) = B(R) \ {x}
        BY <3>1, <3>2, <3>5, <3>8 DEF Beyond, At
      <4>2. /\ Shares(book, B(R)) = Shares(book, B(Q)) + book[x][2]
            /\ Worth(book, B(R)) = Worth(book, B(Q)) + book[x][1] * book[x][2]
        BY <2>0, <4>1, SetSums
      <4>3. book[x][1] * book[x][2] \in Int /\ limit * Shares(book, L(Q)) \in Int
        BY <3>5, <3>6
      <4> HIDE DEF B, L
      <4> QED
        BY <3>4, <3>5, <3>6, <4>1, <4>2, <4>3
    <3> QED
      BY <3>7, <3>8
  <2> QED
    BY <2>1, <2>2
<1>2. SUBSET S \subseteq P
  <2>1. IsFiniteSet(S)
    BY FS_Subset DEF Levels
  <2> HIDE DEF P
  <2> QED
    BY <1>1, <2>1, SetInd
<1>3. S \in P
  BY <1>2
<1> QED
  BY <1>3

\* More levels have more shares.
LEMMA SharesMore ==
  ASSUME NEW book, Levels(book), NEW S \in SUBSET DOMAIN book, NEW R \in SUBSET S
  PROVE  Shares(book, R) <= Shares(book, S)
<1> DEFINE P == {Q \in SUBSET S : Shares(book, Q \cap R) <= Shares(book, Q)}
<1>1. ASSUME NEW Q \in SUBSET S, \A V \in SUBSET Q : V # Q => V \in P PROVE Q \in P
  <2>1. CASE Q = {}
    <3>1. Q \cap R = {} /\ Shares(book, {}) \in Nat
      BY <2>1, SetSums
    <3> QED
      BY <2>1, <3>1
  <2>2. CASE Q # {}
    <3>1. PICK x \in Q : TRUE
      BY <2>2
    <3>2. PICK V, VR, QR : V = Q \ {x} /\ VR = V \cap R /\ QR = Q \cap R
      OBVIOUS
    <3>3. Shares(book, VR) <= Shares(book, V)
      BY <1>1, <3>1, <3>2
    <3>4. Shares(book, Q) = Shares(book, V) + book[x][2] /\ book[x][2] \in Nat
      BY <3>1, <3>2, SetSums DEF Levels, Level
    <3>5. /\ Shares(book, V) \in Nat /\ Shares(book, VR) \in Nat
          /\ QR \in SUBSET DOMAIN book
      BY <3>2, SetSums
    <3>6. QR = VR \/ (x \in QR /\ VR = QR \ {x})
      BY <3>1, <3>2
    <3>7. Shares(book, QR) = Shares(book, VR) \/ Shares(book, QR) = Shares(book, VR) + book[x][2]
      BY <3>5, <3>6, SetSums
    <3> QED
      BY <3>2, <3>3, <3>4, <3>5, <3>7
  <2> QED
    BY <2>1, <2>2
<1>2. SUBSET S \subseteq P
  <2>1. IsFiniteSet(S)
    BY FS_Subset DEF Levels
  <2> HIDE DEF P
  <2> QED
    BY <1>1, <2>1, SetInd
<1>3. S \in P /\ S \cap R = R
  BY <1>2
<1> QED
  BY <1>3

\* A walk that has the best of all but the worst level of a set has, after
\* that one, the best of the set.
LEMMA TakeBest ==
  ASSUME NEW book, Levels(book), NEW side, NEW S \in SUBSET DOMAIN book, NEW x \in S,
         \A j \in S : IF side = "BUY" THEN book[j][1] <= book[x][1] ELSE book[j][1] >= book[x][1],
         NEW v \in Walks, Best(side, book, S \ {x}, v),
         NEW n \in Amounts, NEW cost, AtMost(n, Whole(book[x][2])),
         IF v.left = Zero THEN ~Positive(n)
         ELSE Positive(n) /\ (Minus(v.left, cost) = Zero \/ n = Whole(book[x][2]))
  PROVE  Best(side, book, S, Take(v, book[x], n, cost))
<1>1. PICK R, p, depth : R = S \ {x} /\ p = book[x][1] /\ depth = book[x][2]
  OBVIOUS
<1>2. /\ p \in Nat /\ depth \in Nat /\ p > 0 /\ depth > 0 /\ R \in SUBSET DOMAIN book
      /\ \A j \in R : book[j][1] \in Nat
  BY <1>1 DEF Levels, Level
<1>3. /\ v.left \in Amounts /\ v.shares \in Amounts /\ v.usd \in Amounts /\ v.limit \in Nat
  BY DEF Walks
<1>4. CASE v.left = Zero
  <2>1. Take(v, book[x], n, cost) = v
    BY <1>4 DEF Take
  <2>2. ASSUME Positive(v.shares)
        PROVE  LET better == Beyond(side, book, S, v.limit)
                   m == Minus(v.shares, Whole(Shares(book, better)))
               IN  /\ Positive(m) /\ AtMost(m, Whole(Shares(book, At(book, S, v.limit))))
                   /\ v.usd = Plus(Whole(Worth(book, better)), Times(m, Whole(v.limit)))
    <3>1. PICK better, last, all, m :
            /\ better = Beyond(side, book, R, v.limit) /\ last = At(book, R, v.limit)
            /\ all = At(book, S, v.limit) /\ m = Minus(v.shares, Whole(Shares(book, better)))
      OBVIOUS
    <3>2. /\ Positive(m) /\ AtMost(m, Whole(Shares(book, last)))
          /\ v.usd = Plus(Whole(Worth(book, better)), Times(m, Whole(v.limit)))
      BY <1>1, <2>2, <3>1 DEF Best
    <3>3. /\ better \in SUBSET DOMAIN book /\ last \in SUBSET all /\ all \in SUBSET DOMAIN book
          /\ last \in SUBSET DOMAIN book
      BY <1>1, <3>1 DEF Beyond, At
    <3>4. /\ Shares(book, better) \in Nat /\ Shares(book, last) \in Nat /\ Shares(book, all) \in Nat
          /\ Shares(book, {}) = 0 /\ Shares(book, last) <= Shares(book, all)
      BY <3>3, SetSums, SharesMore
    <3>5. m \in Frac /\ Whole(Shares(book, last)) \in Frac /\ Whole(Shares(book, all)) \in Frac
      <4>1. \A k \in Int : Whole(k) \in Frac
        BY Wholes
      <4>2. /\ Whole(Shares(book, better)) \in Frac /\ Whole(Shares(book, last)) \in Frac
            /\ Whole(Shares(book, all)) \in Frac /\ v.shares \in Frac
        BY <1>3, <3>4, <4>1 DEF Amounts
      <4> QED
        BY <3>1, <4>2, Closed
    <3>6. last # {}
      <4> SUFFICES ASSUME last = {} PROVE FALSE
        OBVIOUS
      <4>1. Whole(Shares(book, last)) = Zero
        BY <3>4 DEF Zero
      <4> QED
        BY <3>2, <3>5, <4>1, Ordering
    <3>7. PICK j : j \in R /\ book[j][1] = v.limit
      BY <3>1, <3>6 DEF At
    <3>8. Beyond(side, book, S, v.limit) = better
      <4>1. IF side = "BUY" THEN ~(p < v.limit) ELSE ~(p > v.limit)
        BY <1>1, <1>2, <1>3, <3>7
      <4> QED
        BY <1>1, <3>1, <4>1 DEF Beyond
    <3>9. AtMost(m, Whole(Shares(book, all)))
      <4>1. AtMost(Whole(Shares(book, last)), Whole(Shares(book, all)))
        BY <3>4, WholeSums
      <4> QED
        BY <3>2, <3>5, <4>1, Ordering
    <3> QED
      BY <3>1, <3>2, <3>8, <3>9
  <2> QED
    BY <1>4, <2>1, <2>2 DEF Best
<1>5. CASE v.left # Zero
  <2>1. PICK better, last, all : /\ better = Beyond(side, book, R, p) /\ last = At(book, R, p)
                                 /\ all = At(book, S, p)
    OBVIOUS
  <2>2. /\ better \in SUBSET DOMAIN book /\ last \in SUBSET DOMAIN book /\ all \in SUBSET DOMAIN book
        /\ x \in all /\ last = all \ {x} /\ Beyond(side, book, S, p) = better
    BY <1>1, <1>2, <2>1 DEF Beyond, At
  <2>3. PICK shR, shB, shL, shS, shA, woR, woB, woS :
          /\ shR = Shares(book, R) /\ shB = Shares(book, better) /\ shL = Shares(book, last)
          /\ shS = Shares(book, S) /\ shA = Shares(book, all)
          /\ woR = Worth(book, R) /\ woB = Worth(book, better) /\ woS = Worth(book, S)
    OBVIOUS
  <2>4. /\ shR \in Nat /\ shB \in Nat /\ shL \in Nat /\ woR \in Nat /\ woB \in Nat
        /\ shS = shR + depth /\ shA = shL + depth /\ woS = woR + p * depth
    BY <1>1, <1>2, <2>2, <2>3, SetSums
  <2>5. shR = shB + shL /\ woR = woB + p * shL
    <3>1. \A j \in R : IF side = "BUY" THEN book[j][1] <= p ELSE book[j][1] >= p
      BY <1>1
    <3> QED
      BY <1>2, <2>1, <2>3, <3>1, SetSplits
  <2>6. v.shares = Whole(shR) /\ v.usd = Whole(woR)
    BY <1>1, <1>5, <2>3 DEF Best
  <2>7. PICK a, b, d, q, np : /\ a = Whole(shL) /\ b = Whole(shB) /\ d = Whole(depth) /\ q = Whole(p)
                              /\ np = Times(n, q)
    OBVIOUS
  <2>8. /\ a \in Frac /\ b \in Frac /\ d \in Frac /\ q \in Frac /\ n \in Frac /\ np \in Frac
        /\ Whole(shR) \in Frac /\ Whole(woR) \in Frac /\ Whole(woB) \in Frac
        /\ Whole(shS) \in Frac /\ Whole(shA) \in Frac
    <3>1. \A k \in Int : Whole(k) \in Frac
      BY Wholes
    <3>2. /\ shR \in Int /\ shB \in Int /\ shL \in Int /\ depth \in Int /\ p \in Int
          /\ woR \in Int /\ woB \in Int /\ shS \in Int /\ shA \in Int
      BY <1>2, <2>4
    <3>3. a \in Frac /\ b \in Frac /\ d \in Frac /\ q \in Frac /\ n \in Frac
      BY <2>7, <3>1, <3>2 DEF Amounts
    <3>4. np \in Frac
      BY <2>7, <3>3, Closed
    <3> QED
      BY <3>1, <3>2, <3>3, <3>4
  <2>9. PICK w : w = Take(v, book[x], n, cost)
    OBVIOUS
  <2>10. /\ Positive(n) /\ w.left = Minus(v.left, cost) /\ w.shares = Plus(Whole(shR), n)
         /\ w.usd = Plus(Whole(woR), np) /\ w.limit = p
    BY <1>1, <1>5, <2>6, <2>7, <2>9 DEF Take
  <2>11. w.left = Zero \/ (w.shares = Whole(shS) /\ w.usd = Whole(woS))
    <3>1. CASE n = d
      <4>0. shR \in Int /\ depth \in Int /\ p \in Int /\ woR \in Int
        BY <1>2, <2>4
      <4>1. w.shares = Whole(shS)
        <5>1. Plus(Whole(shR), Whole(depth)) = Whole(shR + depth)
          BY <4>0, WholeSums
        <5> QED
          BY <2>4, <2>7, <2>10, <3>1, <5>1
      <4>2. PICK k : k = depth * p
        OBVIOUS
      <4>3. k \in Int /\ k = p * depth
        BY <4>0, <4>2
      <4>4. np = Whole(k)
        <5>1. Times(Whole(depth), Whole(p)) = Whole(depth * p)
          BY <4>0, WholeSums
        <5> QED
          BY <2>7, <3>1, <4>2, <5>1
      <4>5. w.usd = Whole(woS)
        <5>1. Plus(Whole(woR), Whole(k)) = Whole(woR + k)
          BY <4>0, <4>3, WholeSums
        <5> QED
          BY <2>4, <2>10, <4>3, <4>4, <5>1
      <4> QED
        BY <4>1, <4>5
    <3> QED
      BY <1>1, <1>5, <2>7, <2>10, <3>1
  <2>12. PICK m : m = Minus(w.shares, b)
    OBVIOUS
  <2>13. m = Plus(a, n)
    <3>1. Minus(Whole(shR), b) = a
      <4>1. shR - shB = shL
        BY <2>4, <2>5
      <4> QED
        BY <2>4, <2>7, <4>1, WholeSums
    <3> QED
      BY <2>8, <2>10, <2>12, <3>1, Sums
  <2>14. Positive(m)
    <3>1. a \in Amounts
      <4>1. AtMost(Zero, a)
        BY <2>4, <2>7, WholeSums DEF Zero
      <4> QED
        BY <2>8, <4>1 DEF Amounts
    <3> QED
      BY <2>10, <2>13, <3>1, AmountLaws
  <2>15. AtMost(m, Whole(shA))
    <3>1. Whole(shA) = Plus(a, d)
      BY <1>2, <2>4, <2>7, WholeSums
    <3>2. Minus(Plus(a, d), a) = d
      <4>1. Plus(a, d) = Plus(d, a) /\ Minus(Plus(d, a), a) = d
        BY <2>8, Sums
      <4> QED
        BY <4>1
    <3>3. AtMost(n, d)
      BY <1>1, <2>7
    <3>4. AtMost(Plus(a, n), Plus(a, d))
      BY <2>8, <3>1, <3>2, <3>3, Sums
    <3> QED
      BY <2>13, <3>1, <3>4
  <2>16. w.usd = Plus(Whole(woB), Times(m, q))
    <3>1. Times(m, q) = Plus(Times(a, q), np)
      BY <2>7, <2>8, <2>13, Products
    <3>2. Times(a, q) = Whole(shL * p) /\ shL * p \in Int /\ shL * p = p * shL
      BY <1>2, <2>4, <2>7, WholeSums
    <3>3. Plus(Whole(woB), Times(a, q)) = Whole(woR)
      BY <2>4, <2>5, <3>2, WholeSums
    <3>4. Times(a, q) \in Frac
      BY <2>8, Closed
    <3>5. Plus(Plus(Whole(woB), Times(a, q)), np) = Plus(Whole(woB), Plus(Times(a, q), np))
      BY <2>8, <3>4, Sums
    <3> QED
      BY <2>10, <3>1, <3>3, <3>5
  <2> QED
    BY <2>1, <2>2, <2>3, <2>7, <2>9, <2>10, <2>11, <2>12, <2>14, <2>15, <2>16 DEF Best
<1> QED
  BY <1>4, <1>5

\* What calculate_entry takes of a book is the best of it.
LEMMA EntryBest ==
  ASSUME NEW size \in Amounts, NEW book, Levels(book)
  PROVE  Best("BUY", book, DOMAIN book, Entry(size, book))
<1>1. PICK f \in [SUBSET DOMAIN book -> BuyWalks(size)] :
        /\ Entry(size, book) = f[DOMAIN book]
        /\ \A S \in SUBSET DOMAIN book :
             f[S] = IF S = {} THEN [Untaken EXCEPT !.left = size]
                    ELSE BuyLevel(f[S \ {LastToBuy(book, S)}], book[LastToBuy(book, S)])
  BY EntryFold
<1> DEFINE P == {S \in SUBSET DOMAIN book : Best("BUY", book, S, f[S])}
<1>2. ASSUME NEW S \in SUBSET DOMAIN book, \A R \in SUBSET S : R # S => R \in P PROVE S \in P
  <2>1. CASE S = {}
    <3>1. f[S].shares = Zero /\ f[S].usd = Zero
      BY <1>1, <2>1 DEF Untaken
    <3>2. Shares(book, {}) = 0 /\ Worth(book, {}) = 0 /\ ~Positive(Zero)
      BY SetSums, Ordering, Wholes
    <3>3. Best("BUY", book, S, f[S])
      BY <2>1, <3>1, <3>2 DEF Best, Zero
    <3> QED
      BY <3>3
  <2>2. CASE S # {}
    <3>1. PICK x : x = LastToBuy(book, S)
      OBVIOUS
    <3>2. x \in S /\ \A j \in S : book[j][1] <= book[x][1]
      BY <2>2, <3>1, Lasts
    <3>3. PICK v : v = f[S \ {x}]
      OBVIOUS
    <3>4. Best("BUY", book, S \ {x}, v)
      BY <1>2, <3>2, <3>3
    <3>5. v \in BuyWalks(size)
      BY <1>1, <3>3
    <3>6. v \in Walks
      BY <3>5 DEF BuyWalks
    <3>7. PICK p, depth : p = Whole(book[x][1]) /\ depth = Whole(book[x][2])
      OBVIOUS
    <3>8. v.left \in Amounts /\ p \in Amounts /\ depth \in Amounts /\ Positive(p) /\ Positive(depth)
      <4>1. book[x] \in Level
        BY <3>2 DEF Levels
      <4>2. book[x][1] \in Int /\ book[x][1] > 0 /\ book[x][2] \in Int /\ book[x][2] > 0
        BY <4>1 DEF Level
      <4> QED
        BY <3>6, <3>7, <4>2, Wholes, Ordering DEF Amounts, Walks
    <3>9. PICK n, cost : n = Smaller(depth, Over(v.left, p)) /\ cost = Times(n, p)
      OBVIOUS
    <3>10. f[S] = Take(v, book[x], n, cost)
      BY <1>1, <2>2, <3>1, <3>3, <3>7, <3>9 DEF BuyLevel
    <3>11. n \in Amounts /\ AtMost(n, depth)
      <4>1. Over(v.left, p) \in Amounts
        BY <3>8, AmountLaws
      <4> QED
        BY <3>8, <3>9, <4>1, AmountLaws, Smallers DEF Amounts
    <3>12. IF v.left = Zero THEN ~Positive(n)
           ELSE Positive(n) /\ (Minus(v.left, cost) = Zero \/ n = depth)
      <4>1. PICK q : q = Over(v.left, p)
        OBVIOUS
      <4>2. q \in Amounts /\ Times(q, p) = v.left
        BY <3>8, <4>1, AmountLaws, Quotients DEF Amounts
      <4>3. n \in {depth, q} /\ AtMost(n, q)
        BY <3>8, <3>9, <4>1, <4>2, Smallers DEF Amounts
      <4>4. CASE v.left = Zero
        <5>1. ~Positive(q)
          <6>1. Positive(q) => Positive(v.left)
            BY <3>8, <4>2, Products DEF Amounts
          <6> QED
            BY <3>8, <4>4, <6>1, AmountLaws
        <5>2. q = Zero
          BY <4>2, <5>1, AmountLaws
        <5>3. n = Zero
          BY <3>11, <4>3, <5>2, NothingType, Ordering DEF Amounts
        <5> QED
          BY <4>4, <5>1, <5>2, <5>3
      <4>5. CASE v.left # Zero
        <5>1. Positive(v.left)
          BY <3>8, <4>5, AmountLaws
        <5>2. Positive(q)
          BY <3>8, <4>1, <5>1, Quotients DEF Amounts
        <5>3. Minus(v.left, v.left) = Zero
          BY <3>8, Sums DEF Amounts
        <5> QED
          BY <3>8, <3>9, <4>2, <4>3, <4>5, <5>2, <5>3
      <4> QED
        BY <4>4, <4>5
    <3>13. Best("BUY", book, S, Take(v, book[x], n, cost))
      <4>1. \A j \in S : IF "BUY" = "BUY" THEN book[j][1] <= book[x][1] ELSE book[j][1] >= book[x][1]
        BY <3>2
      <4> QED
        BY <3>2, <3>4, <3>6, <3>7, <3>11, <3>12, <4>1, TakeBest
    <3> QED
      BY <3>10, <3>13
  <2> QED
    BY <2>1, <2>2
<1>3. SUBSET DOMAIN book \subseteq P
  <2>1. IsFiniteSet(DOMAIN book)
    BY DEF Levels
  <2> HIDE DEF P
  <2> QED
    BY <1>2, <2>1, SetInd
<1>4. DOMAIN book \in P
  BY <1>3
<1> QED
  BY <1>1, <1>4

\* What execute_paper_sell takes of a book is the best of it.
LEMMA ExitBest ==
  ASSUME NEW size \in Amounts, NEW book, Levels(book)
  PROVE  Best("SELL", book, DOMAIN book, Exit(size, book))
<1>1. PICK f \in [SUBSET DOMAIN book -> SellWalks(size)] :
        /\ Exit(size, book) = f[DOMAIN book]
        /\ \A S \in SUBSET DOMAIN book :
             f[S] = IF S = {} THEN [Untaken EXCEPT !.left = size]
                    ELSE SellLevel(f[S \ {LastToSell(book, S)}], book[LastToSell(book, S)])
  BY ExitFold
<1> DEFINE P == {S \in SUBSET DOMAIN book : Best("SELL", book, S, f[S])}
<1>2. ASSUME NEW S \in SUBSET DOMAIN book, \A R \in SUBSET S : R # S => R \in P PROVE S \in P
  <2>1. CASE S = {}
    <3>1. f[S].shares = Zero /\ f[S].usd = Zero
      BY <1>1, <2>1 DEF Untaken
    <3>2. Shares(book, {}) = 0 /\ Worth(book, {}) = 0 /\ ~Positive(Zero)
      BY SetSums, Ordering, Wholes
    <3>3. Best("SELL", book, S, f[S])
      BY <2>1, <3>1, <3>2 DEF Best, Zero
    <3> QED
      BY <3>3
  <2>2. CASE S # {}
    <3>1. PICK x : x = LastToSell(book, S)
      OBVIOUS
    <3>2. x \in S /\ \A j \in S : book[j][1] >= book[x][1]
      BY <2>2, <3>1, Lasts
    <3>3. PICK v : v = f[S \ {x}]
      OBVIOUS
    <3>4. Best("SELL", book, S \ {x}, v)
      BY <1>2, <3>2, <3>3
    <3>5. v \in SellWalks(size)
      BY <1>1, <3>3
    <3>6. v \in Walks
      BY <3>5 DEF SellWalks
    <3>7. PICK p, depth : p = Whole(book[x][1]) /\ depth = Whole(book[x][2])
      OBVIOUS
    <3>8. v.left \in Amounts /\ p \in Amounts /\ depth \in Amounts /\ Positive(p) /\ Positive(depth)
      <4>1. book[x] \in Level
        BY <3>2 DEF Levels
      <4>2. book[x][1] \in Int /\ book[x][1] > 0 /\ book[x][2] \in Int /\ book[x][2] > 0
        BY <4>1 DEF Level
      <4> QED
        BY <3>6, <3>7, <4>2, Wholes, Ordering DEF Amounts, Walks
    <3>9. PICK n, cost : n = Smaller(depth, v.left) /\ cost = n
      OBVIOUS
    <3>10. f[S] = Take(v, book[x], n, cost)
      BY <1>1, <2>2, <3>1, <3>3, <3>7, <3>9 DEF SellLevel
    <3>11. n \in Amounts /\ AtMost(n, depth)
      BY <3>8, <3>9, AmountLaws, Smallers DEF Amounts
    <3>12. IF v.left = Zero THEN ~Positive(n)
           ELSE Positive(n) /\ (Minus(v.left, cost) = Zero \/ n = depth)
      <4>1. n \in {depth, v.left} /\ AtMost(n, v.left)
        BY <3>8, <3>9, Smallers DEF Amounts
      <4>2. CASE v.left = Zero
        <5>1. n = Zero
          BY <3>11, <4>1, <4>2, NothingType, Ordering DEF Amounts
        <5> QED
          BY <4>2, <5>1, NothingType, Ordering
      <4>3. CASE v.left # Zero
        <5>1. Positive(v.left)
          BY <3>8, <4>3, AmountLaws
        <5>2. Minus(v.left, v.left) = Zero
          BY <3>8, Sums DEF Amounts
        <5> QED
          BY <3>8, <3>9, <4>1, <4>3, <5>1, <5>2
      <4> QED
        BY <4>2, <4>3
    <3>13. Best("SELL", book, S, Take(v, book[x], n, cost))
      <4>1. \A j \in S : IF "SELL" = "BUY" THEN book[j][1] <= book[x][1] ELSE book[j][1] >= book[x][1]
        BY <3>2
      <4> QED
        BY <3>2, <3>4, <3>6, <3>7, <3>11, <3>12, <4>1, TakeBest
    <3> QED
      BY <3>10, <3>13
  <2> QED
    BY <2>1, <2>2
<1>3. SUBSET DOMAIN book \subseteq P
  <2>1. IsFiniteSet(DOMAIN book)
    BY DEF Levels
  <2> HIDE DEF P
  <2> QED
    BY <1>2, <2>1, SetInd
<1>4. DOMAIN book \in P
  BY <1>3
<1> QED
  BY <1>1, <1>4

\* Every trade in hand still has the levels it was walked over, and the walk.
BestInv ==
  /\ PaperTypes
  /\ \A p \in Procs : call[p].pc # "idle" => Levels(call[p].levels) /\ Walked(call[p])

\* Later steps keep them.
LEMMA BestNext == ASSUME BestInv, [Next]_vars PROVE BestInv'
<1>0. PaperTypes /\ PaperTypes'
  BY TypesNext DEF BestInv
<1>1. ASSUME NEW p \in Procs, NEW d, call' = [call EXCEPT ![p] = d], d = Idle \/ Trading(d),
             d # Idle => Levels(d.levels) /\ Walked(d)
      PROVE  BestInv'
  <2>1. call'[p] = d /\ \A q \in Procs \ {p} : call'[q] = call[q]
    BY <1>0, <1>1, CallTypes
  <2>2. d.pc # "idle" => Levels(d.levels) /\ Walked(d)
    BY <1>1 DEF Idle
  <2>3. ASSUME NEW q \in Procs, call'[q].pc # "idle" PROVE Levels(call'[q].levels) /\ Walked(call'[q])
    BY <2>1, <2>2, <2>3 DEF BestInv
  <2>4. \A q \in Procs : (call[q].pc # "idle" => Levels(call[q].levels) /\ Walked(call[q]))'
    BY <2>3
  <2> QED
    BY <1>0, <2>4 DEF BestInv
<1>2. CASE call' = call
  BY <1>0, <1>2 DEF BestInv
<1>3. ASSUME NEW p \in Procs, NEW c, Begin(p, c) PROVE BestInv'
  BY <1>1, <1>3 DEF Begin
<1>4. ASSUME NEW p \in Procs, NEW d, call' = [call EXCEPT ![p] = d], Trading(d), Trading(call[p]),
             d.side = call[p].side, d.walk = call[p].walk, d.levels = call[p].levels
      PROVE  BestInv'
  <2>1. call[p].pc # "idle"
    BY <1>4 DEF Trading
  <2>2. Levels(d.levels) /\ Walked(d)
    BY <1>4, <2>1 DEF BestInv, Walked
  <2> QED
    BY <1>1, <1>4, <2>2
<1>5. ASSUME NEW p \in Procs, ReadPosition(p) PROVE BestInv'
  BY <1>0, <1>4, <1>5, ReadStep
<1>6. ASSUME NEW p \in Procs, WritePosition(p) PROVE BestInv'
  BY <1>0, <1>4, <1>6, WriteStep
<1>7. ASSUME NEW p \in Procs, StoreOrder(p) \/ Crash(p) PROVE BestInv'
  BY <1>1, <1>7 DEF StoreOrder, Crash, Go
<1>8. CASE UNCHANGED vars \/ Reset \/ \E t \in Tokens : FetchBook(t)
  BY <1>2, <1>8 DEF vars, Reset, FetchBook
<1> QED
  BY <1>0, <1>3, <1>5, <1>6, <1>7, <1>8, Steps

\* BestPrices follows.
LEMMA BestHolds == ASSUME BestInv PROVE BestPrices
<1> SUFFICES ASSUME NEW p \in Procs, call[p].pc # "idle" PROVE TakesBest(call[p])
  BY DEF BestPrices
<1>1. PICK c : c = call[p]
  OBVIOUS
<1>2. Trading(c) /\ Levels(c.levels) /\ Walked(c)
  BY <1>1, Calls DEF BestInv
<1>3. c.side \in {"BUY", "SELL"} /\ Positive(c.walk.shares)
  BY <1>2 DEF Trading, Sides
<1>4. Best(c.side, c.levels, DOMAIN c.levels, c.walk)
  BY <1>2, <1>3, EntryBest, ExitBest DEF Walked
<1>5. TakesBest(c)
  BY <1>3, <1>4 DEF Best, TakesBest, Beyond, At
<1> QED
  BY <1>1, <1>5

\* A fill is the best the visible book allows: every trade in hand, bought or
\* sold, by a bot or by hand, takes every level better than its limit, part of
\* its limit's depth, and stops only when it has enough or the book is exhausted.
THEOREM PaperBestPrices == Spec => []BestPrices
<1>1. Init => BestInv
  BY TypesInit DEF Init, BestInv, Idle
<1>2. BestInv /\ [Next]_vars => BestInv'
  BY BestNext
<1>3. BestInv => BestPrices
  BY BestHolds
<1> QED
  BY <1>1, <1>2, <1>3, PTL DEF Spec
=============================================================================
