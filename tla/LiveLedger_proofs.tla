-------------------------- MODULE LiveLedger_proofs --------------------------
(***************************************************************************)
(* The books of live trading.                                              *)
(*                                                                         *)
(* A loop that trades on paper never trades live, and all it does is what  *)
(* PaperTrading lets it do: the theorems of PaperTrading_proofs hold of    *)
(* the books that LiveLedger adds to (PaperLoopBooks).                     *)
(*                                                                         *)
(* Of a loop that trades live, LiveInv is inductive.  It says that the     *)
(* account has what the exchange says it sold (Backed), so that no balance *)
(* reads less than nothing, and that the position of a token that is not   *)
(* stale is Booked: it is Alike the replay of its rows, unless those       *)
(* overdraw it, and its profit less its cost is the money of its rows.     *)
(* Every handler appends or overwrites rows and moves the position by the  *)
(* same fill, or leaves the token stale; a reconciliation visits its rows  *)
(* one by one and rebuilds at its end.  What the dashboards make of the    *)
(* rows then follows by induction over the rows (SeqInd): each replay is a *)
(* fold, and one row more moves them all alike.                            *)
(***************************************************************************)
EXTENDS LiveLedger, PaperTrading_proofs

OnPaper == mode = "paper"

\* What a loop that trades on paper does is a step of PaperTrading or none.
LEMMA PaperStep ==
  ASSUME OnPaper, [LedgerNext]_ledgerVars
  PROVE  OnPaper' /\ [Next]_vars
<1>1. CASE PaperNext
  BY <1>1 DEF PaperNext, OnPaper, liveVars
<1>2. ASSUME NEW t \in Tokens, LiveBuy(t) \/ LiveSell(t) \/ LiveFetchBook(t) PROVE FALSE
  BY <1>2 DEF LiveBuy, LiveSell, LiveFetchBook, Live, OnPaper
<1>3. ASSUME NEW goesOn \in BOOLEAN, Reconcile(goesOn) PROVE FALSE
  BY <1>3 DEF Reconcile, Live, OnPaper
<1>4. CASE UNCHANGED ledgerVars
  BY <1>4 DEF ledgerVars, vars, OnPaper
<1> QED
  BY <1>1, <1>2, <1>3, <1>4 DEF LedgerNext

\* A loop that trades on paper is PaperTrading (_LIVE_CLIENT is None all along).
THEOREM PaperLoop == LedgerSpec /\ OnPaper => Spec /\ []OnPaper
<1>1. LedgerInit => Init
  BY DEF LedgerInit
<1> QED
  BY <1>1, PaperStep, PTL DEF LedgerSpec, Spec

\* So its books are right: no money appears or disappears, the table, the
\* dashboards' replays, the lots and the chart agree, and fills are the best.
THEOREM PaperLoopBooks ==
  LedgerSpec /\ OnPaper =>
    [](TypeOK /\ ViewsAgree /\ MoneyConserved /\ LotsAgree /\ ChartMatchesTile /\ BestPrices)
BY PaperLoop, PaperTypeCorrect, PaperViews, PaperMoney, PaperLots, PaperChart, PaperBestPrices, PTL

-----------------------------------------------------------------------------
(* Sums over lists of rows.                                                *)

\* What holds of the empty list, and of a list with one row more when it holds
\* of the list, holds of all lists.
LEMMA SeqInd ==
  ASSUME NEW D, NEW P, <<>> \in P, \A s \in Seq(D), x \in D : s \in P => Append(s, x) \in P
  PROVE  Seq(D) \subseteq P
<1> SUFFICES ASSUME NEW s \in Seq(D) PROVE s \in P
  OBVIOUS
<1>1. Len(s) \in Nat /\ \A j \in 0 .. Len(s) : SubSeq(s, 1, j) \in Seq(D)
  OBVIOUS
<1> DEFINE Q == {j \in Nat : SubSeq(s, 1, j) \in P}
<1>2. 0 \in Q
  <2>1. SubSeq(s, 1, 0) = <<>>
    OBVIOUS
  <2> QED
    BY <2>1
<1>3. ASSUME NEW j \in 1 .. Len(s), j - 1 \in Q PROVE j \in Q
  <2>1. SubSeq(s, 1, j) = Append(SubSeq(s, 1, j - 1), s[j]) /\ s[j] \in D
    OBVIOUS
  <2>2. SubSeq(s, 1, j - 1) \in Seq(D) /\ SubSeq(s, 1, j - 1) \in P /\ j \in Nat
    BY <1>1, <1>3
  <2> QED
    BY <2>1, <2>2
<1>4. Len(s) \in Q
  <2>1. Len(s) \in 0 .. Len(s)
    BY <1>1
  <2> HIDE DEF Q
  <2> QED
    BY <1>1, <1>2, <1>3, <2>1, Along
<1>5. SubSeq(s, 1, Len(s)) = s
  OBVIOUS
<1> QED
  BY <1>4, <1>5

\* The sum that a list makes of the values of its rows.
Valued(v, rows) == Total([i \in DOMAIN rows |-> v[rows[i]]])

\* It is nothing for no rows.
LEMMA ValuedNone == ASSUME NEW v PROVE Valued(v, <<>>) = Zero
<1>1. [i \in DOMAIN <<>> |-> v[<<>>[i]]] = <<>>
  OBVIOUS
<1> QED
  BY <1>1, TotalNothing DEF Valued

\* It is a fraction, nothing for no rows, and one row adds its value.
LEMMA ValuedAppend ==
  ASSUME NEW D, NEW v \in [D -> Frac], NEW rows \in Seq(D), NEW row \in D
  PROVE  /\ Valued(v, rows) \in Frac /\ Valued(v, <<>>) = Zero
         /\ Valued(v, Append(rows, row)) = Plus(Valued(v, rows), v[row])
<1>1. PICK n, more, a, b : /\ n = Len(rows) /\ more = Append(rows, row)
                           /\ a = [i \in DOMAIN rows |-> v[rows[i]]]
                           /\ b = [i \in DOMAIN more |-> v[more[i]]]
  OBVIOUS
<1>2. /\ n \in Nat /\ DOMAIN rows = 1 .. n /\ DOMAIN more = 1 .. (n + 1) /\ more[n + 1] = row
      /\ \A i \in 1 .. n : more[i] = rows[i] /\ rows[i] \in D
  BY <1>1
<1>3. a \in Seq(Frac) /\ Len(a) = n
  <2>1. a \in [1 .. n -> Frac]
    BY <1>1, <1>2
  <2> QED
    BY <1>2, <2>1
<1>4. PICK c : c = Append(a, v[row])
  OBVIOUS
<1>5. /\ c = [i \in 1 .. (n + 1) |-> c[i]] /\ c[n + 1] = v[row]
      /\ \A i \in 1 .. n : c[i] = a[i]
  BY <1>3, <1>4
<1>6. ASSUME NEW i \in 1 .. (n + 1) PROVE b[i] = c[i]
  <2>1. CASE i \in 1 .. n
    BY <1>1, <1>2, <1>5, <2>1
  <2>2. CASE i = n + 1
    BY <1>1, <1>2, <1>5, <2>2
  <2> QED
    BY <1>2, <2>1, <2>2
<1>7. b = c
  <2>1. b = [i \in 1 .. (n + 1) |-> b[i]]
    BY <1>1, <1>2
  <2> QED
    BY <1>5, <1>6, <2>1
<1>8. Total(b) = Plus(Total(a), v[row]) /\ Total(a) \in Frac
  BY <1>3, <1>4, <1>7, TotalAppend, TotalIn
<1>9. Valued(v, <<>>) = Zero
  <2>1. [i \in DOMAIN <<>> |-> v[<<>>[i]]] = <<>>
    OBVIOUS
  <2> QED
    BY <2>1, TotalNothing DEF Valued
<1> QED
  BY <1>1, <1>8, <1>9 DEF Valued

\* A list of rows has as many as another, and only other values.
LEMMA ValuedSame ==
  ASSUME NEW v, NEW w, NEW r, NEW s, DOMAIN r = DOMAIN s, \A i \in DOMAIN r : v[r[i]] = w[s[i]]
  PROVE  Valued(v, r) = Valued(w, s)
<1>1. [i \in DOMAIN r |-> v[r[i]]] = [i \in DOMAIN s |-> w[s[i]]]
  OBVIOUS
<1> QED
  BY <1>1 DEF Valued

-----------------------------------------------------------------------------
(* What the tables hold.                                                   *)

\* What live_orders holds.  What the exchange filled of an order was asked for,
\* and an adjustment is a loss of shares that no order stands behind.
LiveSides == {"BUY", "SELL", "RECONCILE_SELL"}
Amounted  == [shares : Amounts, usd : Amounts]
Fills     == [shares : Amounts, usd : Amounts, price : Amounts]
Asked(row) == Positive(row.real.shares) => Positive(row.asked.shares)
Adjusts(row) ==
  row.side = "RECONCILE_SELL" =>
    /\ row.real = Unknown /\ row.asked = Unknown /\ row.limit = Zero
    /\ row.fill.usd = Zero /\ row.fill.price = Zero
LiveRows ==
  {row \in [token : Tokens, side : LiveSides, status : {"open", "filled", "closed"}, fill : Fills,
            asked : Amounted, limit : Amounts, real : Amounted] : Asked(row) /\ Adjusts(row)}

\* The fields of a row.
LEMMA LiveRowType ==
  ASSUME NEW row \in LiveRows
  PROVE  /\ row.token \in Tokens /\ row.side \in LiveSides
         /\ row.status \in {"open", "filled", "closed"} /\ row.fill \in Fills
         /\ row.asked \in Amounted /\ row.limit \in Amounts /\ row.real \in Amounted
         /\ row.fill.shares \in Amounts /\ row.fill.usd \in Amounts /\ row.fill.price \in Amounts
         /\ row.fill.shares \in Frac /\ row.fill.usd \in Frac /\ row.fill.price \in Frac
         /\ Asked(row) /\ Adjusts(row)
<1>1. row.fill \in Fills
  BY DEF LiveRows
<1>2. /\ row.fill.shares \in Amounts /\ row.fill.usd \in Amounts /\ row.fill.price \in Amounts
  BY <1>1 DEF Fills
<1> QED
  BY <1>1, <1>2 DEF LiveRows, Amounts

\* What is left of an amount is one, and no more than it.
LEMMA RestType ==
  ASSUME NEW a \in Amounts, NEW b \in Amounts
  PROVE  /\ Rest(a, b) \in Amounts
         /\ Rest(a, b) = Minus(a, Smaller(b, a))
         /\ AtMost(b, a) => Rest(a, b) = Minus(a, b)
<1>1. a \in Frac /\ b \in Frac
  BY DEF Amounts
<1>2. CASE AtMost(a, b)
  <2>1. Rest(a, b) = Zero /\ Zero \in Amounts /\ Minus(a, a) = Zero
    BY <1>1, <1>2, NothingType, Sums DEF Rest
  <2>2. AtMost(b, a) => b = a
    BY <1>1, <1>2, Ordering
  <2>3. Smaller(b, a) = a
    BY <2>2 DEF Smaller
  <2> QED
    BY <2>1, <2>2, <2>3
<1>3. CASE ~AtMost(a, b)
  <2>1. AtMost(b, a)
    BY <1>1, <1>3, Ordering
  <2>2. Rest(a, b) = Minus(a, b) /\ Minus(a, b) \in Amounts
    BY <1>3, <2>1, AmountLaws DEF Rest
  <2> QED
    BY <2>1, <2>2 DEF Smaller
<1> QED
  BY <1>2, <1>3

\* A fill on top of a position, one of the two not empty, makes a position,
LEMMA BoughtOn ==
  ASSUME NEW pos \in Positions, NEW fill, fill.shares \in Amounts, fill.usd \in Amounts,
         Positive(Plus(pos.shares, fill.shares))
  PROVE  /\ Bought(pos, fill) \in Positions
         /\ Bought(pos, fill).shares = Plus(pos.shares, fill.shares)
         /\ Bought(pos, fill).realized = pos.realized
         /\ Cost(Bought(pos, fill)) = Plus(Cost(pos), fill.usd)
<1>1. pos.shares \in Amounts /\ pos.avg \in Amounts /\ pos.realized \in Frac
  BY DEF Positions
<1> DEFINE shares == Plus(pos.shares, fill.shares)
           spent == Plus(Times(pos.avg, pos.shares), fill.usd)
<1>2. shares \in Amounts /\ Positive(shares)
  BY <1>1, AmountLaws
<1>3. Times(pos.avg, pos.shares) \in Amounts /\ Times(pos.avg, pos.shares) = Cost(pos)
  BY <1>1, AmountLaws, Products DEF Cost, Amounts
<1>4. spent \in Amounts
  BY <1>3, AmountLaws
<1>5. Over(spent, shares) \in Amounts
  BY <1>2, <1>4, AmountLaws
<1>6. Times(shares, Over(spent, shares)) = spent
  BY <1>2, <1>4, Quotients DEF Amounts
<1>7. Bought(pos, fill) = [shares |-> shares, realized |-> pos.realized, avg |-> Over(spent, shares)]
  BY DEF Bought
<1> QED
  BY <1>1, <1>2, <1>3, <1>5, <1>6, <1>7 DEF Positions, Cost

\* and so does a sale.
LEMMA LiveSoldType ==
  ASSUME NEW pos \in Positions, NEW fill, fill.shares \in Amounts, fill.usd \in Amounts
  PROVE  LiveSold(pos, fill) \in Positions
<1>1. /\ pos.shares \in Amounts /\ pos.avg \in Amounts /\ pos.realized \in Frac
      /\ pos.avg \in Frac /\ fill.shares \in Frac /\ fill.usd \in Frac
  BY DEF Positions, Amounts
<1>2. Rest(pos.shares, fill.shares) \in Amounts
  BY <1>1, RestType
<1>3. Plus(pos.realized, Minus(fill.usd, Times(fill.shares, pos.avg))) \in Frac
  BY <1>1, Closed
<1> QED
  BY <1>1, <1>2, <1>3 DEF LiveSold, Positions

\* A write-off makes one,
LEMMA WrittenOffType ==
  ASSUME NEW pos \in Positions, NEW missing \in Amounts
  PROVE  WrittenOff(pos, missing) \in Positions
<1>1. /\ pos.shares \in Amounts /\ pos.avg \in Amounts /\ pos.realized \in Frac
      /\ pos.avg \in Frac /\ missing \in Frac
  BY DEF Positions, Amounts
<1>2. PICK left, avg : left = Rest(pos.shares, missing) /\ avg = IF Positive(left) THEN pos.avg ELSE Zero
  OBVIOUS
<1>3. left \in Amounts /\ avg \in Amounts
  BY <1>1, <1>2, RestType, NothingType
<1>4. Minus(pos.realized, Times(missing, pos.avg)) \in Frac
  BY <1>1, Closed
<1>5. WrittenOff(pos, missing) =
        [shares |-> left, avg |-> avg, realized |-> Minus(pos.realized, Times(missing, pos.avg))]
  BY <1>2 DEF WrittenOff
<1> QED
  BY <1>3, <1>4, <1>5 DEF Positions

\* The money of a row is an amount; for all its shares it is their money, and
\* an adjustment has none.
LEMMA NotionalType ==
  ASSUME NEW row \in LiveRows, NEW n \in Amounts
  PROVE  /\ Notional(row, n) \in Amounts
         /\ Positive(row.fill.usd) => Notional(row, n) = row.fill.usd
         /\ ~Positive(row.fill.usd) /\ AtMost(row.fill.shares, n) =>
              Notional(row, n) = Times(row.fill.price, row.fill.shares)
         /\ row.side = "RECONCILE_SELL" => Notional(row, n) = Zero
<1>1. /\ row.fill.shares \in Amounts /\ row.fill.usd \in Amounts /\ row.fill.price \in Amounts
      /\ row.fill.shares \in Frac /\ row.fill.price \in Frac /\ n \in Frac
  BY LiveRowType DEF Amounts
<1>2. PICK m : m = Smaller(row.fill.shares, n)
  OBVIOUS
<1>3. m \in Amounts /\ m \in Frac
  BY <1>1, <1>2, AmountLaws DEF Amounts
<1>4. Times(m, row.fill.price) \in Amounts
  BY <1>1, <1>3, AmountLaws
<1>5. Notional(row, n) = IF Positive(row.fill.usd) THEN row.fill.usd ELSE Times(m, row.fill.price)
  BY <1>2 DEF Notional
<1>6. AtMost(row.fill.shares, n) => m = row.fill.shares
  BY <1>2 DEF Smaller
<1>7. Times(row.fill.shares, row.fill.price) = Times(row.fill.price, row.fill.shares)
  BY <1>1, Products
<1>8. ASSUME row.side = "RECONCILE_SELL" PROVE Notional(row, n) = Zero
  <2>1. row.fill.usd = Zero /\ row.fill.price = Zero
    BY <1>8, LiveRowType DEF Adjusts
  <2>2. ~Positive(row.fill.usd) /\ Times(m, Zero) = Zero
    BY <1>3, <2>1, NothingType, Ordering, Products
  <2> QED
    BY <1>5, <2>1, <2>2
<1> QED
  BY <1>1, <1>4, <1>5, <1>6, <1>7, <1>8

-----------------------------------------------------------------------------
(* What a row does to a position.                                          *)

\* A sale of n shares for this money leaves of one position the other.
Taken(pos, after, n, money) ==
  /\ after.shares = Minus(pos.shares, n)
  /\ after.realized = Plus(pos.realized, Minus(money, Times(n, pos.avg)))
  /\ Positive(after.shares) => after.avg = pos.avg

\* A purchase makes of one position the other.
Added(pos, after, n, money) ==
  /\ Positive(n) \/ Positive(pos.shares)
  /\ after = Bought(pos, [shares |-> n, usd |-> money])

\* What the dashboard and the rebuild make of a row: the same, but for the
\* money of a sale.
LEMMA ReplayedRow ==
  ASSUME NEW pos \in Positions, NEW row \in LiveRows, Positive(row.fill.shares),
         NEW n, n = Smaller(row.fill.shares, pos.shares)
  PROVE  /\ n \in Amounts /\ AtMost(n, pos.shares)
         /\ LiveReplayRow(pos, row) \in Positions /\ RebuildRow(pos, row) \in Positions
         /\ row.side = "BUY" =>
              /\ Added(pos, LiveReplayRow(pos, row), row.fill.shares, Notional(row, row.fill.shares))
              /\ Added(pos, RebuildRow(pos, row), row.fill.shares, Notional(row, row.fill.shares))
         /\ row.side # "BUY" =>
              /\ Taken(pos, LiveReplayRow(pos, row), n, Notional(row, n))
              /\ Taken(pos, RebuildRow(pos, row), n, Notional(row, row.fill.shares))
<1>1. /\ row.fill.shares \in Amounts /\ row.fill.shares \in Frac
      /\ pos.shares \in Amounts /\ pos.avg \in Amounts /\ pos.realized \in Frac
      /\ pos.shares \in Frac /\ pos.avg \in Frac
  BY LiveRowType DEF Positions, Amounts
<1>2. n \in Amounts /\ n \in Frac /\ AtMost(n, pos.shares)
  BY <1>1, AmountLaws, Smallers DEF Amounts
<1>3. PICK u, w : u = Notional(row, row.fill.shares) /\ w = Notional(row, n)
  OBVIOUS
<1>4. u \in Amounts /\ w \in Amounts /\ u \in Frac /\ w \in Frac
  BY <1>1, <1>2, <1>3, NotionalType DEF Amounts
<1>5. u = IF Positive(row.fill.usd) THEN row.fill.usd ELSE Times(row.fill.price, row.fill.shares)
  <2>1. AtMost(row.fill.shares, row.fill.shares)
    BY <1>1, Ordering
  <2> QED
    BY <1>1, <1>3, <2>1, NotionalType
<1>6. CASE row.side = "BUY"
  <2>1. PICK fill : fill = [shares |-> row.fill.shares, usd |-> u]
    OBVIOUS
  <2>2. LiveReplayRow(pos, row) = Bought(pos, fill) /\ RebuildRow(pos, row) = Bought(pos, fill)
    BY <1>3, <1>5, <1>6, <2>1 DEF LiveReplayRow, RebuildRow
  <2>3. Positive(Plus(pos.shares, row.fill.shares))
    BY <1>1, AmountLaws
  <2>4. fill.shares \in Amounts /\ fill.usd \in Amounts /\ Positive(Plus(pos.shares, fill.shares))
    BY <1>1, <1>4, <2>1, <2>3
  <2>5. Bought(pos, fill) \in Positions
    BY <2>4, BoughtOn
  <2> QED
    BY <1>2, <1>3, <1>6, <2>1, <2>2, <2>5 DEF Added
<1>7. CASE row.side # "BUY"
  <2>1. PICK left, avg, got, made : /\ left = Minus(pos.shares, n)
                                    /\ avg = IF Positive(left) THEN pos.avg ELSE Zero
                                    /\ got = Plus(pos.realized, Minus(w, Times(n, pos.avg)))
                                    /\ made = Plus(pos.realized, Minus(u, Times(n, pos.avg)))
    OBVIOUS
  <2>2. left \in Amounts /\ avg \in Amounts
    BY <1>1, <1>2, <2>1, AmountLaws, NothingType
  <2>3. got \in Frac /\ made \in Frac
    BY <1>1, <1>2, <1>4, <2>1, Closed
  <2>4. LiveReplayRow(pos, row) = [shares |-> left, avg |-> avg, realized |-> got]
    BY <1>3, <1>7, <2>1 DEF LiveReplayRow
  <2>5. RebuildRow(pos, row) = [shares |-> left, avg |-> pos.avg, realized |-> made]
    BY <1>5, <1>7, <2>1 DEF RebuildRow
  <2> QED
    BY <1>1, <1>2, <1>3, <1>7, <2>1, <2>2, <2>3, <2>4, <2>5 DEF Taken, Positions
<1> QED
  BY <1>6, <1>7

\* Sales of the same shares for the same money keep positions alike.
LEMMA TakenAlike ==
  ASSUME NEW v \in Positions, NEW pos \in Positions, NEW w, NEW after, Alike(v, pos),
         NEW n \in Amounts, AtMost(n, v.shares), NEW money,
         Taken(v, w, n, money), Taken(pos, after, n, money)
  PROVE  Alike(w, after)
<1>1. /\ v.shares \in Amounts /\ v.shares \in Frac /\ v.avg \in Frac /\ pos.avg \in Frac /\ n \in Frac
      /\ v.shares = pos.shares /\ v.realized = pos.realized
  BY DEF Positions, Amounts, Alike
<1>2. CASE Positive(v.shares)
  BY <1>1, <1>2 DEF Alike, Taken
<1>3. CASE v.shares = Zero
  <2>1. n = Zero
    BY <1>1, <1>3, Ordering DEF Amounts
  <2>2. Times(n, v.avg) = Zero /\ Times(n, pos.avg) = Zero
    BY <1>1, <2>1, Products
  <2>3. w.shares = Zero /\ after.shares = Zero
    BY <1>1, <1>3, <2>1, Sums DEF Taken
  <2> QED
    BY <1>1, <2>2, <2>3, NothingType, Ordering DEF Alike, Taken
<1> QED
  BY <1>1, <1>2, <1>3, AmountLaws

\* So do purchases.
LEMMA AddedAlike ==
  ASSUME NEW v \in Positions, NEW pos \in Positions, NEW w, NEW after, Alike(v, pos),
         NEW n, NEW money, Added(v, w, n, money), Added(pos, after, n, money)
  PROVE  Alike(w, after)
<1>1. /\ v.shares \in Frac /\ v.avg \in Frac /\ pos.avg \in Frac /\ pos.shares \in Frac
      /\ v.shares = pos.shares /\ v.realized = pos.realized
  BY DEF Positions, Amounts, Alike
<1>2. Times(v.avg, v.shares) = Times(pos.avg, pos.shares)
  <2>1. Cost(v) = Cost(pos)
    BY AlikeCost
  <2> QED
    BY <1>1, <2>1, Products DEF Cost
<1>3. Bought(v, [shares |-> n, usd |-> money]) = Bought(pos, [shares |-> n, usd |-> money])
  BY <1>1, <1>2 DEF Bought
<1> QED
  BY <1>3 DEF Added, Alike

\* A sale moves the profit less the cost of what is held by its money,
LEMMA TakenCost ==
  ASSUME NEW pos \in Positions, NEW after \in Positions, NEW n \in Amounts,
         NEW money \in Frac, Taken(pos, after, n, money)
  PROVE  Minus(after.realized, Cost(after)) = Plus(Minus(pos.realized, Cost(pos)), money)
<1>1. /\ pos.shares \in Frac /\ pos.avg \in Frac /\ pos.realized \in Frac /\ n \in Frac
      /\ after.shares \in Amounts /\ after.shares \in Frac /\ after.avg \in Frac
  BY DEF Positions, Amounts
<1>2. PICK s, m : s = Times(n, pos.avg) /\ m = Times(Minus(pos.shares, n), pos.avg)
  OBVIOUS
<1>3. s \in Frac /\ m \in Frac /\ Cost(pos) \in Frac
  BY <1>1, <1>2, Closed DEF Cost
<1>4. Cost(after) = m
  <2>1. after.shares = Minus(pos.shares, n)
    BY DEF Taken
  <2>2. CASE Positive(after.shares)
    BY <1>2, <2>1, <2>2 DEF Taken, Cost
  <2>3. CASE after.shares = Zero
    BY <1>1, <1>2, <2>1, <2>3, Products DEF Cost
  <2> QED
    BY <1>1, <2>2, <2>3, AmountLaws
<1>5. Cost(pos) = Plus(s, m)
  <2>1. m = Minus(Cost(pos), s)
    BY <1>1, <1>2, Products DEF Cost
  <2> QED
    BY <1>3, <2>1, Sums
<1>6. Minus(Plus(pos.realized, Minus(money, s)), m) = Plus(Minus(pos.realized, Plus(s, m)), money)
  BY <1>1, <1>3, SoldLaw
<1> QED
  BY <1>2, <1>4, <1>5, <1>6 DEF Taken

\* and a purchase by its money with the sign changed.
LEMMA AddedCost ==
  ASSUME NEW pos \in Positions, NEW after, NEW n \in Amounts, NEW money \in Amounts,
         Added(pos, after, n, money)
  PROVE  /\ after \in Positions
         /\ Minus(after.realized, Cost(after)) =
              Plus(Minus(pos.realized, Cost(pos)), Minus(Zero, money))
<1>1. PICK fill : fill = [shares |-> n, usd |-> money]
  OBVIOUS
<1>2. pos.shares \in Amounts /\ pos.avg \in Frac /\ pos.realized \in Frac /\ pos.shares \in Frac
  BY DEF Positions, Amounts
<1>3. Positive(Plus(pos.shares, n)) /\ money \in Frac /\ Cost(pos) \in Frac
  BY <1>2, AmountLaws, Closed DEF Added, Cost, Amounts
<1>4. /\ Bought(pos, fill) \in Positions /\ Bought(pos, fill).realized = pos.realized
      /\ Cost(Bought(pos, fill)) = Plus(Cost(pos), money)
  BY <1>1, <1>3, BoughtOn
<1>5. after = Bought(pos, fill)
  BY <1>1 DEF Added
<1> QED
  BY <1>2, <1>3, <1>4, <1>5, LessIsLoss

-----------------------------------------------------------------------------
(* The replay and the rebuild, row by row.                                 *)

\* What a row does to the view and to the rebuild of a token.
LiveStep(t, pos, row)    == IF Filling(t, row) THEN LiveReplayRow(pos, row) ELSE pos
RebuildStep(t, pos, row) == IF Filling(t, row) THEN RebuildRow(pos, row) ELSE pos

\* They stay positions.
LEMMA LiveStepType ==
  ASSUME NEW t, NEW pos \in Positions, NEW row \in LiveRows
  PROVE  LiveStep(t, pos, row) \in Positions /\ RebuildStep(t, pos, row) \in Positions
BY ReplayedRow DEF LiveStep, RebuildStep, Filling, Filled

\* The live view of a token, row by row.
LEMMA LiveViewFold ==
  ASSUME NEW t, NEW s \in Seq(LiveRows)
  PROVE  \E g : /\ g[0] = Nothing /\ LiveView(t, s) = g[Len(s)]
                /\ \A j \in 1 .. Len(s) : g[j] = LiveStep(t, g[j - 1], s[j])
<1> DEFINE n == Len(s)
           T == 1 .. n
           W == Positions
           b == Nothing
           last == [S \in SUBSET T |-> Max(S)]
           G == [x \in W \X T |-> LiveStep(t, x[1], s[x[2]])]
           Fold(f) == [S \in SUBSET T |-> IF S = {} THEN b ELSE LiveStep(t, f[S \ {Max(S)}], s[Max(S)])]
<1>1. /\ n \in Nat /\ DOMAIN s = T /\ IsFiniteSet(T) /\ b \in W
      /\ \A S \in (SUBSET T) \ {{}} : Max(S) \in S
  <2>1. n \in Nat /\ DOMAIN s = T /\ b \in W
    BY NothingType
  <2> QED
    BY <2>1, Segments
<1>2. \A w \in W, i \in T : LiveStep(t, w, s[i]) \in W
  BY LiveStepType
<1>3. G \in [W \X T -> W] /\ \A w \in W, i \in T : G[<<w, i>>] = LiveStep(t, w, s[i])
  BY <1>2
<1>4. PICK f : Folding(f, T, W, b, last, G)
  <2> HIDE DEF T, W, b, G
  <2>1. \A S \in (SUBSET T) \ {{}} : last[S] \in S
    BY <1>1
  <2> HIDE DEF last
  <2>2. Foldable(T, W, b, last, G)
    BY <1>1, <1>3, <2>1 DEF Foldable
  <2> QED
    BY <2>2, FoldExists
<1>5. f = Fold(f)
  <2> HIDE DEF W, T, b, G
  <2>1. ASSUME NEW S \in SUBSET T PROVE f[S] = Fold(f)[S]
    <3>1. f[S] = IF S = {} THEN b ELSE G[<<f[S \ {last[S]}], last[S]>>]
      BY <1>4 DEF Folding
    <3>2. CASE S = {}
      BY <3>1, <3>2
    <3>3. CASE S # {}
      <4>1. last[S] = Max(S) /\ Max(S) \in T /\ f[S \ {Max(S)}] \in W
        BY <1>1, <1>4, <3>3 DEF Folding
      <4>2. f[S] = LiveStep(t, f[S \ {Max(S)}], s[Max(S)])
        BY <1>3, <3>1, <3>3, <4>1
      <4> QED
        BY <3>3, <4>2
    <3> QED
      BY <3>2, <3>3
  <2> QED
    BY <1>4, <2>1 DEF Folding
<1> DEFINE iter == CHOOSE g : g = Fold(g)
<1>6. iter = Fold(iter)
  BY <1>5
<1>7. LiveView(t, s) = iter[T]
  <2>1. LiveView(t, s) = iter[DOMAIN s]
    BY <1>1, Zenon DEF LiveView, LiveStep, FoldLeft, MapThenFoldSet
  <2> QED
    BY <1>1, <2>1
<1> HIDE DEF iter
<1> DEFINE g == [j \in 0 .. n |-> iter[1 .. j]]
<1>8. g[0] = Nothing /\ LiveView(t, s) = g[n]
  <2>1. 1 .. 0 = {} /\ 1 .. 0 \in SUBSET T /\ T \in SUBSET T
    OBVIOUS
  <2>2. iter[1 .. 0] = Nothing
    BY <1>6, <2>1
  <2> QED
    BY <1>1, <1>7, <2>2
<1>9. ASSUME NEW j \in 1 .. n PROVE g[j] = LiveStep(t, g[j - 1], s[j])
  <2>1. /\ 1 .. j # {} /\ Max(1 .. j) = j /\ (1 .. j) \ {j} = 1 .. (j - 1)
        /\ 1 .. j \in SUBSET T
    BY <1>1, Segments
  <2>2. iter[1 .. j] = LiveStep(t, iter[1 .. (j - 1)], s[j])
    BY <1>6, <2>1
  <2> QED
    BY <1>1, <2>2
<1> QED
  <2> HIDE DEF g
  <2> QED
    BY <1>8, <1>9

\* It is a position, empty for no rows, and a row is replayed on it.
LEMMA LiveViewIs ==
  ASSUME NEW t, NEW s \in Seq(LiveRows), NEW x \in LiveRows
  PROVE  /\ LiveView(t, s) \in Positions
         /\ LiveView(t, <<>>) = Nothing
         /\ LiveView(t, Append(s, x)) = LiveStep(t, LiveView(t, s), x)
<1>1. PICK g : /\ g[0] = Nothing /\ LiveView(t, s) = g[Len(s)]
               /\ \A j \in 1 .. Len(s) : g[j] = LiveStep(t, g[j - 1], s[j])
  BY LiveViewFold
<1> DEFINE P == {j \in Nat : g[j] \in Positions}
<1>2. 0 \in P
  BY <1>1, NothingType
<1>3. ASSUME NEW j \in 1 .. Len(s), j - 1 \in P PROVE j \in P
  <2>1. s[j] \in LiveRows /\ g[j - 1] \in Positions
    BY <1>3
  <2> QED
    BY <1>1, <2>1, LiveStepType
<1>4. Len(s) \in Nat /\ Len(s) \in 0 .. Len(s)
  OBVIOUS
<1>5. Len(s) \in P
  <2> HIDE DEF P
  <2> QED
    BY <1>2, <1>3, <1>4, Along
<1>6. LiveView(t, <<>>) = Nothing
  <2>1. <<>> \in Seq(LiveRows) /\ Len(<<>>) = 0
    OBVIOUS
  <2> QED
    BY <2>1, LiveViewFold
<1> DEFINE r == Append(s, x)
<1>7. /\ r \in Seq(LiveRows) /\ Len(r) = Len(s) + 1 /\ r[Len(s) + 1] = x
      /\ \A j \in 1 .. Len(s) : r[j] = s[j]
  OBVIOUS
<1> HIDE DEF r
<1>8. PICK h : /\ h[0] = Nothing /\ LiveView(t, r) = h[Len(r)]
               /\ \A j \in 1 .. Len(r) : h[j] = LiveStep(t, h[j - 1], r[j])
  BY <1>7, LiveViewFold
<1>9. \A j \in 1 .. Len(s) : j \in 1 .. Len(r)
  BY <1>4, <1>7
<1>10. \A j \in 1 .. Len(s) : g[j - 1] = h[j - 1] => g[j] = h[j]
  BY <1>1, <1>7, <1>8, <1>9
<1>11. g[Len(s)] = h[Len(s)]
  BY <1>1, <1>4, <1>8, <1>10, SamePrefix
<1>12. Len(r) \in 1 .. Len(r) /\ Len(r) - 1 = Len(s)
  BY <1>4, <1>7
<1>13. h[Len(r)] = LiveStep(t, h[Len(s)], r[Len(r)])
  BY <1>8, <1>12
<1> QED
  BY <1>1, <1>5, <1>6, <1>7, <1>8, <1>11, <1>13 DEF r

\* The rebuild of a token, row by row.
LEMMA RebuiltFold ==
  ASSUME NEW t, NEW s \in Seq(LiveRows)
  PROVE  \E g : /\ g[0] = Nothing /\ Rebuilt(t, s) = g[Len(s)]
                /\ \A j \in 1 .. Len(s) : g[j] = RebuildStep(t, g[j - 1], s[j])
<1> DEFINE n == Len(s)
           T == 1 .. n
           W == Positions
           b == Nothing
           last == [S \in SUBSET T |-> Max(S)]
           G == [x \in W \X T |-> RebuildStep(t, x[1], s[x[2]])]
           Fold(f) == [S \in SUBSET T |-> IF S = {} THEN b ELSE RebuildStep(t, f[S \ {Max(S)}], s[Max(S)])]
<1>1. /\ n \in Nat /\ DOMAIN s = T /\ IsFiniteSet(T) /\ b \in W
      /\ \A S \in (SUBSET T) \ {{}} : Max(S) \in S
  <2>1. n \in Nat /\ DOMAIN s = T /\ b \in W
    BY NothingType
  <2> QED
    BY <2>1, Segments
<1>2. \A w \in W, i \in T : RebuildStep(t, w, s[i]) \in W
  BY LiveStepType
<1>3. G \in [W \X T -> W] /\ \A w \in W, i \in T : G[<<w, i>>] = RebuildStep(t, w, s[i])
  BY <1>2
<1>4. PICK f : Folding(f, T, W, b, last, G)
  <2> HIDE DEF T, W, b, G
  <2>1. \A S \in (SUBSET T) \ {{}} : last[S] \in S
    BY <1>1
  <2> HIDE DEF last
  <2>2. Foldable(T, W, b, last, G)
    BY <1>1, <1>3, <2>1 DEF Foldable
  <2> QED
    BY <2>2, FoldExists
<1>5. f = Fold(f)
  <2> HIDE DEF W, T, b, G
  <2>1. ASSUME NEW S \in SUBSET T PROVE f[S] = Fold(f)[S]
    <3>1. f[S] = IF S = {} THEN b ELSE G[<<f[S \ {last[S]}], last[S]>>]
      BY <1>4 DEF Folding
    <3>2. CASE S = {}
      BY <3>1, <3>2
    <3>3. CASE S # {}
      <4>1. last[S] = Max(S) /\ Max(S) \in T /\ f[S \ {Max(S)}] \in W
        BY <1>1, <1>4, <3>3 DEF Folding
      <4>2. f[S] = RebuildStep(t, f[S \ {Max(S)}], s[Max(S)])
        BY <1>3, <3>1, <3>3, <4>1
      <4> QED
        BY <3>3, <4>2
    <3> QED
      BY <3>2, <3>3
  <2> QED
    BY <1>4, <2>1 DEF Folding
<1> DEFINE iter == CHOOSE g : g = Fold(g)
<1>6. iter = Fold(iter)
  BY <1>5
<1>7. Rebuilt(t, s) = iter[T]
  <2>1. Rebuilt(t, s) = iter[DOMAIN s]
    BY <1>1, Zenon DEF Rebuilt, RebuildStep, FoldLeft, MapThenFoldSet
  <2> QED
    BY <1>1, <2>1
<1> HIDE DEF iter
<1> DEFINE g == [j \in 0 .. n |-> iter[1 .. j]]
<1>8. g[0] = Nothing /\ Rebuilt(t, s) = g[n]
  <2>1. 1 .. 0 = {} /\ 1 .. 0 \in SUBSET T /\ T \in SUBSET T
    OBVIOUS
  <2>2. iter[1 .. 0] = Nothing
    BY <1>6, <2>1
  <2> QED
    BY <1>1, <1>7, <2>2
<1>9. ASSUME NEW j \in 1 .. n PROVE g[j] = RebuildStep(t, g[j - 1], s[j])
  <2>1. /\ 1 .. j # {} /\ Max(1 .. j) = j /\ (1 .. j) \ {j} = 1 .. (j - 1)
        /\ 1 .. j \in SUBSET T
    BY <1>1, Segments
  <2>2. iter[1 .. j] = RebuildStep(t, iter[1 .. (j - 1)], s[j])
    BY <1>6, <2>1
  <2> QED
    BY <1>1, <2>2
<1> QED
  <2> HIDE DEF g
  <2> QED
    BY <1>8, <1>9

\* It is a position, empty for no rows, and a row is applied to it.
LEMMA RebuiltIs ==
  ASSUME NEW t, NEW s \in Seq(LiveRows), NEW x \in LiveRows
  PROVE  /\ Rebuilt(t, s) \in Positions
         /\ Rebuilt(t, <<>>) = Nothing
         /\ Rebuilt(t, Append(s, x)) = RebuildStep(t, Rebuilt(t, s), x)
<1>1. PICK g : /\ g[0] = Nothing /\ Rebuilt(t, s) = g[Len(s)]
               /\ \A j \in 1 .. Len(s) : g[j] = RebuildStep(t, g[j - 1], s[j])
  BY RebuiltFold
<1> DEFINE P == {j \in Nat : g[j] \in Positions}
<1>2. 0 \in P
  BY <1>1, NothingType
<1>3. ASSUME NEW j \in 1 .. Len(s), j - 1 \in P PROVE j \in P
  <2>1. s[j] \in LiveRows /\ g[j - 1] \in Positions
    BY <1>3
  <2> QED
    BY <1>1, <2>1, LiveStepType
<1>4. Len(s) \in Nat /\ Len(s) \in 0 .. Len(s)
  OBVIOUS
<1>5. Len(s) \in P
  <2> HIDE DEF P
  <2> QED
    BY <1>2, <1>3, <1>4, Along
<1>6. Rebuilt(t, <<>>) = Nothing
  <2>1. <<>> \in Seq(LiveRows) /\ Len(<<>>) = 0
    OBVIOUS
  <2> QED
    BY <2>1, RebuiltFold
<1> DEFINE r == Append(s, x)
<1>7. /\ r \in Seq(LiveRows) /\ Len(r) = Len(s) + 1 /\ r[Len(s) + 1] = x
      /\ \A j \in 1 .. Len(s) : r[j] = s[j]
  OBVIOUS
<1> HIDE DEF r
<1>8. PICK h : /\ h[0] = Nothing /\ Rebuilt(t, r) = h[Len(r)]
               /\ \A j \in 1 .. Len(r) : h[j] = RebuildStep(t, h[j - 1], r[j])
  BY <1>7, RebuiltFold
<1>9. \A j \in 1 .. Len(s) : j \in 1 .. Len(r)
  BY <1>4, <1>7
<1>10. \A j \in 1 .. Len(s) : g[j - 1] = h[j - 1] => g[j] = h[j]
  BY <1>1, <1>7, <1>8, <1>9
<1>11. g[Len(s)] = h[Len(s)]
  BY <1>1, <1>4, <1>8, <1>10, SamePrefix
<1>12. Len(r) \in 1 .. Len(r) /\ Len(r) - 1 = Len(s)
  BY <1>4, <1>7
<1>13. h[Len(r)] = RebuildStep(t, h[Len(s)], r[Len(r)])
  BY <1>8, <1>12
<1> QED
  BY <1>1, <1>5, <1>6, <1>7, <1>8, <1>11, <1>13 DEF r

-----------------------------------------------------------------------------
(* The replay and the rebuild make the same of rows that do not overdraw.  *)

\* A sale told without its money is of more than the view has.
Draws(t, view, row) ==
  /\ Filling(t, row) /\ row.side = "SELL" /\ ~Positive(row.fill.usd)
  /\ ~AtMost(row.fill.shares, view.shares)

\* These rows overdraw a token.
OverIn(t, rows) == \E k \in DOMAIN rows : Draws(t, LiveView(t, SubSeq(rows, 1, k - 1)), rows[k])

\* What a row more does to that.
LEMMA OverAppend ==
  ASSUME NEW t, NEW s \in Seq(LiveRows), NEW x \in LiveRows
  PROVE  /\ ~OverIn(t, <<>>)
         /\ OverIn(t, Append(s, x)) <=> OverIn(t, s) \/ Draws(t, LiveView(t, s), x)
<1>1. PICK n, r : n = Len(s) /\ r = Append(s, x)
  OBVIOUS
<1>2. /\ n \in Nat /\ DOMAIN s = 1 .. n /\ DOMAIN r = 1 .. (n + 1) /\ r[n + 1] = x
      /\ \A k \in 1 .. n : r[k] = s[k]
  BY <1>1
<1>3. \A k \in 1 .. n : SubSeq(r, 1, k - 1) = SubSeq(s, 1, k - 1)
  <2> TAKE k \in 1 .. n
  <2>1. /\ SubSeq(r, 1, k - 1) = [i \in 1 .. (k - 1) |-> r[i]]
        /\ SubSeq(s, 1, k - 1) = [i \in 1 .. (k - 1) |-> s[i]]
    BY <1>1, <1>2
  <2>2. \A i \in 1 .. (k - 1) : i \in 1 .. n
    BY <1>2
  <2> QED
    BY <1>2, <2>1, <2>2
<1>4. SubSeq(r, 1, (n + 1) - 1) = s
  <2>1. SubSeq(r, 1, n) = [i \in 1 .. n |-> r[i]]
    BY <1>1, <1>2
  <2>2. s = [i \in 1 .. n |-> s[i]]
    BY <1>1
  <2>3. (n + 1) - 1 = n
    BY <1>2
  <2> QED
    BY <1>2, <2>1, <2>2, <2>3
<1>5. \A k \in 1 .. (n + 1) : k \in 1 .. n \/ k = n + 1
  BY <1>2
<1>6. \A k \in 1 .. n : k \in 1 .. (n + 1) /\ n + 1 \in 1 .. (n + 1)
  BY <1>2
<1>7. n + 1 \in 1 .. (n + 1)
  BY <1>2
<1>8. ASSUME OverIn(t, r) PROVE OverIn(t, s) \/ Draws(t, LiveView(t, s), x)
  BY <1>2, <1>3, <1>4, <1>5, <1>8 DEF OverIn
<1>9. ASSUME OverIn(t, s) PROVE OverIn(t, r)
  BY <1>2, <1>3, <1>6, <1>9 DEF OverIn
<1>10. ASSUME Draws(t, LiveView(t, s), x) PROVE OverIn(t, r)
  BY <1>2, <1>4, <1>7, <1>10 DEF OverIn
<1>11. ~OverIn(t, <<>>)
  BY DEF OverIn
<1> QED
  BY <1>1, <1>8, <1>9, <1>10, <1>11

\* A row that does not overdraw keeps a view and a rebuild alike.
LEMMA RowAlike ==
  ASSUME NEW t, NEW v \in Positions, NEW pos \in Positions, Alike(v, pos),
         NEW row \in LiveRows, ~Draws(t, v, row)
  PROVE  Alike(LiveStep(t, v, row), RebuildStep(t, pos, row))
<1>1. CASE ~Filling(t, row)
  BY <1>1 DEF LiveStep, RebuildStep
<1>2. CASE Filling(t, row)
  <2>1. Positive(row.fill.shares)
    BY <1>2 DEF Filling, Filled
  <2>2. LiveStep(t, v, row) = LiveReplayRow(v, row) /\ RebuildStep(t, pos, row) = RebuildRow(pos, row)
    BY <1>2 DEF LiveStep, RebuildStep
  <2>3. PICK n : n = Smaller(row.fill.shares, v.shares) /\ n = Smaller(row.fill.shares, pos.shares)
    BY DEF Alike
  <2>4. n \in Amounts /\ AtMost(n, v.shares)
    BY <2>1, <2>3, ReplayedRow
  <2>5. CASE row.side = "BUY"
    <3>1. Added(v, LiveReplayRow(v, row), row.fill.shares, Notional(row, row.fill.shares))
      BY <2>1, <2>3, <2>5, ReplayedRow
    <3>2. Added(pos, RebuildRow(pos, row), row.fill.shares, Notional(row, row.fill.shares))
      BY <2>1, <2>3, <2>5, ReplayedRow
    <3> QED
      BY <2>2, <3>1, <3>2, AddedAlike
  <2>6. CASE row.side # "BUY"
    <3>1. Taken(v, LiveReplayRow(v, row), n, Notional(row, n))
      BY <2>1, <2>3, <2>6, ReplayedRow
    <3>2. Taken(pos, RebuildRow(pos, row), n, Notional(row, row.fill.shares))
      BY <2>1, <2>3, <2>6, ReplayedRow
    <3>3. Notional(row, n) = Notional(row, row.fill.shares)
      <4>1. row.fill.shares \in Amounts /\ row.side \in LiveSides
        BY LiveRowType
      <4>2. CASE Positive(row.fill.usd)
        BY <2>4, <4>1, <4>2, NotionalType
      <4>3. CASE row.side = "RECONCILE_SELL"
        BY <2>4, <4>1, <4>3, NotionalType
      <4>4. CASE row.side = "SELL" /\ ~Positive(row.fill.usd)
        <5>1. AtMost(row.fill.shares, v.shares)
          BY <1>2, <4>4 DEF Draws
        <5> QED
          BY <2>3, <5>1 DEF Smaller
      <4> QED
        BY <2>6, <4>1, <4>2, <4>3, <4>4 DEF LiveSides
    <3> QED
      BY <2>2, <2>4, <3>1, <3>2, <3>3, TakenAlike
  <2> QED
    BY <2>5, <2>6
<1> QED
  BY <1>1, <1>2

\* So what the dashboard replays is what a rebuild makes of the same rows.
LEMMA RebuiltAlike ==
  ASSUME NEW t, NEW rows \in Seq(LiveRows), ~OverIn(t, rows)
  PROVE  Alike(LiveView(t, rows), Rebuilt(t, rows))
<1> DEFINE P == {s \in Seq(LiveRows) : OverIn(t, s) \/ Alike(LiveView(t, s), Rebuilt(t, s))}
<1>1. <<>> \in P
  <2>1. <<>> \in Seq(LiveRows) /\ Len(<<>>) = 0
    OBVIOUS
  <2>2. LiveView(t, <<>>) = Nothing
    BY <2>1, LiveViewFold
  <2>3. Rebuilt(t, <<>>) = Nothing
    BY <2>1, RebuiltFold
  <2> QED
    BY <2>1, <2>2, <2>3 DEF Alike
<1>2. ASSUME NEW s \in Seq(LiveRows), NEW x \in LiveRows, s \in P PROVE Append(s, x) \in P
  <2>1. Append(s, x) \in Seq(LiveRows)
    OBVIOUS
  <2>2. CASE OverIn(t, s) \/ Draws(t, LiveView(t, s), x)
    BY <2>1, <2>2, OverAppend
  <2>3. CASE ~OverIn(t, s) /\ ~Draws(t, LiveView(t, s), x)
    <3>1. Alike(LiveView(t, s), Rebuilt(t, s)) /\ LiveView(t, s) \in Positions /\ Rebuilt(t, s) \in Positions
      BY <1>2, <2>3, LiveViewIs, RebuiltIs
    <3>2. /\ LiveView(t, Append(s, x)) = LiveStep(t, LiveView(t, s), x)
          /\ Rebuilt(t, Append(s, x)) = RebuildStep(t, Rebuilt(t, s), x)
      BY LiveViewIs, RebuiltIs
    <3>3. Alike(LiveView(t, Append(s, x)), Rebuilt(t, Append(s, x)))
      BY <2>3, <3>1, <3>2, RowAlike
    <3> QED
      BY <2>1, <3>3
  <2> QED
    BY <2>2, <2>3
<1>3. Seq(LiveRows) \subseteq P
  <2> HIDE DEF P
  <2> QED
    BY <1>1, <1>2, SeqInd
<1> QED
  BY <1>3

-----------------------------------------------------------------------------
(* The money of the rows.                                                  *)

\* The money of a row on one side of its token.
MoneyOf(t, side) ==
  [row \in LiveRows |-> IF Filling(t, row) /\ row.side = side THEN Notional(row, row.fill.shares) ELSE Zero]

\* What the sales of these rows brought less what their purchases cost.
LiveGain(t, rows) == Minus(Valued(MoneyOf(t, "SELL"), rows), Valued(MoneyOf(t, "BUY"), rows))

\* What a row earns.
LiveEarned(row) ==
  IF row.side = "BUY" THEN Minus(Zero, Notional(row, row.fill.shares))
  ELSE Notional(row, row.fill.shares)

\* A row adds what it earns.
LEMMA GainAppend ==
  ASSUME NEW t, NEW rows \in Seq(LiveRows), NEW row \in LiveRows
  PROVE  /\ LiveGain(t, rows) \in Frac /\ LiveGain(t, <<>>) = Zero
         /\ LiveGain(t, Append(rows, row)) =
              IF Filling(t, row) THEN Plus(LiveGain(t, rows), LiveEarned(row)) ELSE LiveGain(t, rows)
<1>1. \A r \in LiveRows : Notional(r, r.fill.shares) \in Frac
  <2> TAKE r \in LiveRows
  <2>1. r.fill.shares \in Amounts
    BY LiveRowType
  <2>2. Notional(r, r.fill.shares) \in Amounts
    BY <2>1, NotionalType
  <2> QED
    BY <2>2 DEF Amounts
<1>2. \A side : MoneyOf(t, side) \in [LiveRows -> Frac]
  BY <1>1, NothingType DEF MoneyOf
<1>3. PICK a, b, m : /\ a = Valued(MoneyOf(t, "SELL"), rows) /\ b = Valued(MoneyOf(t, "BUY"), rows)
                     /\ m = Notional(row, row.fill.shares)
  OBVIOUS
<1>4. /\ a \in Frac /\ b \in Frac /\ m \in Frac /\ Zero \in Frac /\ LiveGain(t, rows) = Minus(a, b)
      /\ Minus(a, b) \in Frac /\ Minus(Zero, m) \in Frac
  <2>1. a \in Frac /\ b \in Frac
    BY <1>2, <1>3, ValuedAppend
  <2> QED
    BY <1>1, <1>3, <2>1, NothingType, Closed DEF LiveGain
<1>5. Valued(MoneyOf(t, "SELL"), <<>>) = Zero /\ Valued(MoneyOf(t, "BUY"), <<>>) = Zero
  BY <1>2, ValuedAppend
<1>6. PICK x, y : x = MoneyOf(t, "SELL")[row] /\ y = MoneyOf(t, "BUY")[row]
  OBVIOUS
<1>7. LiveGain(t, Append(rows, row)) = Minus(Plus(a, x), Plus(b, y))
  BY <1>2, <1>3, <1>6, ValuedAppend DEF LiveGain
<1>8. /\ x = (IF Filling(t, row) /\ row.side = "SELL" THEN m ELSE Zero)
      /\ y = (IF Filling(t, row) /\ row.side = "BUY" THEN m ELSE Zero)
  BY <1>3, <1>6 DEF MoneyOf
<1>9. /\ Minus(Plus(a, Zero), Plus(b, Zero)) = Minus(a, b)
      /\ Minus(Plus(a, m), Plus(b, Zero)) = Plus(Minus(a, b), m)
      /\ Minus(Plus(a, Zero), Plus(b, m)) = Plus(Minus(a, b), Minus(Zero, m))
      /\ Plus(Minus(a, b), Zero) = Minus(a, b)
  BY <1>4, Sums, LessIsLoss
<1>10. LiveEarned(row) = IF row.side = "BUY" THEN Minus(Zero, m) ELSE m
  BY <1>3 DEF LiveEarned
<1>11. LiveGain(t, <<>>) = Zero
  BY <1>4, <1>5, Sums DEF LiveGain
<1> SUFFICES LiveGain(t, Append(rows, row)) =
               IF Filling(t, row) THEN Plus(Minus(a, b), LiveEarned(row)) ELSE Minus(a, b)
  BY <1>4, <1>11
<1>12. CASE ~Filling(t, row)
  BY <1>7, <1>8, <1>9, <1>12
<1>13. CASE Filling(t, row) /\ row.side = "SELL"
  <2>1. x = m /\ y = Zero
    BY <1>8, <1>13
  <2> QED
    BY <1>7, <1>9, <1>10, <1>13, <2>1
<1>14. CASE Filling(t, row) /\ row.side = "BUY"
  <2>1. x = Zero /\ y = m
    BY <1>8, <1>14
  <2> QED
    BY <1>7, <1>9, <1>10, <1>14, <2>1
<1>15. CASE Filling(t, row) /\ row.side = "RECONCILE_SELL"
  <2>1. m = Zero
    <3>1. row.fill.shares \in Amounts
      BY LiveRowType
    <3> QED
      BY <1>3, <1>15, <3>1, NotionalType
  <2>2. x = Zero /\ y = Zero
    BY <1>8, <1>15
  <2> QED
    BY <1>7, <1>9, <1>10, <1>15, <2>1, <2>2
<1>16. row.side \in LiveSides
  BY LiveRowType
<1> QED
  BY <1>12, <1>13, <1>14, <1>15, <1>16 DEF LiveSides

\* In a rebuilt position no money has appeared or disappeared.
LEMMA RebuiltMoney ==
  ASSUME NEW t, NEW rows \in Seq(LiveRows)
  PROVE  Minus(Rebuilt(t, rows).realized, Cost(Rebuilt(t, rows))) = LiveGain(t, rows)
<1> DEFINE P == {s \in Seq(LiveRows) : Minus(Rebuilt(t, s).realized, Cost(Rebuilt(t, s))) = LiveGain(t, s)}
<1>1. <<>> \in P
  <2>1. <<>> \in Seq(LiveRows) /\ Rebuilt(t, <<>>) = Nothing
    <3>1. <<>> \in Seq(LiveRows) /\ Len(<<>>) = 0
      OBVIOUS
    <3> QED
      BY <3>1, RebuiltFold
  <2>2. \A side : Valued(MoneyOf(t, side), <<>>) = Zero
    BY ValuedNone
  <2>3. Minus(Zero, Zero) = Zero
    BY NothingType, Sums
  <2> QED
    BY <2>1, <2>2, <2>3, CostNothing DEF LiveGain, Nothing
<1>2. ASSUME NEW s \in Seq(LiveRows), NEW x \in LiveRows, s \in P PROVE Append(s, x) \in P
  <2>1. Append(s, x) \in Seq(LiveRows)
    OBVIOUS
  <2>2. PICK pos, after : pos = Rebuilt(t, s) /\ after = Rebuilt(t, Append(s, x))
    OBVIOUS
  <2>3. pos \in Positions /\ after = RebuildStep(t, pos, x)
    BY <2>2, RebuiltIs
  <2>4. Minus(pos.realized, Cost(pos)) = LiveGain(t, s)
    BY <1>2, <2>2
  <2>5. CASE ~Filling(t, x)
    <3>1. after = pos /\ LiveGain(t, Append(s, x)) = LiveGain(t, s)
      BY <2>3, <2>5, GainAppend DEF RebuildStep
    <3> QED
      BY <2>1, <2>2, <2>4, <3>1
  <2>6. CASE Filling(t, x)
    <3>1. after = RebuildRow(pos, x) /\ Positive(x.fill.shares)
      BY <2>3, <2>6 DEF RebuildStep, Filling, Filled
    <3>2. PICK m, n : m = Notional(x, x.fill.shares) /\ n = Smaller(x.fill.shares, pos.shares)
      OBVIOUS
    <3>3. x.fill.shares \in Amounts /\ m \in Amounts /\ m \in Frac /\ n \in Amounts /\ after \in Positions
      BY <2>3, <3>1, <3>2, LiveRowType, NotionalType, ReplayedRow DEF Amounts
    <3>4. LiveGain(t, Append(s, x)) = Plus(LiveGain(t, s), LiveEarned(x))
      BY <2>6, GainAppend
    <3>5. CASE x.side = "BUY"
      <4>1. Added(pos, after, x.fill.shares, m)
        BY <2>3, <3>1, <3>2, <3>5, ReplayedRow
      <4>2. Minus(after.realized, Cost(after)) = Plus(Minus(pos.realized, Cost(pos)), Minus(Zero, m))
        BY <2>3, <3>3, <4>1, AddedCost
      <4> QED
        BY <2>1, <2>2, <2>4, <3>2, <3>4, <3>5, <4>2 DEF LiveEarned
    <3>6. CASE x.side # "BUY"
      <4>1. Taken(pos, after, n, m)
        BY <2>3, <3>1, <3>2, <3>6, ReplayedRow
      <4>2. Minus(after.realized, Cost(after)) = Plus(Minus(pos.realized, Cost(pos)), m)
        BY <2>3, <3>3, <4>1, TakenCost
      <4> QED
        BY <2>1, <2>2, <2>4, <3>2, <3>4, <3>6, <4>2 DEF LiveEarned
    <3> QED
      BY <3>5, <3>6
  <2> QED
    BY <2>5, <2>6
<1>3. Seq(LiveRows) \subseteq P
  <2> HIDE DEF P
  <2> QED
    BY <1>1, <1>2, SeqInd
<1> QED
  BY <1>3

-----------------------------------------------------------------------------
(* A position that its rows speak for.                                     *)

\* The rows of a token are what its position says: the dashboard replays it
\* from them, and it has their money.
Booked(t, rows, pos) ==
  /\ OverIn(t, rows) \/ Alike(LiveView(t, rows), pos)
  /\ Minus(pos.realized, Cost(pos)) = LiveGain(t, rows)

\* No rows make no position,
LEMMA BookedNothing == ASSUME NEW t PROVE Booked(t, <<>>, Nothing)
<1>1. <<>> \in Seq(LiveRows) /\ Len(<<>>) = 0
  OBVIOUS
<1>2. LiveView(t, <<>>) = Nothing /\ Rebuilt(t, <<>>) = Nothing
  BY <1>1, LiveViewFold, RebuiltFold
<1>3. Minus(Nothing.realized, Cost(Nothing)) = LiveGain(t, <<>>)
  BY <1>1, <1>2, RebuiltMoney
<1> QED
  BY <1>2, <1>3 DEF Booked, Alike

\* and a rebuild makes it of any.
LEMMA BookedRebuilt ==
  ASSUME NEW t, NEW rows \in Seq(LiveRows) PROVE Booked(t, rows, Rebuilt(t, rows))
BY RebuiltAlike, RebuiltMoney DEF Booked

\* It stays so by a row that fills nothing of the token,
LEMMA BookedPassed ==
  ASSUME NEW t, NEW rows \in Seq(LiveRows), NEW pos, NEW row \in LiveRows,
         ~Filling(t, row), Booked(t, rows, pos)
  PROVE  Booked(t, Append(rows, row), pos)
<1>1. LiveView(t, Append(rows, row)) = LiveView(t, rows)
  BY LiveViewIs DEF LiveStep
<1>2. OverIn(t, rows) => OverIn(t, Append(rows, row))
  BY OverAppend
<1>3. LiveGain(t, Append(rows, row)) = LiveGain(t, rows)
  BY GainAppend
<1> QED
  BY <1>1, <1>2, <1>3 DEF Booked

\* by a sale of shares that are there,
LEMMA BookedTaken ==
  ASSUME NEW t, NEW rows \in Seq(LiveRows), NEW pos \in Positions, NEW row \in LiveRows,
         Filling(t, row), row.side # "BUY", Booked(t, rows, pos),
         AtMost(row.fill.shares, pos.shares), NEW after \in Positions,
         Taken(pos, after, row.fill.shares, Notional(row, row.fill.shares))
  PROVE  Booked(t, Append(rows, row), after)
<1>1. PICK v, m, n : v = LiveView(t, rows) /\ m = Notional(row, row.fill.shares) /\ n = row.fill.shares
  OBVIOUS
<1>2. n \in Amounts /\ m \in Amounts /\ m \in Frac /\ v \in Positions /\ Positive(n)
  BY <1>1, LiveRowType, NotionalType, LiveViewIs DEF Amounts, Filling, Filled
<1>3. Minus(after.realized, Cost(after)) = LiveGain(t, Append(rows, row))
  <2>1. Minus(after.realized, Cost(after)) = Plus(Minus(pos.realized, Cost(pos)), m)
    BY <1>1, <1>2, TakenCost
  <2>2. LiveGain(t, Append(rows, row)) = Plus(LiveGain(t, rows), m)
    BY <1>1, GainAppend DEF LiveEarned
  <2> QED
    BY <2>1, <2>2 DEF Booked
<1>4. CASE OverIn(t, rows)
  BY <1>3, <1>4, OverAppend DEF Booked
<1>5. CASE Alike(v, pos)
  <2>1. n = Smaller(row.fill.shares, v.shares) /\ AtMost(n, v.shares)
    BY <1>1, <1>5 DEF Alike, Smaller
  <2>2. Taken(v, LiveReplayRow(v, row), n, m)
    BY <1>1, <1>2, <2>1, ReplayedRow
  <2>3. Taken(pos, after, n, m)
    BY <1>1
  <2>4. Alike(LiveReplayRow(v, row), after)
    BY <1>2, <1>5, <2>1, <2>2, <2>3, TakenAlike
  <2>5. LiveView(t, Append(rows, row)) = LiveReplayRow(v, row)
    BY <1>1, LiveViewIs DEF LiveStep
  <2> QED
    BY <1>3, <2>4, <2>5 DEF Booked
<1> QED
  BY <1>1, <1>4, <1>5 DEF Booked

\* and by a purchase.
LEMMA BookedAdded ==
  ASSUME NEW t, NEW rows \in Seq(LiveRows), NEW pos \in Positions, NEW row \in LiveRows,
         Filling(t, row), row.side = "BUY", Booked(t, rows, pos), NEW after,
         Added(pos, after, row.fill.shares, Notional(row, row.fill.shares))
  PROVE  Booked(t, Append(rows, row), after)
<1>1. PICK v, m, n : v = LiveView(t, rows) /\ m = Notional(row, row.fill.shares) /\ n = row.fill.shares
  OBVIOUS
<1>2. n \in Amounts /\ m \in Amounts /\ v \in Positions /\ Positive(row.fill.shares)
  BY <1>1, LiveRowType, NotionalType, LiveViewIs DEF Filling, Filled
<1>3. Minus(after.realized, Cost(after)) = LiveGain(t, Append(rows, row))
  <2>1. Minus(after.realized, Cost(after)) = Plus(Minus(pos.realized, Cost(pos)), Minus(Zero, m))
    BY <1>1, <1>2, AddedCost
  <2>2. LiveGain(t, Append(rows, row)) = Plus(LiveGain(t, rows), Minus(Zero, m))
    BY <1>1, GainAppend DEF LiveEarned
  <2> QED
    BY <2>1, <2>2 DEF Booked
<1>4. CASE OverIn(t, rows)
  BY <1>3, <1>4, OverAppend DEF Booked
<1>5. CASE Alike(v, pos)
  <2>1. PICK k : k = Smaller(row.fill.shares, v.shares)
    OBVIOUS
  <2>2. Added(v, LiveReplayRow(v, row), n, m)
    BY <1>1, <1>2, <2>1, ReplayedRow
  <2>3. Added(pos, after, n, m)
    BY <1>1
  <2>4. Alike(LiveReplayRow(v, row), after)
    BY <1>2, <1>5, <2>2, <2>3, AddedAlike
  <2>5. LiveView(t, Append(rows, row)) = LiveReplayRow(v, row)
    BY <1>1, LiveViewIs DEF LiveStep
  <2> QED
    BY <1>3, <2>4, <2>5 DEF Booked
<1> QED
  BY <1>1, <1>4, <1>5 DEF Booked

\* So by what a trade books of a fill with money, when a sale is of no more
\* than there is,
LEMMA BookedFill ==
  ASSUME NEW t, NEW rows \in Seq(LiveRows), NEW pos \in Positions, NEW row \in LiveRows,
         Filling(t, row), Booked(t, rows, pos), Positive(row.fill.usd), row.side \in {"BUY", "SELL"},
         row.side = "SELL" => AtMost(row.fill.shares, pos.shares)
  PROVE  Booked(t, Append(rows, row), Applied(pos, row.side, row.fill))
<1>1. PICK n, u : n = row.fill.shares /\ u = row.fill.usd
  OBVIOUS
<1>2. n \in Amounts /\ u \in Amounts /\ Positive(n) /\ Notional(row, row.fill.shares) = u
  BY <1>1, LiveRowType, NotionalType DEF Filling, Filled
<1>3. CASE row.side = "BUY"
  <2>1. Applied(pos, row.side, row.fill) = Bought(pos, [shares |-> n, usd |-> u])
    BY <1>1, <1>3 DEF Applied, Bought
  <2>2. Added(pos, Applied(pos, row.side, row.fill), n, u)
    BY <1>2, <2>1 DEF Added
  <2> QED
    BY <1>1, <1>2, <1>3, <2>2, BookedAdded
<1>4. CASE row.side = "SELL"
  <2>1. Applied(pos, row.side, row.fill) = LiveSold(pos, row.fill)
    BY <1>4 DEF Applied
  <2>2. LiveSold(pos, row.fill) \in Positions
    BY <1>1, <1>2, LiveSoldType
  <2>3. pos.shares \in Amounts
    BY DEF Positions
  <2>4. Rest(pos.shares, n) = Minus(pos.shares, n)
    BY <1>1, <1>2, <1>4, <2>3, RestType
  <2>5. Taken(pos, LiveSold(pos, row.fill), n, u)
    BY <1>1, <2>4 DEF Taken, LiveSold
  <2> QED
    BY <1>1, <1>2, <1>4, <2>1, <2>2, <2>5, BookedTaken
<1> QED
  BY <1>3, <1>4

\* and by an adjustment.
LEMMA BookedLost ==
  ASSUME NEW t, NEW rows \in Seq(LiveRows), NEW pos \in Positions, NEW row \in LiveRows,
         Filling(t, row), Booked(t, rows, pos), row.side = "RECONCILE_SELL",
         AtMost(row.fill.shares, pos.shares)
  PROVE  Booked(t, Append(rows, row), WrittenOff(pos, row.fill.shares))
<1>1. PICK n : n = row.fill.shares
  OBVIOUS
<1>2. n \in Amounts /\ n \in Frac /\ Notional(row, row.fill.shares) = Zero
  BY <1>1, LiveRowType, NotionalType DEF Amounts
<1>3. /\ pos.shares \in Amounts /\ pos.realized \in Frac /\ pos.avg \in Frac
      /\ Times(n, pos.avg) \in Frac /\ Zero \in Frac
  BY <1>2, Closed, NothingType DEF Positions, Amounts
<1>4. Rest(pos.shares, n) = Minus(pos.shares, n)
  BY <1>1, <1>2, <1>3, RestType
<1>5. Minus(pos.realized, Times(n, pos.avg)) = Plus(pos.realized, Minus(Zero, Times(n, pos.avg)))
  <2>1. Minus(pos.realized, Plus(Zero, Times(n, pos.avg))) =
          Plus(Minus(pos.realized, Zero), Minus(Zero, Times(n, pos.avg)))
    BY <1>3, LessIsLoss
  <2> QED
    BY <1>3, <2>1, Sums
<1>6. WrittenOff(pos, n) \in Positions
  BY <1>2, WrittenOffType
<1>7. Taken(pos, WrittenOff(pos, n), n, Zero)
  BY <1>4, <1>5 DEF Taken, WrittenOff
<1> QED
  BY <1>1, <1>2, <1>6, <1>7, BookedTaken

-----------------------------------------------------------------------------
\* Two lists of rows have the same rows of a token.
SameFor(t, r, s) ==
  /\ Len(r) = Len(s)
  /\ \A i \in 1 .. Len(r) : r[i] = s[i] \/ (r[i].token # t /\ s[i].token # t)

\* They make the same view of it.
LEMMA SameView ==
  ASSUME NEW t, NEW a \in Seq(LiveRows), NEW b \in Seq(LiveRows), SameFor(t, a, b)
  PROVE  LiveView(t, a) = LiveView(t, b)
<1>1. PICK g : /\ g[0] = Nothing /\ LiveView(t, a) = g[Len(a)]
               /\ \A j \in 1 .. Len(a) : g[j] = LiveStep(t, g[j - 1], a[j])
  BY LiveViewFold
<1>2. PICK h : /\ h[0] = Nothing /\ LiveView(t, b) = h[Len(b)]
               /\ \A j \in 1 .. Len(b) : h[j] = LiveStep(t, h[j - 1], b[j])
  BY LiveViewFold
<1>3. Len(a) \in Nat /\ Len(b) = Len(a)
  BY DEF SameFor
<1>4. ASSUME NEW j \in 1 .. Len(a), g[j - 1] = h[j - 1] PROVE g[j] = h[j]
  <2>1. g[j] = LiveStep(t, g[j - 1], a[j]) /\ h[j] = LiveStep(t, h[j - 1], b[j])
    BY <1>1, <1>2, <1>3
  <2>2. a[j] = b[j] \/ (a[j].token # t /\ b[j].token # t)
    BY DEF SameFor
  <2> QED
    BY <1>4, <2>1, <2>2 DEF LiveStep, Filling
<1>5. g[Len(a)] = h[Len(a)]
  BY <1>1, <1>2, <1>3, <1>4, SamePrefix
<1> QED
  BY <1>1, <1>2, <1>3, <1>5

\* They say the same of it.
LEMMA SameBooked ==
  ASSUME NEW t, NEW r \in Seq(LiveRows), NEW s \in Seq(LiveRows), SameFor(t, r, s), NEW pos,
         Booked(t, r, pos)
  PROVE  Booked(t, s, pos)
<1>1. /\ Len(r) \in Nat /\ Len(s) = Len(r) /\ DOMAIN r = 1 .. Len(r) /\ DOMAIN s = 1 .. Len(r)
      /\ \A i \in 1 .. Len(r) : r[i] \in LiveRows /\ s[i] \in LiveRows
  BY DEF SameFor
<1>3. LiveView(t, s) = LiveView(t, r)
  BY SameView
<1>4. ASSUME OverIn(t, r) PROVE OverIn(t, s)
  <2>1. PICK k \in 1 .. Len(r) : Draws(t, LiveView(t, SubSeq(r, 1, k - 1)), r[k])
    BY <1>1, <1>4 DEF OverIn
  <2>2. PICK a, b : a = SubSeq(r, 1, k - 1) /\ b = SubSeq(s, 1, k - 1)
    OBVIOUS
  <2>3. k - 1 \in Nat /\ k - 1 <= Len(r) /\ \A i \in 1 .. (k - 1) : i \in 1 .. Len(r)
    BY <1>1
  <2>7. a \in Seq(LiveRows) /\ Len(a) = k - 1 /\ \A i \in 1 .. (k - 1) : a[i] = r[i]
    BY <2>2, <2>3
  <2>8. b \in Seq(LiveRows) /\ Len(b) = k - 1 /\ \A i \in 1 .. (k - 1) : b[i] = s[i]
    BY <1>1, <2>2, <2>3
  <2>4. SameFor(t, a, b)
    BY <2>3, <2>7, <2>8 DEF SameFor
  <2>5. LiveView(t, a) = LiveView(t, b)
    BY <2>4, <2>7, <2>8, SameView
  <2>6. s[k] = r[k]
    BY <2>1 DEF SameFor, Draws, Filling
  <2> QED
    BY <1>1, <2>1, <2>2, <2>5, <2>6 DEF OverIn
<1>5. ASSUME NEW side PROVE Valued(MoneyOf(t, side), s) = Valued(MoneyOf(t, side), r)
  <2>1. ASSUME NEW i \in DOMAIN s PROVE MoneyOf(t, side)[s[i]] = MoneyOf(t, side)[r[i]]
    BY <1>1, <2>1 DEF MoneyOf, SameFor, Filling
  <2> QED
    BY <1>1, <2>1, ValuedSame
<1>6. LiveGain(t, s) = LiveGain(t, r)
  BY <1>5 DEF LiveGain
<1> QED
  BY <1>3, <1>4, <1>6 DEF Booked

-----------------------------------------------------------------------------
(* The account.                                                            *)

\* The shares of a row that reached the account, or left it.
RealOf(t, side) ==
  [row \in LiveRows |-> IF row.token = t /\ row.side = side THEN row.real.shares ELSE Zero]

\* What the account has of a token after these rows.
Held(t, rows) == Minus(Valued(RealOf(t, "BUY"), rows), Valued(RealOf(t, "SELL"), rows))

\* It is OnExchange.
LEMMA OnExchangeIs ==
  ASSUME liveOrders \in Seq(LiveRows), NEW t PROVE OnExchange(t) = Held(t, liveOrders)
<1>1. ASSUME NEW side
      PROVE  Valued(RealOf(t, side), liveOrders) =
               Total([i \in DOMAIN liveOrders |->
                        IF liveOrders[i].token = t /\ liveOrders[i].side = side
                        THEN liveOrders[i].real.shares ELSE Zero])
  <2>1. \A i \in DOMAIN liveOrders : liveOrders[i] \in LiveRows
    OBVIOUS
  <2>2. [i \in DOMAIN liveOrders |-> RealOf(t, side)[liveOrders[i]]] =
          [i \in DOMAIN liveOrders |->
             IF liveOrders[i].token = t /\ liveOrders[i].side = side
             THEN liveOrders[i].real.shares ELSE Zero]
    BY <2>1 DEF RealOf
  <2> QED
    BY <2>2 DEF Valued
<1> QED
  BY <1>1 DEF OnExchange, Held

\* What a row changes of it.
LEMMA HeldAppend ==
  ASSUME NEW t, NEW rows \in Seq(LiveRows), NEW row \in LiveRows
  PROVE  /\ Held(t, rows) \in Frac /\ Held(t, <<>>) = Zero
         /\ row.token = t /\ row.side = "BUY" =>
              Held(t, Append(rows, row)) = Plus(Held(t, rows), row.real.shares)
         /\ row.token = t /\ row.side = "SELL" =>
              Held(t, Append(rows, row)) = Minus(Held(t, rows), row.real.shares)
         /\ row.token # t \/ row.side = "RECONCILE_SELL" => Held(t, Append(rows, row)) = Held(t, rows)
<1>1. \A side : RealOf(t, side) \in [LiveRows -> Frac]
  <2>1. \A r \in LiveRows : r.real.shares \in Frac
    BY LiveRowType DEF Amounted, Amounts
  <2> QED
    BY <2>1, NothingType DEF RealOf
<1>2. PICK a, b, m : /\ a = Valued(RealOf(t, "BUY"), rows) /\ b = Valued(RealOf(t, "SELL"), rows)
                     /\ m = row.real.shares
  OBVIOUS
<1>3. m \in Frac /\ Zero \in Frac
  BY <1>2, LiveRowType, NothingType DEF Amounted, Amounts
<1>4. a \in Frac /\ b \in Frac
  BY <1>1, <1>2, ValuedAppend
<1>5. Valued(RealOf(t, "BUY"), <<>>) = Zero /\ Valued(RealOf(t, "SELL"), <<>>) = Zero
  BY ValuedNone
<1>6. PICK x, y : x = RealOf(t, "BUY")[row] /\ y = RealOf(t, "SELL")[row]
  OBVIOUS
<1>7. Held(t, Append(rows, row)) = Minus(Plus(a, x), Plus(b, y)) /\ Held(t, rows) = Minus(a, b)
  BY <1>1, <1>2, <1>6, ValuedAppend DEF Held
<1>8. /\ x = (IF row.token = t /\ row.side = "BUY" THEN m ELSE Zero)
      /\ y = (IF row.token = t /\ row.side = "SELL" THEN m ELSE Zero)
  BY <1>2, <1>6 DEF RealOf
<1>9. /\ Minus(Plus(a, Zero), Plus(b, Zero)) = Minus(a, b)
      /\ Minus(Plus(a, m), Plus(b, Zero)) = Plus(Minus(a, b), m)
      /\ Minus(Plus(a, Zero), Plus(b, m)) = Minus(Minus(a, b), m)
  BY <1>3, <1>4, Sums
<1>10. Held(t, rows) \in Frac /\ Held(t, <<>>) = Zero
  BY <1>3, <1>4, <1>5, <1>7, Closed, Sums DEF Held
<1>11. ASSUME row.token = t, row.side = "BUY" PROVE Held(t, Append(rows, row)) = Plus(Held(t, rows), m)
  <2>1. x = m /\ y = Zero
    BY <1>8, <1>11
  <2> QED
    BY <1>7, <1>9, <2>1
<1>12. ASSUME row.token = t, row.side = "SELL" PROVE Held(t, Append(rows, row)) = Minus(Held(t, rows), m)
  <2>1. x = Zero /\ y = m
    BY <1>8, <1>12
  <2> QED
    BY <1>7, <1>9, <2>1
<1>13. ASSUME row.token # t \/ row.side = "RECONCILE_SELL" PROVE Held(t, Append(rows, row)) = Held(t, rows)
  <2>1. x = Zero /\ y = Zero
    BY <1>8, <1>13
  <2> QED
    BY <1>7, <1>9, <2>1
<1> QED
  BY <1>2, <1>10, <1>11, <1>12, <1>13

\* The account is never short, nor without the last buy when that has not come
\* in yet.
Backed(t, rows) ==
  /\ Held(t, rows) \in Amounts
  /\ \A k \in {Len(rows)} \ {0} :
       rows[k].token = t /\ rows[k].side = "BUY" => Minus(Held(t, rows), rows[k].real.shares) \in Amounts

\* It begins so,
LEMMA BackedNothing == ASSUME NEW t PROVE Backed(t, <<>>)
<1>1. Valued(RealOf(t, "BUY"), <<>>) = Zero /\ Valued(RealOf(t, "SELL"), <<>>) = Zero
  BY ValuedNone
<1>2. Held(t, <<>>) = Zero /\ Zero \in Amounts
  BY <1>1, NothingType, Sums DEF Held
<1> QED
  BY <1>2 DEF Backed

\* and an order for no more than is there keeps it so.
LEMMA BackedAppend ==
  ASSUME NEW t, NEW rows \in Seq(LiveRows), NEW row \in LiveRows, Backed(t, rows),
         row.token = t /\ row.side = "SELL" => AtMost(row.real.shares, Held(t, rows))
  PROVE  Backed(t, Append(rows, row))
<1>1. PICK r, n, h : r = Append(rows, row) /\ n = Len(rows) /\ h = Held(t, rows)
  OBVIOUS
<1>2. n \in Nat /\ Len(r) = n + 1 /\ r[n + 1] = row
  BY <1>1
<1>3. /\ h \in Amounts /\ h \in Frac /\ row.real.shares \in Amounts /\ row.real.shares \in Frac
      /\ row.side \in LiveSides
  BY <1>1, LiveRowType DEF Amounted, Amounts, Backed
<1>4. CASE row.token = t /\ row.side = "BUY"
  <2>1. Held(t, r) = Plus(h, row.real.shares)
    BY <1>1, <1>4, HeldAppend
  <2>2. Held(t, r) \in Amounts /\ Minus(Held(t, r), row.real.shares) = h
    BY <1>3, <2>1, AmountLaws, Sums
  <2> QED
    BY <1>1, <1>2, <1>3, <2>2 DEF Backed
<1>5. CASE row.token = t /\ row.side = "SELL"
  <2>1. Held(t, r) = Minus(h, row.real.shares)
    BY <1>1, <1>5, HeldAppend
  <2>2. Held(t, r) \in Amounts
    BY <1>1, <1>3, <1>5, <2>1, AmountLaws
  <2> QED
    BY <1>1, <1>2, <1>5, <2>2 DEF Backed
<1>6. CASE row.token # t \/ row.side = "RECONCILE_SELL"
  <2>1. Held(t, r) = h
    BY <1>1, <1>6, HeldAppend
  <2> QED
    BY <1>1, <1>2, <1>3, <1>6, <2>1 DEF Backed
<1> QED
  BY <1>3, <1>4, <1>5, <1>6 DEF LiveSides

\* The same orders, whatever became of them.
SameOrders(r, s) ==
  /\ Len(r) = Len(s)
  /\ \A i \in 1 .. Len(r) : r[i].token = s[i].token /\ r[i].side = s[i].side /\ r[i].real = s[i].real

\* They leave the same in the account.
LEMMA BackedSame ==
  ASSUME NEW t, NEW r \in Seq(LiveRows), NEW s \in Seq(LiveRows), SameOrders(r, s), Backed(t, r)
  PROVE  Backed(t, s)
<1>1. /\ Len(r) \in Nat /\ Len(s) = Len(r) /\ DOMAIN r = 1 .. Len(r) /\ DOMAIN s = 1 .. Len(r)
      /\ \A i \in 1 .. Len(r) : r[i] \in LiveRows /\ s[i] \in LiveRows
  BY DEF SameOrders
<1>2. ASSUME NEW side PROVE Valued(RealOf(t, side), s) = Valued(RealOf(t, side), r)
  <2>1. ASSUME NEW i \in DOMAIN s PROVE RealOf(t, side)[s[i]] = RealOf(t, side)[r[i]]
    BY <1>1, <2>1 DEF RealOf, SameOrders
  <2> QED
    BY <1>1, <2>1, ValuedSame
<1>3. Held(t, s) = Held(t, r)
  BY <1>2 DEF Held
<1>4. ASSUME NEW k \in {Len(s)} \ {0}, s[k].token = t, s[k].side = "BUY"
      PROVE  Minus(Held(t, s), s[k].real.shares) \in Amounts
  <2>1. k \in 1 .. Len(r) /\ k \in {Len(r)} \ {0}
    BY <1>1, <1>4
  <2>2. r[k].token = t /\ r[k].side = "BUY" /\ r[k].real = s[k].real
    BY <1>4, <2>1 DEF SameOrders
  <2> QED
    BY <1>3, <2>1, <2>2 DEF Backed
<1> QED
  BY <1>3, <1>4 DEF Backed

-----------------------------------------------------------------------------
(* What the exchange says.                                                 *)

\* What a fill is taken to be has its type: a price is worked out only for
\* shares that there are.  An order that does not exist stays without money,
\* and no more is filled than was asked for.
LEMMA FillType ==
  ASSUME NEW real \in Amounted, NEW asked \in Amounted, NEW limit \in Amounts,
         Positive(real.shares) => Positive(asked.shares), NEW answer \in Answers(real)
  PROVE  LET fill == FillValues(answer, real, asked, limit) IN
           /\ fill \in Fills
           /\ real = Unknown /\ limit = Zero => fill.usd = Zero /\ fill.price = Zero
           /\ AtMost(real.shares, asked.shares) => AtMost(fill.shares, asked.shares)
<1> DEFINE fill == FillValues(answer, real, asked, limit)
<1>1. /\ real.shares \in Amounts /\ real.usd \in Amounts /\ asked.shares \in Amounts
      /\ asked.usd \in Amounts /\ Zero \in Amounts /\ real.shares \in Frac /\ asked.shares \in Frac
  BY NothingType DEF Amounted, Amounts
<1>2. /\ AtMost(asked.shares, asked.shares) /\ AtMost(Zero, asked.shares)
      /\ Unknown.shares = Zero /\ ~Positive(Zero)
  BY <1>1, NothingType, Ordering DEF Amounts, Unknown
<1>3. answer = "nothing" \/ (answer \in Kinds /\ answer \in {"match", "size", "bare", "word"})
  BY DEF Answers
<1>4. answer \in {"match", "size", "bare"} => Positive(real.shares)
  BY DEF Answers
<1>5. CASE answer = "nothing"
  <2>1. fill = NoFill
    BY <1>5 DEF FillValues
  <2> QED
    BY <1>1, <1>2, <2>1 DEF NoFill, Fills
<1>6. CASE answer = "match"
  <2>1. Over(real.usd, real.shares) \in Amounts
    BY <1>1, <1>4, <1>6, AmountLaws
  <2>2. fill = [shares |-> real.shares, usd |-> real.usd, price |-> Over(real.usd, real.shares)]
    BY <1>6 DEF FillValues
  <2> QED
    BY <1>1, <1>2, <1>4, <1>6, <2>1, <2>2 DEF Fills
<1>7. CASE answer = "size"
  <2>1. fill = [shares |-> real.shares, usd |-> asked.usd, price |-> limit]
    BY <1>7 DEF FillValues
  <2> QED
    BY <1>1, <1>2, <1>4, <1>7, <2>1 DEF Fills
<1>8. CASE answer = "bare"
  <2>1. Over(asked.usd, asked.shares) \in Amounts
    BY <1>1, <1>4, <1>8, AmountLaws
  <2>2. fill = [shares |-> asked.shares, usd |-> asked.usd, price |-> Over(asked.usd, asked.shares)]
    BY <1>8 DEF FillValues
  <2> QED
    BY <1>1, <1>2, <1>4, <1>8, <2>1, <2>2 DEF Fills
<1>9. CASE answer = "word"
  <2>1. fill = [shares |-> real.shares, usd |-> Zero, price |-> limit]
    BY <1>9 DEF FillValues
  <2> QED
    BY <1>1, <1>2, <2>1 DEF Fills
<1> QED
  BY <1>3, <1>5, <1>6, <1>7, <1>8, <1>9

\* A status is one, and a row is filled just when it has shares, unless it was.
LEMMA StatusType ==
  ASSUME NEW answer, NEW shares, NEW default \in {"open", "filled", "closed"}
  PROVE  /\ LiveStatus(answer, shares, default) \in {"open", "filled", "closed"}
         /\ Positive(shares) => LiveStatus(answer, shares, default) = "filled"
BY DEF LiveStatus

\* A fill cut to the balance is one.
LEMMA CutType ==
  ASSUME NEW fill \in Fills, NEW shares \in Amounts, NEW reached \in Arrivals(shares)
  PROVE  CutToBalance(fill, reached) \in Fills
<1>1. fill.shares \in Amounts /\ fill.usd \in Amounts /\ fill.price \in Amounts /\ Zero \in Amounts
  BY NothingType DEF Fills
<1>2. reached # <<>> => reached[1] \in Amounts
  <2>1. Over(shares, Whole(2)) \in Amounts
    <3>1. Whole(2) \in Frac /\ Positive(Whole(2))
      BY Wholes
    <3>2. Whole(2) \in Amounts
      BY <3>1, NothingType, Ordering DEF Amounts
    <3> QED
      BY <3>1, <3>2, AmountLaws
  <2> QED
    BY <1>1, <2>1 DEF Arrivals
<1>3. CASE reached = <<>> \/ ~Positive(fill.shares) \/ AtMost(fill.shares, reached[1])
  BY <1>3 DEF CutToBalance
<1>4. CASE /\ ~(reached = <<>> \/ ~Positive(fill.shares) \/ AtMost(fill.shares, reached[1]))
           /\ ~Positive(reached[1])
  <2>1. CutToBalance(fill, reached) = [fill EXCEPT !.shares = Zero, !.usd = Zero]
    BY <1>4 DEF CutToBalance
  <2> QED
    BY <1>1, <2>1 DEF Fills
<1>5. CASE /\ ~(reached = <<>> \/ ~Positive(fill.shares) \/ AtMost(fill.shares, reached[1]))
           /\ Positive(reached[1])
  <2>1. PICK r, u : /\ r = reached[1]
                    /\ u = IF Positive(fill.usd) THEN Times(fill.usd, Over(r, fill.shares))
                           ELSE Times(fill.price, r)
    OBVIOUS
  <2>2. r \in Amounts /\ Positive(fill.shares)
    BY <1>2, <1>5, <2>1
  <2>3. Over(r, fill.shares) \in Amounts /\ Times(fill.price, r) \in Amounts
    BY <1>1, <2>2, AmountLaws
  <2>4. Times(fill.usd, Over(r, fill.shares)) \in Amounts
    BY <1>1, <2>3, AmountLaws
  <2>5. u \in Amounts
    BY <2>1, <2>3, <2>4
  <2>6. CutToBalance(fill, reached) = [fill EXCEPT !.shares = r, !.usd = u]
    BY <1>5, <2>1 DEF CutToBalance
  <2> QED
    BY <2>2, <2>5, <2>6 DEF Fills
<1> QED
  BY <1>3, <1>4, <1>5

\* A quotient rounded down.
LEMMA DivideNat ==
  ASSUME NEW n \in Nat, NEW d \in Nat \ {0} PROVE n \div d \in Nat /\ (n \div d) * d <= n
OBVIOUS

\* What the exchange sells of some shares is no more than they are.
LEMMA FlooredType ==
  ASSUME NEW x \in Amounts PROVE Floored(x) \in Amounts /\ AtMost(Floored(x), x)
<1>1. x \in Frac /\ AtMost(Zero, x)
  BY DEF Amounts
<1>2. x[1] \in Int /\ x[2] \in Nat \ {0} /\ Stands(x, x[1], x[2])
  BY <1>1, Parts
<1>3. x[1] >= 0
  BY <1>1, <1>2 DEF AtMost, Zero, Whole
<1>4. PICK d, e, n : d = x[2] /\ e = Grain /\ n = x[1] * Grain
  OBVIOUS
<1>5. d \in Nat \ {0} /\ e \in Nat \ {0} /\ n \in Nat
  <2>1. Grain \in Nat \ {0} /\ x[1] \in Nat
    BY <1>2, <1>3, LedgerAssumption
  <2> QED
    BY <1>2, <1>4, <2>1
<1>6. PICK q : q = n \div d
  OBVIOUS
<1>7. q \in Nat /\ q * d <= n
  BY <1>5, <1>6, DivideNat
<1>8. Stands(Floored(x), q, e)
  <2>1. Floored(x) = Fraction(q, e)
    BY <1>4, <1>6 DEF Floored
  <2> QED
    BY <1>5, <1>7, <2>1, FractionStands
<1>9. Stands(Zero, 0, e) /\ 0 \in Int
  BY <1>5, WholeStands
<1>10. AtMost(Zero, Floored(x))
  <2>1. 0 * e <= q * e
    BY <1>5, <1>7
  <2> QED
    BY <1>5, <1>7, <1>8, <1>9, <2>1, StandsOrder
<1>11. AtMost(Floored(x), x)
  BY <1>2, <1>4, <1>5, <1>7, <1>8, StandsOrder
<1>12. Floored(x) \in Frac
  BY <1>5, <1>7, <1>8, IsFrac, NumEqual
<1> QED
  BY <1>10, <1>11, <1>12 DEF Amounts

-----------------------------------------------------------------------------
(* The tables of live trading, and what the handlers do to them.           *)

\* The tables have their types, the account backs the orders, and of a token
\* that is not in s the rows are what the position says.
LiveBook(rows, pos, s) ==
  /\ rows \in Seq(LiveRows) /\ pos \in [Tokens -> Positions] /\ s \subseteq Tokens
  /\ \A t \in Tokens : Backed(t, rows)
  /\ \A t \in Tokens \ s : Booked(t, rows, pos[t])

\* The tables begin so.
LEMMA BookNothing == LiveBook(<<>>, [t \in Tokens |-> Nothing], {})
<1>1. [t \in Tokens |-> Nothing] \in [Tokens -> Positions]
  BY NothingType
<1>2. \A t \in Tokens : Backed(t, <<>>) /\ Booked(t, <<>>, Nothing)
  BY BackedNothing, BookedNothing
<1> QED
  BY <1>1, <1>2 DEF LiveBook

\* A fill, or none, is applied to the position.
LEMMA AppliedType ==
  ASSUME NEW pos \in Positions, NEW side, NEW fill \in Fills,
         side = "BUY" => Positive(Plus(pos.shares, fill.shares))
  PROVE  Applied(pos, side, fill) \in Positions
<1>1. fill.shares \in Amounts /\ fill.usd \in Amounts
  BY DEF Fills
<1>2. CASE side = "BUY"
  BY <1>1, <1>2, BoughtOn DEF Applied
<1>3. CASE side # "BUY"
  BY <1>1, <1>3, LiveSoldType DEF Applied
<1> QED
  BY <1>2, <1>3

\* A row of another token says nothing of this one.
LEMMA BookOther ==
  ASSUME NEW rows \in Seq(LiveRows), NEW pos, NEW row \in LiveRows, NEW u, u # row.token,
         Booked(u, rows, pos)
  PROVE  Booked(u, Append(rows, row), pos)
<1>1. ~Filling(u, row)
  BY DEF Filling
<1> QED
  BY <1>1, BookedPassed

\* An order keeps them so, whatever becomes of it: without the money of its
\* fill its token is stale.
LEMMA OrderBook ==
  ASSUME NEW rows, NEW pos, NEW s, LiveBook(rows, pos, s), NEW row \in LiveRows,
         row.side \in {"BUY", "SELL"},
         row.side = "SELL" => /\ AtMost(row.real.shares, Held(row.token, rows))
                              /\ AtMost(row.fill.shares, pos[row.token].shares),
         Positive(row.fill.shares) => row.status = "filled",
         NEW after,
         after = [pos EXCEPT ![row.token] =
                    IF Positive(row.fill.shares) THEN Applied(pos[row.token], row.side, row.fill)
                    ELSE pos[row.token]],
         NEW left,
         left = IF Positive(row.fill.shares) /\ ~Positive(row.fill.usd) THEN s \cup {row.token} ELSE s
  PROVE  LiveBook(Append(rows, row), after, left)
<1>1. PICK t : t = row.token
  OBVIOUS
<1>2. /\ t \in Tokens /\ row.fill \in Fills /\ pos[t] \in Positions /\ rows \in Seq(LiveRows)
      /\ row.fill.shares \in Amounts
  BY <1>1, LiveRowType DEF LiveBook
<1>3. PICK next : next = IF Positive(row.fill.shares) THEN Applied(pos[t], row.side, row.fill) ELSE pos[t]
  OBVIOUS
<1>4. next \in Positions
  <2>1. CASE Positive(row.fill.shares)
    <3>1. pos[t].shares \in Amounts
      BY <1>2 DEF Positions
    <3>2. Positive(Plus(pos[t].shares, row.fill.shares))
      BY <1>2, <2>1, <3>1, AmountLaws
    <3> QED
      BY <1>2, <1>3, <2>1, <3>2, AppliedType
  <2> QED
    BY <1>2, <1>3, <2>1
<1>5. /\ after = [pos EXCEPT ![t] = next] /\ after \in [Tokens -> Positions] /\ after[t] = next
      /\ \A u \in Tokens \ {t} : after[u] = pos[u]
  BY <1>1, <1>2, <1>3, <1>4 DEF LiveBook
<1>6. Append(rows, row) \in Seq(LiveRows) /\ left \subseteq Tokens
  BY <1>1, <1>2 DEF LiveBook
<1>7. \A u \in Tokens : Backed(u, Append(rows, row))
  BY <1>2, BackedAppend DEF LiveBook
<1>8. ASSUME NEW u \in Tokens \ left PROVE Booked(u, Append(rows, row), after[u])
  <2>1. u \in Tokens \ s /\ Booked(u, rows, pos[u])
    BY <1>8 DEF LiveBook
  <2>2. CASE u # t
    BY <1>1, <1>2, <1>5, <2>1, <2>2, BookOther
  <2>3. CASE u = t /\ ~Positive(row.fill.shares)
    <3>1. ~Filling(t, row) /\ after[t] = pos[t]
      BY <1>3, <1>5, <2>3 DEF Filling, Filled
    <3> QED
      BY <1>2, <2>1, <2>3, <3>1, BookedPassed
  <2>4. CASE u = t /\ Positive(row.fill.shares)
    <3>1. Filling(t, row) /\ Positive(row.fill.usd)
      BY <1>1, <1>8, <2>4 DEF Filling, Filled
    <3>2. after[t] = Applied(pos[t], row.side, row.fill)
      BY <1>3, <1>5, <2>4
    <3> QED
      BY <1>1, <1>2, <2>1, <2>4, <3>1, <3>2, BookedFill
  <2> QED
    BY <2>2, <2>3, <2>4
<1> QED
  BY <1>5, <1>6, <1>7, <1>8 DEF LiveBook

\* An adjustment does.
LEMMA LostBook ==
  ASSUME NEW rows, NEW pos, NEW s, LiveBook(rows, pos, s), NEW row \in LiveRows,
         row.side = "RECONCILE_SELL", Filling(row.token, row),
         AtMost(row.fill.shares, pos[row.token].shares),
         NEW after, after = [pos EXCEPT ![row.token] = WrittenOff(pos[row.token], row.fill.shares)]
  PROVE  LiveBook(Append(rows, row), after, s)
<1>1. PICK t : t = row.token
  OBVIOUS
<1>2. /\ t \in Tokens /\ pos[t] \in Positions /\ rows \in Seq(LiveRows) /\ row.fill.shares \in Amounts
  BY <1>1, LiveRowType DEF LiveBook
<1>3. PICK next : next = WrittenOff(pos[t], row.fill.shares)
  OBVIOUS
<1>4. next \in Positions
  BY <1>2, <1>3, WrittenOffType
<1>5. /\ after = [pos EXCEPT ![t] = next] /\ after \in [Tokens -> Positions] /\ after[t] = next
      /\ \A u \in Tokens \ {t} : after[u] = pos[u]
  BY <1>1, <1>2, <1>3, <1>4 DEF LiveBook
<1>6. Append(rows, row) \in Seq(LiveRows)
  BY <1>2
<1>7. \A u \in Tokens : Backed(u, Append(rows, row))
  BY <1>2, BackedAppend DEF LiveBook
<1>8. ASSUME NEW u \in Tokens \ s PROVE Booked(u, Append(rows, row), after[u])
  <2>1. Booked(u, rows, pos[u])
    BY <1>8 DEF LiveBook
  <2>2. CASE u # t
    BY <1>1, <1>2, <1>5, <2>1, <2>2, BookOther
  <2>3. CASE u = t
    BY <1>1, <1>2, <1>3, <1>5, <2>1, <2>3, BookedLost
  <2> QED
    BY <2>2, <2>3
<1> QED
  BY <1>5, <1>6, <1>7, <1>8 DEF LiveBook

-----------------------------------------------------------------------------
(* The quantities of an order.                                             *)

\* A buy that takes something has a limit.
LEMMA EntryLimit ==
  ASSUME NEW size \in Amounts, NEW book, Levels(book), Positive(Entry(size, book).shares)
  PROVE  Entry(size, book).limit \in Nat \ {0}
<1>1. PICK f \in [SUBSET DOMAIN book -> BuyWalks(size)] :
        /\ Entry(size, book) = f[DOMAIN book]
        /\ \A S \in SUBSET DOMAIN book :
             f[S] = IF S = {} THEN [Untaken EXCEPT !.left = size]
                    ELSE BuyLevel(f[S \ {LastToBuy(book, S)}], book[LastToBuy(book, S)])
  BY EntryFold
<1> DEFINE P == {S \in SUBSET DOMAIN book : Positive(f[S].shares) => f[S].limit \in Nat \ {0}}
<1>2. ASSUME NEW S \in SUBSET DOMAIN book, \A R \in SUBSET S : R # S => R \in P PROVE S \in P
  <2>1. CASE S = {}
    <3>1. f[S].shares = Zero
      BY <1>1, <2>1 DEF Untaken
    <3> QED
      BY <3>1, NothingType, Ordering
  <2>2. CASE S # {}
    <3>1. PICK x, R : x = LastToBuy(book, S) /\ R = S \ {x}
      OBVIOUS
    <3>2. x \in S /\ R \in SUBSET S /\ R # S
      BY <2>2, <3>1, Lasts
    <3>3. book[x] \in Level /\ book[x][1] \in Nat \ {0}
      BY <3>2 DEF Levels, Level
    <3>4. f[S] = BuyLevel(f[R], book[x])
      BY <1>1, <2>2, <3>1
    <3>5. Positive(f[R].shares) => f[R].limit \in Nat \ {0}
      BY <1>2, <3>2
    <3>6. f[S] = f[R] \/ f[S].limit = book[x][1]
      BY <3>4 DEF BuyLevel, Take
    <3> QED
      BY <3>3, <3>5, <3>6
  <2> QED
    BY <2>1, <2>2
<1>3. SUBSET (DOMAIN book) \subseteq P
  <2>1. IsFiniteSet(DOMAIN book)
    BY DEF Levels
  <2> HIDE DEF P
  <2> QED
    BY <1>2, <2>1, SetInd
<1>4. DOMAIN book \in P
  BY <1>3
<1> QED
  BY <1>1, <1>4

\* Half of an amount is one, and no more.
LEMMA HalfLaw ==
  ASSUME NEW a \in Amounts PROVE Over(a, Whole(2)) \in Amounts /\ AtMost(Over(a, Whole(2)), a)
<1>1. Whole(2) \in Amounts /\ Positive(Whole(2)) /\ a \in Frac /\ AtMost(Zero, a)
  <2>1. Whole(2) \in Frac /\ Positive(Whole(2))
    BY Wholes
  <2> QED
    BY <2>1, NothingType, Ordering DEF Amounts
<1>2. PICK n, d : n = a[1] /\ d = a[2]
  OBVIOUS
<1>3. n \in Int /\ d \in Nat \ {0} /\ Stands(a, n, d)
  BY <1>1, <1>2, Parts
<1>4. n \in Nat
  BY <1>1, <1>2, <1>3 DEF AtMost, Zero, Whole
<1>5. Stands(Whole(2), 2 * 1, 1)
  BY WholeStands
<1>6. Stands(Over(a, Whole(2)), n * 1, d * (2 * 1)) /\ d * (2 * 1) \in Nat \ {0}
  BY <1>3, <1>5, TimesStands
<1>7. (n * 1) * d <= n * (d * (2 * 1))
  <2>1. PICK k : k = n * d
    OBVIOUS
  <2>2. k \in Nat /\ (n * 1) * d = k /\ n * (d * (2 * 1)) = 2 * k
    BY <1>3, <1>4, <2>1
  <2> QED
    BY <2>2
<1>8. AtMost(Over(a, Whole(2)), a)
  BY <1>3, <1>6, <1>7, StandsOrder
<1> QED
  BY <1>1, <1>8, AmountLaws

\* What the exchange may have done with an order.
LEMMA OutcomeType ==
  ASSUME NEW asked \in Amounted, NEW real \in Outcomes(asked)
  PROVE  /\ real \in Amounted /\ AtMost(real.shares, asked.shares)
         /\ Positive(real.shares) => Positive(asked.shares)
<1>1. asked.shares \in Amounts /\ asked.usd \in Amounts /\ asked.shares \in Frac /\ Zero \in Amounts
  BY NothingType DEF Amounted, Amounts
<1>2. AtMost(Zero, asked.shares) /\ AtMost(asked.shares, asked.shares) /\ ~Positive(Zero) /\ ~(Zero[1] > 0)
  BY <1>1, NothingType, Ordering DEF Amounts, Positive
<1>3. CASE real = [shares |-> Zero, usd |-> Zero]
  BY <1>1, <1>2, <1>3 DEF Amounted
<1>4. CASE real = asked
  BY <1>2, <1>4
<1>5. CASE real = [shares |-> Over(asked.shares, Whole(2)), usd |-> Over(asked.usd, Whole(2))]
  <2>1. real \in Amounted /\ AtMost(real.shares, asked.shares)
    BY <1>1, <1>5, HalfLaw DEF Amounted
  <2>2. asked.shares = Zero => Over(asked.shares, Whole(2)) = Zero
    <3>1. ASSUME asked.shares = Zero PROVE Over(Zero, Whole(2)) = Zero
      <4>1. Over(Zero, Whole(2)) \in Amounts /\ AtMost(Over(Zero, Whole(2)), Zero)
        BY <1>1, HalfLaw
      <4> QED
        BY <4>1, NothingType, Ordering DEF Amounts
    <3> QED
      BY <3>1
  <2>3. Positive(asked.shares) \/ asked.shares = Zero
    BY <1>1, AmountLaws
  <2> QED
    BY <1>2, <1>5, <2>1, <2>2, <2>3
<1> QED
  BY <1>3, <1>4, <1>5 DEF Outcomes

\* The dearest bid is a price.
LEMMA DearestType ==
  ASSUME NEW t \in Tokens, NEW book \in Books, book.bids # <<>>
  PROVE  Whole(Dearest(book.bids)) \in Amounts
<1>1. PICK s : s = [token |-> t, book |-> book, after |-> 0]
  OBVIOUS
<1>2. s \in Snapshots /\ s.book.bids # <<>>
  BY <1>1 DEF Snapshots
<1>3. PICK b \in Nat : BestBid(s) = {b}
  BY <1>2, BestBidIs
<1>4. Dearest(book.bids) = b
  BY <1>1, <1>2, <1>3 DEF BestBid
<1>5. AtMost(Zero, Whole(b)) /\ Whole(b) \in Frac
  <2>1. Positive(Whole(b)) \/ Whole(b) = Zero
    BY DEF Positive, Whole, Zero
  <2>2. Whole(b) \in Frac
    BY Wholes
  <2> QED
    BY <2>1, <2>2, NothingType, Ordering
<1> QED
  BY <1>4, <1>5 DEF Amounts

-----------------------------------------------------------------------------
(* A buy.                                                                  *)

\* A row as an order begins it.
LEMMA RowIn ==
  ASSUME NEW t \in Tokens, NEW side \in {"BUY", "SELL"}, NEW asked \in Amounted, NEW limit \in Amounts,
         NEW real \in Amounted, Positive(real.shares) => Positive(asked.shares),
         NEW fill \in Fills, NEW status \in {"open", "filled", "closed"}, NEW row,
         row = [token |-> t, side |-> side, status |-> status, fill |-> fill, asked |-> asked,
                limit |-> limit, real |-> real]
  PROVE  /\ row \in LiveRows /\ row.token = t /\ row.side = side /\ row.fill = fill
         /\ row.status = status /\ row.real = real
<1>1. row = [token |-> t, side |-> side, status |-> status, fill |-> fill, asked |-> asked,
             limit |-> limit, real |-> real]
  OBVIOUS
<1>2. /\ row.token = t /\ row.side = side /\ row.status = status /\ row.fill = fill
      /\ row.asked = asked /\ row.limit = limit /\ row.real = real
  BY <1>1
<1>3. Asked(row) /\ Adjusts(row)
  BY <1>2 DEF Asked, Adjusts
<1>4. side \in LiveSides
  BY DEF LiveSides
<1>5. row \in [token : Tokens, side : LiveSides, status : {"open", "filled", "closed"}, fill : Fills,
               asked : Amounted, limit : Amounts, real : Amounted]
  BY <1>1, <1>4
<1> QED
  BY <1>2, <1>3, <1>5 DEF LiveRows

\* The commits of an order, once what comes before it is booked.
LEMMA OrderStep ==
  ASSUME NEW t \in Tokens, NEW side \in {"BUY", "SELL"}, NEW asked \in Amounted, NEW limit \in Amounts,
         NEW real \in Amounted, Positive(real.shares) => Positive(asked.shares),
         NEW row, row = Row(t, side, "open", asked, limit, real),
         livePosition \in [Tokens -> Positions], NEW before, NEW pos \in Positions,
         LiveBook(before, [livePosition EXCEPT ![t] = pos], stale),
         side = "SELL" => AtMost(real.shares, Held(t, before))
  PROVE  /\ NoAnswer(before, pos, row) => LiveBook(liveOrders', livePosition', stale')
         /\ \A fill \in Fills, status \in {"open", "filled", "closed"} :
              /\ Positive(fill.shares) => status = "filled"
              /\ side = "SELL" => AtMost(fill.shares, pos.shares)
              /\ Order(before, pos, row, fill, status)
              => LiveBook(liveOrders', livePosition', stale')
<1>1. PICK P : P = [livePosition EXCEPT ![t] = pos]
  OBVIOUS
<1>2. P[t] = pos /\ \A x : [P EXCEPT ![t] = x] = [livePosition EXCEPT ![t] = x]
  BY <1>1
<1>3. row.token = t /\ row.side = side /\ row.fill = NoFill
  BY DEF Row
<1>4. ASSUME NoAnswer(before, pos, row) PROVE LiveBook(liveOrders', livePosition', stale')
  <2>1. PICK r : r = [row EXCEPT !.status = "closed"]
    OBVIOUS
  <2>2. NoFill \in Fills /\ ~Positive(NoFill.shares)
    BY NothingType, Ordering DEF NoFill, Fills
  <2>3. /\ r \in LiveRows /\ r.token = t /\ r.side = side /\ r.fill = NoFill /\ r.status = "closed"
        /\ r.real = real
    <3>1. r = [token |-> t, side |-> side, status |-> "closed", fill |-> NoFill, asked |-> asked,
               limit |-> limit, real |-> real]
      BY <2>1 DEF Row
    <3>2. "closed" \in {"open", "filled", "closed"}
      OBVIOUS
    <3> QED
      BY <2>2, <3>1, <3>2, RowIn
  <2>4. P = [P EXCEPT ![t] = P[t]]
    BY <1>1, <1>2
  <2>5. side = "SELL" => AtMost(NoFill.shares, pos.shares)
    <3>1. pos.shares \in Amounts
      BY DEF Positions
    <3> QED
      BY <3>1 DEF NoFill, Amounts
  <2>6. LiveBook(Append(before, r), P, stale)
    <3>1. PICK after, left :
            /\ after = [P EXCEPT ![t] = IF Positive(NoFill.shares) THEN Applied(P[t], side, NoFill) ELSE P[t]]
            /\ left = IF Positive(NoFill.shares) /\ ~Positive(NoFill.usd) THEN stale \cup {t} ELSE stale
      OBVIOUS
    <3>2. /\ after = [P EXCEPT ![r.token] = IF Positive(r.fill.shares) THEN Applied(P[r.token], r.side, r.fill)
                                             ELSE P[r.token]]
          /\ left = IF Positive(r.fill.shares) /\ ~Positive(r.fill.usd) THEN stale \cup {r.token} ELSE stale
      BY <2>3, <3>1
    <3>3. LiveBook(before, P, stale)
      BY <1>1
    <3>4. r.side = "SELL" => /\ AtMost(r.real.shares, Held(r.token, before))
                             /\ AtMost(r.fill.shares, P[r.token].shares)
      BY <1>2, <2>3, <2>5
    <3>5. (Positive(r.fill.shares) => r.status = "filled") /\ r \in LiveRows /\ r.side \in {"BUY", "SELL"}
      BY <2>2, <2>3
    <3>6. LiveBook(Append(before, r), after, left)
      BY <3>2, <3>3, <3>4, <3>5, OrderBook
    <3>7. after = P /\ left = stale
      BY <2>2, <2>4, <3>1
    <3> QED
      BY <3>6, <3>7
  <2>7. liveOrders' = Append(before, r) /\ livePosition' = P /\ stale' = stale
    BY <1>1, <1>3, <1>4, <2>1 DEF NoAnswer
  <2> QED
    BY <2>6, <2>7
<1>5. ASSUME NEW fill \in Fills, NEW status \in {"open", "filled", "closed"},
             Positive(fill.shares) => status = "filled",
             side = "SELL" => AtMost(fill.shares, pos.shares),
             Order(before, pos, row, fill, status)
      PROVE  LiveBook(liveOrders', livePosition', stale')
  <2>1. PICK r : r = [row EXCEPT !.status = status, !.fill = fill]
    OBVIOUS
  <2>2. /\ r \in LiveRows /\ r.token = t /\ r.side = side /\ r.fill = fill /\ r.status = status
        /\ r.real = real
    <3>1. r = [token |-> t, side |-> side, status |-> status, fill |-> fill, asked |-> asked,
               limit |-> limit, real |-> real]
      BY <2>1 DEF Row
    <3> QED
      BY <1>5, <3>1, RowIn
  <2>3. PICK after, left :
          /\ after = [P EXCEPT ![t] = IF Positive(fill.shares) THEN Applied(P[t], side, fill) ELSE P[t]]
          /\ left = IF Positive(fill.shares) /\ ~Positive(fill.usd) THEN stale \cup {t} ELSE stale
    OBVIOUS
  <2>4. LiveBook(Append(before, r), after, left)
    BY <1>1, <1>2, <1>5, <2>2, <2>3, OrderBook
  <2>5. liveOrders' = Append(before, r)
    BY <1>5, <2>1 DEF Order
  <2>6. livePosition' = after
    BY <1>2, <1>3, <1>5, <2>3 DEF Order
  <2>7. stale' = left
    BY <1>3, <1>5, <2>3 DEF Order
  <2> QED
    BY <2>4, <2>5, <2>6, <2>7
<1> QED
  BY <1>4, <1>5

\* A buy keeps the tables what they are.
LEMMA BuyBook ==
  ASSUME PaperTypes, LiveBook(liveOrders, livePosition, stale), NEW t \in Tokens, LiveBuy(t)
  PROVE  LiveBook(liveOrders', livePosition', stale')
<1>1. PICK book \in LatestBook(t) :
    LET walk  == Entry(Whole(MaxOrder), WithinPrice(book.asks, MaxEntry))
        quote == [shares |-> walk.shares, usd |-> walk.usd]
        limit == Whole(walk.limit)
        asked == [shares |-> Over(Whole(MaxOrder), limit), usd |-> Whole(MaxOrder)]
    IN  /\ Positive(walk.shares)
        /\ \E real \in {Unknown, quote} :
             LET row == Row(t, "BUY", "open", asked, limit, real)
             IN  \/ NoAnswer(liveOrders, livePosition[t], row)
                 \/ \E answer \in Answers(real), reached \in Arrivals(real.shares) :
                      LET told == FillValues(answer, real, quote, limit)
                          fill == CutToBalance(told, reached)
                      IN  Order(liveOrders, livePosition[t], row, fill,
                                LiveStatus(IF Positive(told.shares) THEN "bare" ELSE answer,
                                           fill.shares, "open"))
  BY DEF LiveBuy
<1>2. PICK asks, walk, quote, limit, asked :
        /\ asks = WithinPrice(book.asks, MaxEntry) /\ walk = Entry(Whole(MaxOrder), asks)
        /\ quote = [shares |-> walk.shares, usd |-> walk.usd] /\ limit = Whole(walk.limit)
        /\ asked = [shares |-> Over(Whole(MaxOrder), limit), usd |-> Whole(MaxOrder)]
  OBVIOUS
<1>3. PICK real \in {Unknown, quote} :
        LET row == Row(t, "BUY", "open", asked, limit, real)
        IN  \/ NoAnswer(liveOrders, livePosition[t], row)
            \/ \E answer \in Answers(real), reached \in Arrivals(real.shares) :
                 LET told == FillValues(answer, real, quote, limit)
                     fill == CutToBalance(told, reached)
                 IN  Order(liveOrders, livePosition[t], row, fill,
                           LiveStatus(IF Positive(told.shares) THEN "bare" ELSE answer,
                                      fill.shares, "open"))
  BY <1>1, <1>2
<1>4. Positive(walk.shares)
  BY <1>1, <1>2
<1>5. Whole(MaxOrder) \in Amounts /\ Levels(asks)
  BY <1>2, BudgetType, LatestIn, WithinLevels
<1>6. /\ walk.shares \in Amounts /\ walk.usd \in Amounts /\ walk.left \in Amounts
      /\ Plus(walk.usd, walk.left) = Whole(MaxOrder) /\ Positive(walk.usd)
  BY <1>2, <1>4, <1>5, EntryWalk DEF BuyWalks, Walks
<1>7. Positive(Whole(MaxOrder))
  BY <1>6, AmountLaws
<1>8. limit \in Amounts /\ Positive(limit)
  <2>1. walk.limit \in Nat \ {0}
    BY <1>2, <1>4, <1>5, EntryLimit
  <2>2. limit \in Frac /\ Positive(limit)
    BY <1>2, <2>1, Wholes
  <2> QED
    BY <2>2, NothingType, Ordering DEF Amounts
<1>9. asked \in Amounted /\ Positive(asked.shares)
  <2>1. Over(Whole(MaxOrder), limit) \in Amounts
    BY <1>5, <1>8, AmountLaws
  <2>2. Positive(Over(Whole(MaxOrder), limit))
    BY <1>5, <1>7, <1>8, Quotients DEF Amounts
  <2> QED
    BY <1>2, <1>5, <2>1, <2>2 DEF Amounted
<1>10. quote \in Amounted /\ real \in Amounted /\ (Positive(real.shares) => Positive(quote.shares))
  BY <1>2, <1>3, <1>4, <1>6, NothingType DEF Amounted, Unknown
<1>11. PICK row : row = Row(t, "BUY", "open", asked, limit, real)
  OBVIOUS
<1>12. livePosition \in [Tokens -> Positions] /\ livePosition[t] \in Positions
  BY DEF LiveBook
<1>13. LiveBook(liveOrders, [livePosition EXCEPT ![t] = livePosition[t]], stale)
  <2>1. [livePosition EXCEPT ![t] = livePosition[t]] = livePosition
    BY <1>12
  <2> QED
    BY <2>1
<1>14. CASE NoAnswer(liveOrders, livePosition[t], row)
  BY <1>8, <1>9, <1>10, <1>11, <1>12, <1>13, <1>14, OrderStep
<1>15. ASSUME NEW answer \in Answers(real), NEW reached \in Arrivals(real.shares), NEW told, NEW fill, NEW status,
              told = FillValues(answer, real, quote, limit), fill = CutToBalance(told, reached),
              status = LiveStatus(IF Positive(told.shares) THEN "bare" ELSE answer, fill.shares, "open"),
              Order(liveOrders, livePosition[t], row, fill, status)
       PROVE  LiveBook(liveOrders', livePosition', stale')
  <2>1. told \in Fills
    BY <1>8, <1>10, <1>15, FillType
  <2>2. real.shares \in Amounts
    BY <1>10 DEF Amounted
  <2>3. fill \in Fills
    BY <1>15, <2>1, <2>2, CutType
  <2>4. status \in {"open", "filled", "closed"} /\ (Positive(fill.shares) => status = "filled")
    BY <1>15, StatusType
  <2> QED
    BY <1>8, <1>9, <1>10, <1>11, <1>12, <1>13, <1>15, <2>3, <2>4, OrderStep
<1> QED
  BY <1>3, <1>11, <1>14, <1>15

-----------------------------------------------------------------------------
(* A sale.                                                                 *)

\* What an amount lacks of another.
LEMMA Lacking ==
  ASSUME NEW a \in Amounts, NEW b \in Amounts, AtMost(b, a)
  PROVE  /\ Minus(a, b) \in Amounts /\ AtMost(Minus(a, b), a) /\ Minus(a, Minus(a, b)) = b
         /\ ~Positive(Minus(a, b)) => a = b
<1>1. a \in Frac /\ b \in Frac /\ AtMost(Zero, b) /\ Minus(a, b) \in Amounts
  BY AmountLaws DEF Amounts
<1>2. PICK l : l = Minus(a, b)
  OBVIOUS
<1>3. l \in Amounts /\ l \in Frac
  BY <1>1, <1>2, AmountLaws
<1>4. Plus(l, b) = a
  BY <1>1, <1>2, Sums
<1>5. Minus(a, l) = b
  <2>1. Plus(b, l) = a
    BY <1>1, <1>3, <1>4, Sums
  <2> QED
    BY <1>1, <1>3, <2>1, Sums
<1>6. AtMost(l, a)
  BY <1>1, <1>3, <1>5, Sums
<1>7. ~Positive(l) => a = b
  <2>1. ASSUME ~Positive(l) PROVE a = b
    <3>1. l = Zero
      BY <1>3, <2>1, AmountLaws
    <3> QED
      BY <1>1, <1>4, <3>1, Sums
  <2> QED
    BY <2>1
<1> QED
  BY <1>2, <1>3, <1>5, <1>6, <1>7

\* The row of an adjustment, and what it makes of the tables.
Lost(t, n) == [Row(t, "RECONCILE_SELL", "filled", Unknown, Zero, Unknown) EXCEPT !.fill.shares = n]
WithLoss(rows, t, n) == IF Positive(n) THEN Append(rows, Lost(t, n)) ELSE rows
AfterLoss(pos, n) == IF Positive(n) THEN WrittenOff(pos, n) ELSE pos

\* It has its type.
LEMMA LostIn ==
  ASSUME NEW t \in Tokens, NEW n \in Amounts
  PROVE  /\ Lost(t, n) \in LiveRows /\ Lost(t, n).token = t /\ Lost(t, n).side = "RECONCILE_SELL"
         /\ Lost(t, n).fill.shares = n
         /\ Positive(n) => Filling(t, Lost(t, n))
<1>1. PICK row : row = Lost(t, n)
  OBVIOUS
<1>2. row = [token |-> t, side |-> "RECONCILE_SELL", status |-> "filled",
             fill |-> [shares |-> n, usd |-> Zero, price |-> Zero], asked |-> Unknown,
             limit |-> Zero, real |-> Unknown]
  BY <1>1 DEF Lost, Row, NoFill
<1>3. /\ row.token = t /\ row.side = "RECONCILE_SELL" /\ row.status = "filled"
      /\ row.fill.shares = n /\ row.fill.usd = Zero /\ row.fill.price = Zero
      /\ row.asked = Unknown /\ row.limit = Zero /\ row.real = Unknown
  BY <1>2
<1>4. Zero \in Amounts /\ Unknown \in Amounted /\ Unknown.shares = Zero /\ ~Positive(Zero)
  BY NothingType, Ordering DEF Unknown, Amounted
<1>5. [shares |-> n, usd |-> Zero, price |-> Zero] \in Fills
  BY <1>4 DEF Fills
<1>6. Asked(row) /\ Adjusts(row)
  BY <1>3, <1>4 DEF Asked, Adjusts
<1>7. row \in LiveRows
  BY <1>2, <1>4, <1>5, <1>6 DEF LiveRows, LiveSides
<1> QED
  BY <1>1, <1>3, <1>7 DEF Filling, Filled

\* What a sale writes off before it sells leaves what the account has.
LEMMA LacksBook ==
  ASSUME NEW rows, NEW pos, NEW s, LiveBook(rows, pos, s), NEW t \in Tokens,
         NEW have \in Amounts, AtMost(have, pos[t].shares), NEW n, n = Minus(pos[t].shares, have),
         NEW rest, rest = AfterLoss(pos[t], n), NEW before, before = WithLoss(rows, t, n)
  PROVE  /\ rest \in Positions /\ rest.shares = have /\ LiveBook(before, [pos EXCEPT ![t] = rest], s)
         /\ Held(t, before) = Held(t, rows)
<1>1. /\ pos \in [Tokens -> Positions] /\ pos[t] \in Positions /\ pos[t].shares \in Amounts
      /\ rows \in Seq(LiveRows)
  BY DEF LiveBook, Positions
<1>2. n \in Amounts /\ AtMost(n, pos[t].shares) /\ Minus(pos[t].shares, n) = have
  BY <1>1, Lacking
<1>3. CASE ~Positive(n)
  <2>1. rest = pos[t] /\ before = rows /\ pos[t].shares = have
    BY <1>1, <1>3, Lacking DEF AfterLoss, WithLoss
  <2>2. [pos EXCEPT ![t] = rest] = pos
    BY <1>1, <2>1
  <2> QED
    BY <1>1, <2>1, <2>2
<1>4. CASE Positive(n)
  <2>1. PICK lost : lost = Lost(t, n)
    OBVIOUS
  <2>2. /\ lost \in LiveRows /\ lost.token = t /\ lost.side = "RECONCILE_SELL" /\ lost.fill.shares = n
        /\ Filling(t, lost)
    BY <1>2, <1>4, <2>1, LostIn
  <2>3. rest = WrittenOff(pos[t], n) /\ before = Append(rows, lost)
    BY <1>4, <2>1 DEF AfterLoss, WithLoss
  <2>4. rest \in Positions
    BY <1>1, <1>2, <2>3, WrittenOffType
  <2>5. rest.shares = have
    <3>1. Rest(pos[t].shares, n) = have
      BY <1>1, <1>2, RestType
    <3> QED
      BY <2>3, <3>1 DEF WrittenOff
  <2>6. PICK after : after = [pos EXCEPT ![t] = rest]
    OBVIOUS
  <2>7. after = [pos EXCEPT ![lost.token] = WrittenOff(pos[lost.token], lost.fill.shares)]
    BY <2>2, <2>3, <2>6
  <2>8. LiveBook(Append(rows, lost), after, s)
    BY <1>2, <2>2, <2>7, LostBook
  <2>9. Held(t, Append(rows, lost)) = Held(t, rows)
    BY <1>1, <2>2, HeldAppend
  <2> QED
    BY <2>3, <2>4, <2>5, <2>6, <2>8, <2>9
<1> QED
  BY <1>3, <1>4

\* What a sale finds in the account is an amount.
LEMMA SellableType ==
  ASSUME LiveBook(liveOrders, livePosition, stale), NEW t \in Tokens, NEW sellable \in Sellable(t),
         sellable # <<>>
  PROVE  sellable[1] \in Amounts
<1>1. liveOrders \in Seq(LiveRows) /\ Backed(t, liveOrders)
  BY DEF LiveBook
<1>2. OnExchange(t) = Held(t, liveOrders)
  BY <1>1, OnExchangeIs
<1>3. CASE sellable = <<OnExchange(t)>>
  BY <1>1, <1>2, <1>3 DEF Backed
<1>4. CASE sellable # <<OnExchange(t)>>
  <2>1. PICK k \in {Len(liveOrders)} \ {0} :
          /\ liveOrders[k].token = t /\ liveOrders[k].side = "BUY"
          /\ sellable = <<Minus(OnExchange(t), liveOrders[k].real.shares)>>
    BY <1>4 DEF Sellable
  <2> QED
    BY <1>1, <1>2, <2>1 DEF Backed
<1> QED
  BY <1>3, <1>4

\* What a sale makes of live_orders and live_positions once the losses are off.
SoldOff(t, book, have, rest, before) ==
  LET sold  == Floored(have)
      limit == Whole(Dearest(book.bids))
      asked == [shares |-> sold, usd |-> Times(sold, limit)]
  IN  \/ /\ liveOrders' = before /\ livePosition' = [livePosition EXCEPT ![t] = rest]
         /\ UNCHANGED stale
      \/ \E real \in Outcomes(asked) :
           LET row == Row(t, "SELL", "open", asked, limit, real)
           IN  /\ AtMost(real.shares, OnExchange(t))
               /\ \/ NoAnswer(before, rest, row)
                  \/ \E answer \in Answers(real) :
                       LET fill == FillValues(answer, real, asked, limit)
                       IN  Order(before, rest, row, fill, LiveStatus(answer, fill.shares, "open"))

\* So execute_live_sell: the losses come off first.
LEMMA SellIs ==
  ASSUME NEW t, LiveSell(t)
  PROVE  \E book \in LatestBook(t), sellable \in Sellable(t) : \E pos, have, lacks, rest, before :
           /\ pos = livePosition[t]
           /\ have = IF sellable = <<>> THEN pos.shares ELSE Smaller(pos.shares, sellable[1])
           /\ lacks = Minus(pos.shares, have)
           /\ rest = AfterLoss(pos, lacks)
           /\ before = WithLoss(liveOrders, t, lacks)
           /\ book.bids # <<>> /\ SoldOff(t, book, have, rest, before)
<1>1. PICK book \in LatestBook(t), sellable \in Sellable(t) :
    LET pos    == livePosition[t]
        have   == IF sellable = <<>> THEN pos.shares ELSE Smaller(pos.shares, sellable[1])
        lacks  == Minus(pos.shares, have)
        rest   == IF Positive(lacks) THEN WrittenOff(pos, lacks) ELSE pos
        lost   == [Row(t, "RECONCILE_SELL", "filled", Unknown, Zero, Unknown)
                     EXCEPT !.fill.shares = lacks]
        before == IF Positive(lacks) THEN Append(liveOrders, lost) ELSE liveOrders
        sold   == Floored(have)
        limit  == Whole(Dearest(book.bids))
        asked  == [shares |-> sold, usd |-> Times(sold, limit)]
    IN  /\ book.bids # <<>>
        /\ \/ /\ liveOrders' = before /\ livePosition' = [livePosition EXCEPT ![t] = rest]
              /\ UNCHANGED stale
           \/ \E real \in Outcomes(asked) :
                LET row == Row(t, "SELL", "open", asked, limit, real)
                IN  /\ AtMost(real.shares, OnExchange(t))
                    /\ \/ NoAnswer(before, rest, row)
                       \/ \E answer \in Answers(real) :
                            LET fill == FillValues(answer, real, asked, limit)
                            IN  Order(before, rest, row, fill,
                                      LiveStatus(answer, fill.shares, "open"))
  BY ZenonT(60) DEF LiveSell
<1>2. PICK pos, have, lacks, rest, before :
    /\ pos = livePosition[t]
    /\ have = IF sellable = <<>> THEN pos.shares ELSE Smaller(pos.shares, sellable[1])
    /\ lacks = Minus(pos.shares, have)
    /\ rest = AfterLoss(pos, lacks)
    /\ before = WithLoss(liveOrders, t, lacks)
  OBVIOUS
<1>3. book.bids # <<>> /\ SoldOff(t, book, have, rest, before)
  BY <1>1, <1>2 DEF Lost, AfterLoss, WithLoss, SoldOff
<1> QED
  BY <1>2, <1>3

\* A sale keeps the tables what they are.
LEMMA SellBook ==
  ASSUME PaperTypes, LiveBook(liveOrders, livePosition, stale), NEW t \in Tokens, LiveSell(t)
  PROVE  LiveBook(liveOrders', livePosition', stale')
<1>1. PICK book \in LatestBook(t), sellable \in Sellable(t) : \E pos, have, lacks, rest, before :
           /\ pos = livePosition[t]
           /\ have = IF sellable = <<>> THEN pos.shares ELSE Smaller(pos.shares, sellable[1])
           /\ lacks = Minus(pos.shares, have)
           /\ rest = AfterLoss(pos, lacks)
           /\ before = WithLoss(liveOrders, t, lacks)
           /\ book.bids # <<>> /\ SoldOff(t, book, have, rest, before)
  BY SellIs
<1>2. PICK pos, have, lacks, rest, before :
    /\ pos = livePosition[t]
    /\ have = IF sellable = <<>> THEN pos.shares ELSE Smaller(pos.shares, sellable[1])
    /\ lacks = Minus(pos.shares, have)
    /\ rest = AfterLoss(pos, lacks)
    /\ before = WithLoss(liveOrders, t, lacks)
    /\ book.bids # <<>> /\ SoldOff(t, book, have, rest, before)
  BY <1>1
<1>3. PICK sold, limit, asked :
    /\ sold = Floored(have) /\ limit = Whole(Dearest(book.bids))
    /\ asked = [shares |-> sold, usd |-> Times(sold, limit)]
  OBVIOUS
<1>4. /\ book.bids # <<>>
      /\ \/ /\ liveOrders' = before /\ livePosition' = [livePosition EXCEPT ![t] = rest]
            /\ UNCHANGED stale
         \/ \E real \in Outcomes(asked) :
              LET row == Row(t, "SELL", "open", asked, limit, real)
              IN  /\ AtMost(real.shares, OnExchange(t))
                  /\ \/ NoAnswer(before, rest, row)
                     \/ \E answer \in Answers(real) :
                          LET fill == FillValues(answer, real, asked, limit)
                          IN  Order(before, rest, row, fill,
                                    LiveStatus(answer, fill.shares, "open"))
  BY <1>2, <1>3 DEF SoldOff
<1>5. /\ livePosition \in [Tokens -> Positions] /\ pos \in Positions /\ pos.shares \in Amounts
      /\ liveOrders \in Seq(LiveRows)
  BY <1>2 DEF LiveBook, Positions
<1>6. have \in Amounts /\ AtMost(have, pos.shares)
  <2>1. CASE sellable = <<>>
    <3>1. have = pos.shares /\ pos.shares \in Frac
      BY <1>2, <1>5, <2>1 DEF Amounts
    <3> QED
      BY <1>5, <3>1, Ordering
  <2>2. CASE sellable # <<>>
    <3>1. PICK x \in Amounts : x = sellable[1]
      BY <2>2, SellableType
    <3>2. have = Smaller(pos.shares, x) /\ x \in Frac /\ pos.shares \in Frac
      BY <1>2, <1>5, <2>2, <3>1 DEF Amounts
    <3> QED
      BY <1>5, <3>1, <3>2, AmountLaws, Smallers
  <2> QED
    BY <2>1, <2>2
<1>7. /\ rest \in Positions /\ rest.shares = have
      /\ LiveBook(before, [livePosition EXCEPT ![t] = rest], stale)
      /\ Held(t, before) = Held(t, liveOrders)
  BY <1>2, <1>6, LacksBook
<1>8. sold \in Amounts /\ AtMost(sold, have) /\ limit \in Amounts
  BY <1>3, <1>4, <1>6, FlooredType, LatestIn, DearestType
<1>9. asked \in Amounted /\ asked.shares = sold
  BY <1>3, <1>8, AmountLaws DEF Amounted
<1>10. CASE /\ liveOrders' = before /\ livePosition' = [livePosition EXCEPT ![t] = rest]
            /\ UNCHANGED stale
  BY <1>7, <1>10
<1>11. ASSUME NEW real \in Outcomes(asked), NEW row, row = Row(t, "SELL", "open", asked, limit, real),
              AtMost(real.shares, OnExchange(t)),
              \/ NoAnswer(before, rest, row)
              \/ \E answer \in Answers(real) :
                   LET fill == FillValues(answer, real, asked, limit)
                   IN  Order(before, rest, row, fill, LiveStatus(answer, fill.shares, "open"))
       PROVE  LiveBook(liveOrders', livePosition', stale')
  <2>1. /\ real \in Amounted /\ AtMost(real.shares, asked.shares)
        /\ Positive(real.shares) => Positive(asked.shares)
    BY <1>9, OutcomeType
  <2>2. AtMost(real.shares, Held(t, before))
    BY <1>5, <1>7, <1>11, OnExchangeIs
  <2>3. "SELL" \in {"BUY", "SELL"}
    OBVIOUS
  <2>4. /\ NoAnswer(before, rest, row) => LiveBook(liveOrders', livePosition', stale')
        /\ \A fill \in Fills, status \in {"open", "filled", "closed"} :
             /\ Positive(fill.shares) => status = "filled"
             /\ AtMost(fill.shares, rest.shares)
             /\ Order(before, rest, row, fill, status)
             => LiveBook(liveOrders', livePosition', stale')
    BY <1>5, <1>7, <1>8, <1>9, <1>11, <2>1, <2>2, <2>3, OrderStep
  <2>5. ASSUME NEW answer \in Answers(real), NEW fill, NEW status,
               fill = FillValues(answer, real, asked, limit),
               status = LiveStatus(answer, fill.shares, "open"), Order(before, rest, row, fill, status)
        PROVE  LiveBook(liveOrders', livePosition', stale')
    <3>1. fill \in Fills /\ AtMost(fill.shares, asked.shares)
      BY <1>8, <1>9, <2>1, <2>5, FillType
    <3>2. AtMost(fill.shares, rest.shares)
      <4>1. /\ fill.shares \in Frac /\ sold \in Frac /\ have \in Frac
        BY <1>6, <1>8, <3>1 DEF Fills, Amounts
      <4> QED
        BY <1>7, <1>8, <1>9, <3>1, <4>1, Ordering
    <3>3. status \in {"open", "filled", "closed"} /\ (Positive(fill.shares) => status = "filled")
      BY <2>5, StatusType
    <3> QED
      BY <2>4, <2>5, <3>1, <3>2, <3>3
  <2> QED
    BY <1>11, <2>4, <2>5
<1> QED
  BY <1>4, <1>10, <1>11

-----------------------------------------------------------------------------
(* A reconciliation.                                                       *)

\* What a pass that visits the rows of S may make of the tables.
PassStates == [up : BOOLEAN, rows : Seq(LiveRows), pos : [Tokens -> Positions]]
PassOf(S, rows, pos, s) ==
  /\ s \in PassStates /\ SameOrders(rows, s.rows)
  /\ \A i \in (1 .. Len(rows)) \ S : s.rows[i] = rows[i]
  /\ \A t \in Tokens : (\A i \in S : rows[i].token # t) => s.pos[t] = pos[t]
PassFrom(S, rows, pos) == {s \in PassStates : PassOf(S, rows, pos, s)}

\* The row of a visit.
AnswerFill(row, answer) == FillValues(answer, row.real, row.asked, row.limit)
Answered(row, answer) ==
  [row EXCEPT !.status = LiveStatus(answer, AnswerFill(row, answer).shares, row.status),
              !.fill = AnswerFill(row, answer)]

\* It is a row, and a row of the same order.
LEMMA VisitRow ==
  ASSUME NEW row \in LiveRows, NEW answer \in Answers(row.real), NEW next, next = Answered(row, answer)
  PROVE  /\ next \in LiveRows /\ AnswerFill(row, answer) \in Fills
         /\ next.token = row.token /\ next.side = row.side /\ next.real = row.real
<1>0. PICK fill, status : /\ fill = AnswerFill(row, answer)
                          /\ status = LiveStatus(answer, fill.shares, row.status)
                          /\ next = [row EXCEPT !.status = status, !.fill = fill]
  BY DEF Answered
<1>1. /\ row.real \in Amounted /\ row.asked \in Amounted /\ row.limit \in Amounts /\ Asked(row)
      /\ Adjusts(row) /\ row.status \in {"open", "filled", "closed"}
      /\ row.token \in Tokens /\ row.side \in LiveSides
  BY LiveRowType
<1>2. fill \in Fills /\ (row.real = Unknown /\ row.limit = Zero => fill.usd = Zero /\ fill.price = Zero)
  BY <1>0, <1>1, FillType DEF Asked, AnswerFill
<1>3. status \in {"open", "filled", "closed"}
  BY <1>0, <1>1, StatusType
<1>4. /\ row \in [token : Tokens, side : LiveSides, status : {"open", "filled", "closed"}, fill : Fills,
                  asked : Amounted, limit : Amounts, real : Amounted]
  BY DEF LiveRows
<1>5. /\ next \in [token : Tokens, side : LiveSides, status : {"open", "filled", "closed"}, fill : Fills,
                   asked : Amounted, limit : Amounts, real : Amounted]
      /\ next.token = row.token /\ next.side = row.side /\ next.real = row.real
      /\ next.asked = row.asked /\ next.limit = row.limit /\ next.fill = fill
  BY <1>0, <1>2, <1>3, <1>4
<1>6. Asked(next) /\ Adjusts(next)
  BY <1>1, <1>2, <1>5 DEF Asked, Adjusts
<1> QED
  BY <1>0, <1>2, <1>5, <1>6 DEF LiveRows

\* A visit changes its row and the position of its token, no more.
LEMMA VisitIn ==
  ASSUME NEW rows \in Seq(LiveRows), NEW pos, NEW S \in SUBSET (1 .. Len(rows)), NEW s,
         PassOf(S, rows, pos, s), NEW i \in S, NEW answer \in Answers(rows[i].real) \cup {"raises"},
         NEW goesOn \in BOOLEAN
  PROVE  PassOf(S, rows, pos, Visit(s, i, answer, goesOn))
<1>1. /\ s \in PassStates /\ s.up \in BOOLEAN /\ s.rows \in Seq(LiveRows) /\ s.pos \in [Tokens -> Positions]
      /\ SameOrders(rows, s.rows)
  BY DEF PassOf, PassStates
<1>2. /\ Len(rows) \in Nat /\ Len(s.rows) = Len(rows) /\ i \in 1 .. Len(rows)
      /\ DOMAIN s.rows = 1 .. Len(rows) /\ rows[i] \in LiveRows /\ s.rows[i] \in LiveRows
      /\ \A k \in 1 .. Len(rows) : /\ s.rows[k].token = rows[k].token /\ s.rows[k].side = rows[k].side
                                   /\ s.rows[k].real = rows[k].real
  BY <1>1 DEF SameOrders
<1>3. CASE ~s.up
  BY <1>3 DEF Visit
<1>4. CASE s.up /\ answer = "raises"
  <2>1. PICK n : n = [s EXCEPT !.up = goesOn]
    OBVIOUS
  <2>2. n \in PassStates /\ n.rows = s.rows /\ n.pos = s.pos
    BY <1>1, <2>1 DEF PassStates
  <2>3. PassOf(S, rows, pos, n)
    BY <2>2 DEF PassOf
  <2> QED
    BY <1>4, <2>1, <2>3 DEF Visit
<1>5. CASE s.up /\ answer # "raises"
  <2>1. PICK row, fill, status, old, buy :
          /\ row = s.rows[i] /\ fill = AnswerFill(row, answer)
          /\ status = LiveStatus(answer, fill.shares, row.status) /\ old = s.pos[row.token]
          /\ buy = (row.side = "BUY")
    OBVIOUS
  <2>2. PICK raises, booked :
          /\ raises = (status = "filled" /\ buy /\ ~Positive(Plus(old.shares, fill.shares)))
          /\ booked = (status = "filled" /\ ~raises)
    OBVIOUS
  <2>3. PICK next, after : /\ next = Answered(row, answer)
                           /\ after = IF booked THEN Applied(old, IF buy THEN "BUY" ELSE "SELL", fill) ELSE old
    OBVIOUS
  <2>4. row \in LiveRows /\ answer \in Answers(row.real) /\ row.token = rows[i].token
    BY <1>2, <1>5, <2>1
  <2>5. /\ next \in LiveRows /\ fill \in Fills
        /\ next.token = row.token /\ next.side = row.side /\ next.real = row.real
    BY <2>1, <2>3, <2>4, VisitRow
  <2>6. row.token \in Tokens /\ old \in Positions
    BY <1>1, <2>1, <2>4, LiveRowType
  <2>7. after \in Positions
    <3>1. PICK side : side = IF buy THEN "BUY" ELSE "SELL"
      OBVIOUS
    <3>2. booked => (side = "BUY" => Positive(Plus(old.shares, fill.shares)))
      BY <2>2, <3>1
    <3>3. booked => Applied(old, side, fill) \in Positions
      BY <2>5, <2>6, <3>2, AppliedType
    <3> QED
      BY <2>3, <2>6, <3>1, <3>3
  <2>8. PICK n : n = [up |-> goesOn \/ ~raises, rows |-> [s.rows EXCEPT ![i] = next],
                      pos |-> [s.pos EXCEPT ![row.token] = after]]
    OBVIOUS
  <2>9. Visit(s, i, answer, goesOn) = n
    <3>1. [s.rows EXCEPT ![i].status = status, ![i].fill = fill] = [s.rows EXCEPT ![i] = next]
      <4>1. next = [row EXCEPT !.status = status, !.fill = fill]
        BY <2>1, <2>3 DEF Answered
      <4> QED
        BY <1>2, <2>1, <4>1
    <3>2. [s.pos EXCEPT ![row.token] =
             IF booked THEN Applied(old, IF buy THEN "BUY" ELSE "SELL", fill) ELSE @]
            = [s.pos EXCEPT ![row.token] = after]
      BY <1>1, <2>1, <2>3, <2>6
    <3>3. Visit(s, i, answer, goesOn) =
            [up |-> goesOn \/ ~raises,
             rows |-> [s.rows EXCEPT ![i].status = status, ![i].fill = fill],
             pos |-> [s.pos EXCEPT ![row.token] =
                        IF booked THEN Applied(old, IF buy THEN "BUY" ELSE "SELL", fill) ELSE @]]
      BY <1>5, <2>1, <2>2 DEF Visit, AnswerFill
    <3> QED
      BY <2>8, <3>1, <3>2, <3>3
  <2>10. PICK r, p : r = [s.rows EXCEPT ![i] = next] /\ p = [s.pos EXCEPT ![row.token] = after]
    OBVIOUS
  <2>11. /\ r \in Seq(LiveRows) /\ Len(r) = Len(rows) /\ r[i] = next
         /\ \A k \in 1 .. Len(rows) : k # i => r[k] = s.rows[k]
    BY <1>1, <1>2, <2>5, <2>10
  <2>12. /\ p \in [Tokens -> Positions] /\ \A t \in Tokens : t # row.token => p[t] = s.pos[t]
    BY <1>1, <2>6, <2>7, <2>10
  <2>13. n \in PassStates /\ n.rows = r /\ n.pos = p
    BY <2>2, <2>8, <2>10, <2>11, <2>12 DEF PassStates
  <2>14. SameOrders(rows, r)
    <3>1. ASSUME NEW k \in 1 .. Len(rows)
          PROVE  rows[k].token = r[k].token /\ rows[k].side = r[k].side /\ rows[k].real = r[k].real
      BY <1>2, <2>1, <2>5, <2>11
    <3> QED
      BY <2>11, <3>1 DEF SameOrders
  <2>15. \A k \in (1 .. Len(rows)) \ S : r[k] = rows[k]
    BY <2>11 DEF PassOf
  <2>16. ASSUME NEW t \in Tokens, \A k \in S : rows[k].token # t PROVE p[t] = pos[t]
    BY <2>4, <2>12, <2>16 DEF PassOf
  <2> QED
    BY <2>9, <2>13, <2>14, <2>15, <2>16 DEF PassOf
<1> QED
  BY <1>3, <1>4, <1>5

\* A pass visits the rows of its list one after another, and no others.
LEMMA PassIs ==
  ASSUME liveOrders \in Seq(LiveRows), livePosition \in [Tokens -> Positions], NEW answers,
         \A i \in ToReconcile : answers[i] \in Answers(liveOrders[i].real) \cup {"raises"},
         NEW goesOn \in BOOLEAN
  PROVE  PassOf(ToReconcile, liveOrders, livePosition, Pass(answers, goesOn))
<1>1. PICK n \in Nat : n = Len(liveOrders) /\ DOMAIN liveOrders = 1 .. n
  OBVIOUS
<1>2. PICK T, W, b :
        /\ T = ToReconcile /\ W = PassFrom(T, liveOrders, livePosition)
        /\ b = [up |-> TRUE, rows |-> liveOrders, pos |-> livePosition]
  OBVIOUS
<1>3. PICK last, G : /\ last = [S \in SUBSET T |-> Max(S)]
                     /\ G = [x \in W \X T |-> Visit(x[1], x[2], answers[x[2]], goesOn)]
  OBVIOUS
<1>4. IsFiniteSet(T) /\ T \in SUBSET (1 .. n) /\ \A S \in (SUBSET T) \ {{}} : Max(S) \in S
  <2>1. T \in SUBSET (1 .. n)
    BY <1>1, <1>2 DEF ToReconcile
  <2>2. IsFiniteSet(1 .. n) /\ \A S \in (SUBSET (1 .. n)) \ {{}} : Max(S) \in S
    BY Segments
  <2> QED
    BY <2>1, <2>2, FS_Subset
<1>5. b \in W
  <2>1. b \in PassStates /\ b.rows = liveOrders /\ b.pos = livePosition
    BY <1>2 DEF PassStates
  <2>2. SameOrders(liveOrders, liveOrders)
    BY DEF SameOrders
  <2> QED
    BY <1>2, <2>1, <2>2 DEF PassFrom, PassOf
<1>6. \A w \in W, i \in T : Visit(w, i, answers[i], goesOn) \in W
  <2> SUFFICES ASSUME NEW w \in W, NEW i \in T PROVE Visit(w, i, answers[i], goesOn) \in W
    OBVIOUS
  <2>1. PassOf(T, liveOrders, livePosition, w)
    BY <1>2 DEF PassFrom
  <2>2. PICK answer : answer = answers[i]
    OBVIOUS
  <2>3. answer \in Answers(liveOrders[i].real) \cup {"raises"}
    BY <1>2, <2>2
  <2>4. T \in SUBSET (1 .. Len(liveOrders))
    BY <1>1, <1>4
  <2>5. PassOf(T, liveOrders, livePosition, Visit(w, i, answer, goesOn))
    BY <2>1, <2>3, <2>4, VisitIn
  <2> QED
    BY <1>2, <2>2, <2>5 DEF PassFrom, PassOf
<1>7. G \in [W \X T -> W] /\ \A w \in W, i \in T : G[<<w, i>>] = Visit(w, i, answers[i], goesOn)
  BY <1>3, <1>6
<1>8. PICK f : Folding(f, T, W, b, last, G)
  <2>1. \A S \in (SUBSET T) \ {{}} : last[S] \in S
    BY <1>3, <1>4
  <2>2. Foldable(T, W, b, last, G)
    BY <1>4, <1>5, <1>7, <2>1 DEF Foldable
  <2> QED
    BY <2>2, FoldExists
<1>9. f \in [SUBSET T -> W] /\ \A S \in SUBSET T :
        f[S] = IF S = {} THEN b ELSE G[<<f[S \ {last[S]}], last[S]>>]
  BY <1>8 DEF Folding
<1> DEFINE Fold(g) == [S \in SUBSET ToReconcile |->
             IF S = {} THEN [up |-> TRUE, rows |-> liveOrders, pos |-> livePosition]
             ELSE Visit(g[S \ {Max(S)}], Max(S), answers[Max(S)], goesOn)]
           iter == CHOOSE g : g = Fold(g)
<1>10. \A S \in SUBSET T : f[S] = IF S = {} THEN b
                                  ELSE Visit(f[S \ {Max(S)}], Max(S), answers[Max(S)], goesOn)
  <2> HIDE DEF Fold, iter
  <2> TAKE S \in SUBSET T
  <2>1. CASE S = {}
    BY <1>9, <2>1
  <2>2. CASE S # {}
    <3>1. last[S] = Max(S) /\ Max(S) \in T /\ f[S \ {Max(S)}] \in W
      BY <1>3, <1>4, <1>9, <2>2
    <3>2. f[S] = G[<<f[S \ {Max(S)}], Max(S)>>]
      BY <1>9, <2>2, <3>1
    <3> QED
      BY <1>7, <2>2, <3>1, <3>2
  <2> QED
    BY <2>1, <2>2
<1>11. f = Fold(f)
  <2>1. f = [S \in SUBSET T |-> f[S]]
    BY <1>9
  <2>2. \A S \in SUBSET T : f[S] = Fold(f)[S]
    BY <1>2, <1>10
  <2>3. Fold(f) = [S \in SUBSET T |-> Fold(f)[S]]
    BY <1>2
  <2> HIDE DEF Fold, iter
  <2> QED
    BY <2>1, <2>2, <2>3
<1>12. iter = Fold(iter)
  BY <1>11
<1>13. Pass(answers, goesOn) = iter[ToReconcile]
  BY Zenon DEF Pass, MapThenFoldSet
<1>14. \A S \in SUBSET T : iter[S] = IF S = {} THEN b
                                     ELSE Visit(iter[S \ {Max(S)}], Max(S), answers[Max(S)], goesOn)
  <2> TAKE S \in SUBSET T
  <2>1. iter[S] = Fold(iter)[S]
    BY <1>12
  <2> HIDE DEF iter
  <2> QED
    BY <1>2, <2>1
<1> HIDE DEF Fold, iter
<1>15. PICK P : P = {S \in SUBSET T : iter[S] \in W}
  OBVIOUS
<1>16. ASSUME NEW S \in SUBSET T, \A R \in SUBSET S : R # S => R \in P PROVE S \in P
  <2>1. CASE S = {}
    BY <1>5, <1>14, <1>15, <2>1
  <2>2. CASE S # {}
    <3>1. PICK m : m = Max(S)
      OBVIOUS
    <3>2. m \in S /\ m \in T /\ S \ {m} \in SUBSET S /\ S \ {m} # S
      BY <1>4, <2>2, <3>1
    <3>3. iter[S \ {m}] \in W
      BY <1>15, <1>16, <3>2
    <3>4. iter[S] = Visit(iter[S \ {m}], m, answers[m], goesOn)
      BY <1>14, <2>2, <3>1
    <3> QED
      BY <1>6, <1>15, <3>2, <3>3, <3>4
  <2> QED
    BY <2>1, <2>2
<1>17. SUBSET T \subseteq P
  BY <1>4, <1>16, SetInd
<1>18. Pass(answers, goesOn) \in W
  BY <1>2, <1>13, <1>15, <1>17
<1> QED
  BY <1>2, <1>18 DEF PassFrom

\* A reconciliation keeps the tables what they are.
LEMMA ReconcileBook ==
  ASSUME LiveBook(liveOrders, livePosition, stale), NEW goesOn \in BOOLEAN, Reconcile(goesOn)
  PROVE  LiveBook(liveOrders', livePosition', stale') /\ Len(liveOrders') = Len(liveOrders)
<1>1. PICK answers \in [ToReconcile -> Kinds \cup {"nothing", "raises"}] :
        /\ \A i \in ToReconcile : answers[i] \in Answers(liveOrders[i].real) \cup {"raises"}
        /\ LET after   == Pass(answers, goesOn)
               rebuilt == {t \in Tokens : after.up /\ \E i \in DOMAIN after.rows : Filling(t, after.rows[i])}
           IN  /\ liveOrders' = after.rows
               /\ livePosition' = [t \in Tokens |->
                    IF t \in rebuilt THEN Rebuilt(t, after.rows) ELSE after.pos[t]]
               /\ stale' = (stale \cup {liveOrders[i].token : i \in ToReconcile}) \ rebuilt
  BY DEF Reconcile
<1>2. PICK after, rebuilt :
        /\ after = Pass(answers, goesOn)
        /\ rebuilt = {t \in Tokens : after.up /\ \E i \in DOMAIN after.rows : Filling(t, after.rows[i])}
  OBVIOUS
<1>3. /\ liveOrders' = after.rows
      /\ livePosition' = [t \in Tokens |-> IF t \in rebuilt THEN Rebuilt(t, after.rows) ELSE after.pos[t]]
      /\ stale' = (stale \cup {liveOrders[i].token : i \in ToReconcile}) \ rebuilt
  BY <1>1, <1>2
<1>4. /\ liveOrders \in Seq(LiveRows) /\ livePosition \in [Tokens -> Positions] /\ stale \subseteq Tokens
      /\ \A t \in Tokens : Backed(t, liveOrders)
      /\ \A t \in Tokens \ stale : Booked(t, liveOrders, livePosition[t])
  BY DEF LiveBook
<1>5. PassOf(ToReconcile, liveOrders, livePosition, after)
  BY <1>1, <1>2, <1>4, PassIs
<1>6. PICK rows, pos, next, left :
        /\ rows = after.rows /\ pos = after.pos
        /\ next = [t \in Tokens |-> IF t \in rebuilt THEN Rebuilt(t, rows) ELSE pos[t]]
        /\ left = (stale \cup {liveOrders[i].token : i \in ToReconcile}) \ rebuilt
  OBVIOUS
<1>7. /\ rows \in Seq(LiveRows) /\ pos \in [Tokens -> Positions] /\ SameOrders(liveOrders, rows)
      /\ \A i \in (1 .. Len(liveOrders)) \ ToReconcile : rows[i] = liveOrders[i]
      /\ \A t \in Tokens : (\A i \in ToReconcile : liveOrders[i].token # t) => pos[t] = livePosition[t]
  BY <1>5, <1>6 DEF PassOf, PassStates
<1>8. \A t \in Tokens : Backed(t, rows)
  BY <1>4, <1>7, BackedSame
<1>9. \A i \in ToReconcile : i \in DOMAIN liveOrders /\ liveOrders[i].token \in Tokens
  BY <1>4, LiveRowType DEF ToReconcile
<1>10. left \subseteq Tokens
  BY <1>4, <1>6, <1>9
<1>11. next \in [Tokens -> Positions]
  <2>1. ASSUME NEW t \in rebuilt PROVE Rebuilt(t, rows) \in Positions
    <3>1. PICK i \in DOMAIN rows : Filling(t, rows[i])
      BY <1>2, <1>6, <2>1
    <3>2. rows[i] \in LiveRows
      BY <1>7
    <3> QED
      BY <1>7, <3>2, RebuiltIs
  <2> QED
    BY <1>6, <1>7, <2>1
<1>12. ASSUME NEW t \in Tokens \ left PROVE Booked(t, rows, next[t])
  <2>1. CASE t \in rebuilt
    <3>1. next[t] = Rebuilt(t, rows)
      BY <1>6, <2>1
    <3> QED
      BY <1>7, <3>1, BookedRebuilt
  <2>2. CASE t \notin rebuilt
    <3>1. t \notin stale /\ \A i \in ToReconcile : liveOrders[i].token # t
      BY <1>6, <1>12, <2>2
    <3>2. next[t] = livePosition[t]
      BY <1>6, <1>7, <2>2, <3>1
    <3>3. ASSUME NEW i \in 1 .. Len(liveOrders)
          PROVE  liveOrders[i] = rows[i] \/ (liveOrders[i].token # t /\ rows[i].token # t)
      <4>1. CASE i \in ToReconcile
        BY <1>7, <3>1, <4>1 DEF SameOrders
      <4> QED
        BY <1>7, <4>1
    <3>4. SameFor(t, liveOrders, rows)
      BY <1>7, <3>3 DEF SameFor, SameOrders
    <3>5. Booked(t, liveOrders, livePosition[t])
      BY <1>4, <3>1
    <3> QED
      BY <1>4, <1>7, <3>2, <3>4, <3>5, SameBooked
  <2> QED
    BY <2>1, <2>2
<1>13. LiveBook(rows, next, left)
  BY <1>7, <1>8, <1>10, <1>11, <1>12 DEF LiveBook
<1>14. liveOrders' = rows /\ livePosition' = next /\ stale' = left
  BY <1>3, <1>6
<1>15. Len(rows) = Len(liveOrders)
  BY <1>7 DEF SameOrders
<1> QED
  BY <1>13, <1>14, <1>15

-----------------------------------------------------------------------------
(* The invariant.                                                          *)

\* The tables of paper are as PaperTrading leaves them, a loop on paper has no
\* live order, and one that trades live has stored its books by the orders
\* there were.
LiveInv ==
  /\ PaperTypes /\ mode \in {"paper", "live"}
  /\ LiveBook(liveOrders, livePosition, stale)
  /\ mode = "paper" => liveOrders = <<>>
  /\ mode = "live" => \A i \in DOMAIN snapshots : snapshots[i].after <= Len(liveOrders)

\* It holds at the start
LEMMA LiveInvInit == ASSUME LedgerInit PROVE LiveInv
<1>1. PaperTypes
  BY TypesInit DEF LedgerInit
<1>2. LiveBook(liveOrders, livePosition, stale)
  BY BookNothing DEF LedgerInit
<1>3. mode \in {"paper", "live"} /\ liveOrders = <<>> /\ snapshots = <<>>
  BY DEF LedgerInit, Init
<1> QED
  BY <1>1, <1>2, <1>3 DEF LiveInv

\* An order adds rows.
LEMMA OrderLonger ==
  ASSUME liveOrders \in Seq(LiveRows), NEW t \in Tokens, LiveBuy(t) \/ LiveSell(t)
  PROVE  \A i \in Nat : i <= Len(liveOrders) => i <= Len(liveOrders')
<1>1. \/ liveOrders' = liveOrders
      \/ \E x : liveOrders' = Append(liveOrders, x)
      \/ \E x, y : liveOrders' = Append(Append(liveOrders, x), y)
  <2>1. \A before, pos, row, fill, status : NoAnswer(before, pos, row) \/ Order(before, pos, row, fill, status)
          => \E x : liveOrders' = Append(before, x)
    BY DEF NoAnswer, Order
  <2>2. CASE LiveBuy(t)
    <3>1. \E pos, row, fill, status : NoAnswer(liveOrders, pos, row) \/ Order(liveOrders, pos, row, fill, status)
      BY <2>2 DEF LiveBuy
    <3> QED
      BY <2>1, <3>1
  <2>3. CASE LiveSell(t)
    <3>1. \E book, sellable, pos, have, lacks, rest, before :
            before = WithLoss(liveOrders, t, lacks) /\ SoldOff(t, book, have, rest, before)
      BY <2>3, SellIs
    <3>2. PICK book, have, n, rest, before :
            before = WithLoss(liveOrders, t, n) /\ SoldOff(t, book, have, rest, before)
      BY <3>1
    <3>3. \/ liveOrders' = before
          \/ \E pos, row, fill, status : NoAnswer(before, pos, row) \/ Order(before, pos, row, fill, status)
      BY <3>2 DEF SoldOff
    <3>4. liveOrders' = before \/ \E y : liveOrders' = Append(before, y)
      BY <2>1, <3>3
    <3>5. before = liveOrders \/ before = Append(liveOrders, Lost(t, n))
      BY <3>2 DEF WithLoss
    <3> QED
      BY <3>4, <3>5
  <2> QED
    BY <2>2, <2>3
<1>2. Len(liveOrders) \in Nat
  OBVIOUS
<1> QED
  BY <1>1, <1>2

\* and by every step.
LEMMA LiveInvNext == ASSUME LiveInv, [LedgerNext]_ledgerVars PROVE LiveInv'
<1>1. /\ PaperTypes /\ mode \in {"paper", "live"} /\ LiveBook(liveOrders, livePosition, stale)
      /\ liveOrders \in Seq(LiveRows) /\ snapshots \in Seq(Snapshots)
      /\ mode = "paper" => liveOrders = <<>>
      /\ mode = "live" => \A i \in DOMAIN snapshots : snapshots[i].after <= Len(liveOrders)
  BY DEF LiveInv, PaperTypes, LiveBook
<1>2. \A i \in DOMAIN snapshots : snapshots[i].after \in Nat
  BY <1>1, Tables DEF Snapshots
<1>3. CASE UNCHANGED ledgerVars
  <2>1. UNCHANGED vars /\ UNCHANGED <<mode, liveOrders, livePosition, stale, snapshots>>
    BY <1>3 DEF ledgerVars, vars
  <2>2. PaperTypes'
    BY <1>1, <2>1, TypesNext
  <2> QED
    BY <1>1, <2>1, <2>2 DEF LiveInv
<1>4. CASE PaperNext
  <2>1. UNCHANGED <<mode, liveOrders, livePosition, stale>> /\ Next /\ mode = "paper"
    BY <1>4 DEF PaperNext, liveVars
  <2>2. PaperTypes'
    BY <1>1, <2>1, TypesNext
  <2> QED
    BY <1>1, <2>1, <2>2 DEF LiveInv
<1>5. ASSUME NEW t \in Tokens, LiveBuy(t) \/ LiveSell(t) PROVE LiveInv'
  <2>1. UNCHANGED vars /\ mode = "live" /\ mode' = mode
    BY <1>5 DEF LiveBuy, LiveSell, PaperUnchanged, vars, Live
  <2>2. PaperTypes'
    BY <1>1, <2>1, TypesNext
  <2>3. LiveBook(liveOrders', livePosition', stale')
    BY <1>1, <1>5, BuyBook, SellBook
  <2>4. \A i \in DOMAIN snapshots' : snapshots'[i].after <= Len(liveOrders')
    <3>1. snapshots' = snapshots
      BY <2>1 DEF vars
    <3> QED
      BY <1>1, <1>2, <1>5, <2>1, <3>1, OrderLonger
  <2> QED
    BY <2>1, <2>2, <2>3, <2>4 DEF LiveInv
<1>6. ASSUME NEW t \in Tokens, LiveFetchBook(t) PROVE LiveInv'
  <2>1. /\ mode = "live" /\ UNCHANGED <<mode, liveOrders, livePosition, stale>>
        /\ UNCHANGED <<position, orders, call, torn, mixed, manual>>
    BY <1>6 DEF LiveFetchBook, Live, liveVars
  <2>2. PICK book \in Books :
          snapshots' = Append(snapshots, [token |-> t, book |-> book, after |-> Len(liveOrders)])
    BY <1>6 DEF LiveFetchBook
  <2>3. PICK s : s = [token |-> t, book |-> book, after |-> Len(liveOrders)]
    OBVIOUS
  <2>4. s \in Snapshots /\ s.after <= Len(liveOrders) /\ snapshots' = Append(snapshots, s)
    BY <1>1, <2>2, <2>3 DEF Snapshots
  <2>5. snapshots' \in Seq(Snapshots)
    BY <1>1, <2>4
  <2>6. PaperTypes'
    BY <1>1, <2>1, <2>5 DEF PaperTypes
  <2>7. \A i \in DOMAIN snapshots' : snapshots'[i].after <= Len(liveOrders')
    <3>1. \A i \in DOMAIN snapshots' : snapshots'[i] = s \/ (i \in DOMAIN snapshots /\ snapshots'[i] = snapshots[i])
      BY <1>1, <2>4
    <3> QED
      BY <1>1, <2>1, <2>4, <3>1
  <2> QED
    BY <1>1, <2>1, <2>6, <2>7 DEF LiveInv
<1>7. ASSUME NEW goesOn \in BOOLEAN, Reconcile(goesOn) PROVE LiveInv'
  <2>1. UNCHANGED vars /\ mode = "live" /\ mode' = mode
    BY <1>7 DEF Reconcile, PaperUnchanged, vars, Live
  <2>2. PaperTypes'
    BY <1>1, <2>1, TypesNext
  <2>3. LiveBook(liveOrders', livePosition', stale') /\ Len(liveOrders') = Len(liveOrders)
    BY <1>1, <1>7, ReconcileBook
  <2>4. snapshots' = snapshots
    BY <2>1 DEF vars
  <2> QED
    BY <1>1, <2>1, <2>2, <2>3, <2>4 DEF LiveInv
<1> QED
  BY <1>3, <1>4, <1>5, <1>6, <1>7 DEF LedgerNext

\* So it holds throughout.
LEMMA LiveInvHolds == LedgerSpec => []LiveInv
BY LiveInvInit, LiveInvNext, PTL DEF LedgerSpec

-----------------------------------------------------------------------------
\* The tables of a position and of a row are what the runs take them to be.
LEMMA LedgerTypesHold == ASSUME LiveInv PROVE LedgerTypeOK
<1>1. \A a \in Frac : IsFraction(a)
  BY DEF Frac, IsFraction
<1>2. /\ livePosition \in [Tokens -> Positions] /\ liveOrders \in Seq(LiveRows) /\ stale \subseteq Tokens
  BY DEF LiveInv, LiveBook
<1>3. \A t \in Tokens : \A x \in {"shares", "avg", "realized"} : IsFraction(livePosition[t][x])
  BY <1>1, <1>2 DEF Positions, Amounts
<1>4. ASSUME NEW t \in Tokens PROVE ~Positive(Minus(Zero, livePosition[t].shares))
  <2>1. livePosition[t].shares \in Amounts
    BY <1>2 DEF Positions
  <2> QED
    BY <2>1, Ordering DEF Amounts
<1>5. ASSUME NEW i \in DOMAIN liveOrders
      PROVE  LET row == liveOrders[i] IN
               /\ row.token \in Tokens /\ row.side \in {"BUY", "SELL", "RECONCILE_SELL"}
               /\ row.status \in {"open", "filled", "closed"}
               /\ \A x \in {"shares", "usd", "price"} : IsFraction(row.fill[x])
  <2>1. PICK row \in LiveRows : row = liveOrders[i]
    BY <1>2
  <2>2. /\ row.token \in Tokens /\ row.side \in {"BUY", "SELL", "RECONCILE_SELL"}
        /\ row.status \in {"open", "filled", "closed"}
        /\ row.fill.shares \in Frac /\ row.fill.usd \in Frac /\ row.fill.price \in Frac
    BY LiveRowType DEF LiveSides
  <2> QED
    BY <1>1, <2>1, <2>2
<1> QED
  BY <1>2, <1>3, <1>4, <1>5 DEF LedgerTypeOK

\* The tables of live trading have their types and no position is short.
THEOREM LedgerTypeCorrect == LedgerSpec => []LedgerTypeOK
BY LiveInvHolds, LedgerTypesHold, PTL

-----------------------------------------------------------------------------
(* The views.                                                              *)

\* The money of the rows is what the positions say.
LEMMA LiveMoneyHolds == ASSUME LiveInv PROVE LiveMoneyConserved
<1> SUFFICES ASSUME NEW t \in Tokens \ stale
             PROVE  Minus(LiveMoney(t, "SELL"), LiveMoney(t, "BUY"))
                      = Minus(livePosition[t].realized, Times(livePosition[t].shares, livePosition[t].avg))
  BY DEF LiveMoneyConserved
<1>1. liveOrders \in Seq(LiveRows) /\ Booked(t, liveOrders, livePosition[t])
  BY DEF LiveInv, LiveBook
<1>2. ASSUME NEW side PROVE LiveMoney(t, side) = Valued(MoneyOf(t, side), liveOrders)
  <2>1. \A i \in DOMAIN liveOrders : liveOrders[i] \in LiveRows
    BY <1>1
  <2>2. [i \in DOMAIN liveOrders |-> MoneyOf(t, side)[liveOrders[i]]] =
          [i \in DOMAIN liveOrders |->
             IF Filling(t, liveOrders[i]) /\ liveOrders[i].side = side
             THEN Notional(liveOrders[i], liveOrders[i].fill.shares) ELSE Zero]
    BY <2>1 DEF MoneyOf
  <2> QED
    BY <2>2 DEF Valued, LiveMoney
<1>3. Minus(livePosition[t].realized, Cost(livePosition[t])) = LiveGain(t, liveOrders)
  BY <1>1 DEF Booked
<1> QED
  BY <1>2, <1>3 DEF LiveGain, Cost

\* No money appears or disappears in the positions of live trading.
THEOREM LedgerMoney == LedgerSpec => []LiveMoneyConserved
BY LiveInvHolds, LiveMoneyHolds, PTL

\* What some books of a token say it is worth is one bid or none.
LEMMA OneBid ==
  ASSUME PaperTypes, NEW ids \in SUBSET DOMAIN snapshots, NEW bids,
         bids = UNION {BestBid(s) : s \in Latest(ids)}
  PROVE  bids = {} \/ \E b \in Nat : bids = {b}
<1>1. CASE ids = {}
  BY <1>1, LatestIs
<1>2. CASE ids # {}
  <2>1. Latest(ids) = {snapshots[Max(ids)]} /\ snapshots[Max(ids)] \in Snapshots
    BY <1>2, LatestIs, Tables
  <2>2. bids = BestBid(snapshots[Max(ids)])
    BY <2>1
  <2> QED
    BY <2>1, <2>2, BestBidIs
<1> QED
  BY <1>1, <1>2

\* So is the last one.
LEMMA LatestBidIs ==
  ASSUME PaperTypes, NEW t PROVE LatestBid(t) = {} \/ \E b \in Nat : LatestBid(t) = {b}
<1>1. Snapped(t) \in SUBSET DOMAIN snapshots /\ LatestBid(t) = UNION {BestBid(s) : s \in Latest(Snapped(t))}
  BY DEF Snapped, LatestBid
<1> QED
  BY <1>1, OneBid

\* The open profit of a position is nothing without shares.
LEMMA OpenNothing ==
  ASSUME NEW pos \in Positions, ~Positive(pos.shares), NEW bids, bids = {} \/ \E b \in Nat : bids = {b}
  PROVE  OpenValue(pos, bids) = Zero
<1>1. pos.shares \in Amounts /\ pos.avg \in Frac
  BY DEF Positions, Amounts
<1>2. pos.shares = Zero
  BY <1>1, AmountLaws
<1>3. CASE bids # {}
  <2>1. PICK b \in Nat : bids = {b}
    BY <1>3
  <2>2. Max({b}) = b
    BY DEF Max
  <2>3. Whole(b) \in Frac
    BY Wholes
  <2>4. Minus(Whole(b), pos.avg) \in Frac
    BY <1>1, <2>3, Closed
  <2>5. Times(Zero, Minus(Whole(b), pos.avg)) = Zero
    BY <2>4, Products
  <2> QED
    BY <1>2, <2>1, <2>2, <2>5 DEF OpenValue
<1> QED
  BY <1>3 DEF OpenValue

\* It is the same for positions that are alike.
LEMMA OpenAlike ==
  ASSUME NEW v \in Positions, NEW pos \in Positions, Alike(v, pos),
         NEW bids, bids = {} \/ \E b \in Nat : bids = {b}
  PROVE  OpenValue(v, bids) = OpenValue(pos, bids)
<1>1. CASE Positive(v.shares)
  BY <1>1 DEF OpenValue, Alike
<1>2. CASE ~Positive(v.shares)
  BY <1>2, OpenNothing DEF Alike
<1> QED
  BY <1>1, <1>2

\* So are the tiles.
LEMMA TilesAlike ==
  ASSUME PaperTypes, NEW v \in [Tokens -> Positions], NEW pos \in [Tokens -> Positions],
         \A t \in Tokens : Alike(v[t], pos[t])
  PROVE  LiveTiles(v) = LiveTiles(pos)
<1>1. \A t \in Tokens : Cost(v[t]) = Cost(pos[t])
  BY AlikeCost
<1>2. [k \in DOMAIN TokenSeq |-> v[TokenSeq[k]].realized] =
        [k \in DOMAIN TokenSeq |-> pos[TokenSeq[k]].realized]
  BY TokenSeqIn DEF Alike
<1>3. [k \in DOMAIN TokenSeq |-> Times(v[TokenSeq[k]].shares, v[TokenSeq[k]].avg)] =
        [k \in DOMAIN TokenSeq |-> Times(pos[TokenSeq[k]].shares, pos[TokenSeq[k]].avg)]
  BY <1>1, TokenSeqIn DEF Cost
<1>4. PICK bids : bids = [t \in Tokens |-> LatestBid(t)]
  OBVIOUS
<1>5. \A t \in Tokens : OpenValue(v[t], bids[t]) = OpenValue(pos[t], bids[t])
  BY <1>4, LatestBidIs, OpenAlike
<1>6. [k \in DOMAIN TokenSeq |-> OpenValue(v[TokenSeq[k]], bids[TokenSeq[k]])] =
        [k \in DOMAIN TokenSeq |-> OpenValue(pos[TokenSeq[k]], bids[TokenSeq[k]])]
  BY <1>5, TokenSeqIn
<1>7. Unrealized(v, bids) = Unrealized(pos, bids)
  BY <1>6, Zenon DEF Unrealized
<1>8. {t \in Tokens : Positive(v[t].shares)} = {t \in Tokens : Positive(pos[t].shares)}
  BY DEF Alike
<1> QED
  BY <1>2, <1>3, <1>4, <1>7, <1>8, Zenon DEF LiveTiles

\* The dashboard's positions have their types.
LEMMA ActiveLiveType ==
  ASSUME LiveInv PROVE [t \in Tokens |-> ActiveLive(t)] \in [Tokens -> Positions]
<1>1. liveOrders \in Seq(LiveRows)
  BY DEF LiveInv, LiveBook
<1>2. ASSUME NEW t \in Tokens PROVE ActiveLive(t) \in Positions
  <2>1. CASE liveOrders = <<>>
    <3>1. Len(liveOrders) = 0
      BY <2>1
    <3>2. LiveView(t, liveOrders) = Nothing
      BY <1>1, <3>1, LiveViewFold
    <3> QED
      BY <3>2, NothingType DEF ActiveLive
  <2>2. CASE liveOrders # <<>>
    <3>1. liveOrders[1] \in LiveRows
      BY <1>1, <2>2
    <3> QED
      BY <1>1, <3>1, LiveViewIs DEF ActiveLive
  <2> QED
    BY <2>1, <2>2
<1> QED
  BY <1>2

\* LiveViewsAgree follows.
LEMMA LiveViewsHold == ASSUME LiveInv PROVE LiveViewsAgree
<1>1. /\ PaperTypes /\ livePosition \in [Tokens -> Positions]
      /\ \A t \in Tokens \ stale : Booked(t, liveOrders, livePosition[t])
  BY DEF LiveInv, LiveBook
<1>2. \A t \in Tokens : OverIn(t, liveOrders) => Overdrawn(t)
  BY DEF Overdrawn, OverIn, Draws
<1>3. \A t \in Tokens \ stale : Overdrawn(t) \/ Alike(ActiveLive(t), livePosition[t])
  BY <1>1, <1>2 DEF Booked, ActiveLive
<1>4. ASSUME stale = {}, \A t \in Tokens : ~Overdrawn(t) PROVE LiveWebTiles = LiveCliTiles
  <2>1. PICK v : v = [t \in Tokens |-> ActiveLive(t)]
    OBVIOUS
  <2>2. v \in [Tokens -> Positions] /\ \A t \in Tokens : Alike(v[t], livePosition[t])
    BY <1>3, <1>4, <2>1, ActiveLiveType
  <2> QED
    BY <1>1, <2>1, <2>2, TilesAlike DEF LiveWebTiles, LiveCliTiles
<1> QED
  BY <1>3, <1>4 DEF LiveViewsAgree, Alike

\* The positions kept up trade by trade, rebuilt from the rows and replayed by
\* the dashboard are the same, and so are the tiles.
THEOREM LedgerViews == LedgerSpec => []LiveViewsAgree
BY LiveInvHolds, LiveViewsHold, PTL

-----------------------------------------------------------------------------
\* The books that the live chart takes into account.
LiveCharted(t) ==
  {i \in DOMAIN snapshots :
     /\ snapshots[i].token = t /\ snapshots[i].book.bids # <<>>
     /\ \E j \in {k \in DOMAIN liveOrders : liveOrders[k].status = "filled"} : j <= snapshots[i].after}
LiveChartBid(t) == UNION {BestBid(s) : s \in Latest(LiveCharted(t))}

\* When the last book of a token has a bid and is not from before the first
\* fill, it is the last the chart knows.
LEMMA SameLiveBid ==
  ASSUME PaperTypes, NEW t \in Tokens, \A i \in DOMAIN snapshots : snapshots[i].after <= Len(liveOrders),
         liveOrders \in Seq(LiveRows),
         \E s \in Latest(Snapped(t)) :
           s.book.bids # <<>> /\ \E i \in 1 .. s.after : liveOrders[i].status = "filled"
  PROVE  LiveChartBid(t) = LatestBid(t)
<1>1. Snapped(t) \in SUBSET DOMAIN snapshots /\ LiveCharted(t) \in SUBSET DOMAIN snapshots
  BY DEF Snapped, LiveCharted
<1>2. Snapped(t) # {}
  BY <1>1, LatestIs
<1>3. PICK m : m = Max(Snapped(t))
  OBVIOUS
<1>4. m \in Snapped(t) /\ (\A j \in Snapped(t) : m >= j) /\ Latest(Snapped(t)) = {snapshots[m]}
  BY <1>1, <1>2, <1>3, LatestIs
<1>5. PICK i \in 1 .. snapshots[m].after :
        snapshots[m].book.bids # <<>> /\ liveOrders[i].status = "filled"
  BY <1>4
<1>6. i \in {k \in DOMAIN liveOrders : liveOrders[k].status = "filled"} /\ i <= snapshots[m].after
  <2>1. snapshots[m].after \in Nat /\ snapshots[m].after <= Len(liveOrders) /\ Len(liveOrders) \in Nat
    BY <1>1, <1>4, Tables DEF Snapshots
  <2>2. i \in 1 .. Len(liveOrders) /\ i <= snapshots[m].after
    BY <2>1
  <2> QED
    BY <1>5, <2>2
<1>7. m \in LiveCharted(t) /\ LiveCharted(t) \subseteq Snapped(t)
  BY <1>4, <1>5, <1>6 DEF Snapped, LiveCharted
<1>8. Max(LiveCharted(t)) = m
  <2>1. Max(LiveCharted(t)) \in LiveCharted(t) /\ \A j \in LiveCharted(t) : Max(LiveCharted(t)) >= j
    BY <1>1, <1>7, LatestIs
  <2>2. m \in Nat /\ Max(LiveCharted(t)) \in Nat
    BY <1>1, <1>7, <2>1 DEF PaperTypes
  <2>3. Max(LiveCharted(t)) >= m /\ m >= Max(LiveCharted(t))
    BY <1>4, <1>7, <2>1
  <2> QED
    BY <2>2, <2>3
<1>9. Latest(LiveCharted(t)) = {snapshots[m]}
  BY <1>1, <1>7, <1>8, LatestIs
<1> QED
  BY <1>4, <1>9 DEF LiveChartBid, LatestBid, Snapped

\* So the sums are the same.
LEMMA LiveChartHolds == ASSUME LiveInv PROVE LiveChartMatchesTile
<1> SUFFICES ASSUME \A t \in Tokens : Positive(ActiveLive(t).shares) =>
                      \E s \in Latest({i \in DOMAIN snapshots : snapshots[i].token = t}) :
                        /\ s.book.bids # <<>>
                        /\ \E i \in 1..s.after : liveOrders[i].status = "filled"
             PROVE  LiveChartUnrealized = LiveWebTiles.unrealized
  BY DEF LiveChartMatchesTile
<1>1. /\ PaperTypes /\ mode \in {"paper", "live"} /\ liveOrders \in Seq(LiveRows)
      /\ mode = "paper" => liveOrders = <<>>
      /\ mode = "live" => \A i \in DOMAIN snapshots : snapshots[i].after <= Len(liveOrders)
  BY DEF LiveInv, LiveBook
<1>2. PICK v, p, q : /\ v = [t \in Tokens |-> ActiveLive(t)]
                     /\ p = [t \in Tokens |-> LiveChartBid(t)] /\ q = [t \in Tokens |-> LatestBid(t)]
  OBVIOUS
<1>3. v \in [Tokens -> Positions]
  BY <1>2, ActiveLiveType
<1>4. ASSUME NEW t \in Tokens PROVE OpenValue(v[t], p[t]) = OpenValue(v[t], q[t])
  <2>1. CASE Positive(ActiveLive(t).shares)
    <3>1. \E s \in Latest(Snapped(t)) :
            s.book.bids # <<>> /\ \E i \in 1 .. s.after : liveOrders[i].status = "filled"
      BY <2>1 DEF Snapped
    <3>2. mode = "live"
      <4>1. ASSUME mode = "paper" PROVE FALSE
        <5>1. Len(liveOrders) = 0
          BY <1>1, <4>1
        <5>2. LiveView(t, liveOrders) = Nothing
          BY <1>1, <5>1, LiveViewFold
        <5> QED
          BY <2>1, <5>2, NothingType, Ordering DEF ActiveLive, Nothing
      <4> QED
        BY <1>1, <4>1
    <3>3. LiveChartBid(t) = LatestBid(t)
      BY <1>1, <3>1, <3>2, SameLiveBid
    <3> QED
      BY <1>2, <3>3
  <2>2. CASE ~Positive(ActiveLive(t).shares)
    <3>1. v[t] \in Positions /\ ~Positive(v[t].shares)
      BY <1>2, <1>3, <2>2
    <3>2. p[t] = {} \/ \E b \in Nat : p[t] = {b}
      <4>1. LiveCharted(t) \in SUBSET DOMAIN snapshots
        BY DEF LiveCharted
      <4> QED
        BY <1>1, <1>2, <4>1, OneBid DEF LiveChartBid
    <3>3. q[t] = {} \/ \E b \in Nat : q[t] = {b}
      BY <1>1, <1>2, LatestBidIs
    <3> QED
      BY <3>1, <3>2, <3>3, OpenNothing
  <2> QED
    BY <2>1, <2>2
<1>5. [k \in DOMAIN TokenSeq |-> OpenValue(v[TokenSeq[k]], p[TokenSeq[k]])] =
        [k \in DOMAIN TokenSeq |-> OpenValue(v[TokenSeq[k]], q[TokenSeq[k]])]
  BY <1>4, TokenSeqIn
<1>6. Unrealized(v, p) = Unrealized(v, q)
  BY <1>5, Zenon DEF Unrealized
<1>7. LiveChartUnrealized = Unrealized(v, p)
  BY <1>2 DEF LiveChartUnrealized, LiveChartBid, LiveCharted
<1>8. LiveWebTiles.unrealized = Unrealized(v, q)
  BY <1>2 DEF LiveWebTiles, LiveTiles
<1> QED
  BY <1>6, <1>7, <1>8

\* The live chart's last point and the tile agree once every position held has
\* a bid in its last book, and that book is not from before the first fill.
THEOREM LedgerChart == LedgerSpec => []LiveChartMatchesTile
BY LiveInvHolds, LiveChartHolds, PTL

-----------------------------------------------------------------------------
(* The profits of the trades.                                              *)

\* A sale with its profit, and what a token has of them.
SaleSides == {"SELL", "RECONCILE_SELL"}
Profited  == [side : SaleSides, profit : Frac]
Tallies   == [pos : Positions, sales : Seq(Profited)]

\* No sale yet, what a row adds, and what these rows come to.
NoTally == [pos |-> Nothing, sales |-> <<>>]
TallyStep(t, s, row) == IF Filling(t, row) THEN WithProfit(s, row) ELSE s
TallyOf(t, rows) ==
  FoldLeft(LAMBDA s, row : IF Filling(t, row) THEN WithProfit(s, row) ELSE s,
           [pos |-> Nothing, sales |-> <<>>], rows)

\* What a row does to a tally.
LEMMA WithProfitIs ==
  ASSUME NEW s \in Tallies, NEW row \in LiveRows, Positive(row.fill.shares)
  PROVE  /\ WithProfit(s, row) \in Tallies /\ WithProfit(s, row).pos = LiveReplayRow(s.pos, row)
         /\ row.side = "BUY" => /\ WithProfit(s, row).sales = s.sales
                                /\ LiveReplayRow(s.pos, row).realized = s.pos.realized
         /\ row.side # "BUY" =>
              \E sale \in Profited :
                /\ WithProfit(s, row).sales = Append(s.sales, sale)
                /\ LiveReplayRow(s.pos, row).realized = Plus(s.pos.realized, sale.profit)
<1>1. PICK pos, sales : pos = s.pos /\ sales = s.sales
  OBVIOUS
<1>2. pos \in Positions /\ sales \in Seq(Profited) /\ row.side \in LiveSides /\ row.fill.shares \in Amounts
  BY <1>1, LiveRowType DEF Tallies
<1>3. PICK n : n = Smaller(row.fill.shares, pos.shares)
  OBVIOUS
<1>4. n \in Amounts /\ LiveReplayRow(pos, row) \in Positions
  BY <1>2, <1>3, ReplayedRow
<1>5. PICK after, profit : after = LiveReplayRow(pos, row) /\ profit = Minus(Notional(row, n), Times(n, pos.avg))
  OBVIOUS
<1>6. WithProfit(s, row) =
        [pos |-> after, sales |-> IF row.side = "BUY" THEN sales
                                  ELSE Append(sales, [side |-> row.side, profit |-> profit])]
  BY <1>1, <1>3, <1>5 DEF WithProfit
<1>7. CASE row.side = "BUY"
  <2>1. WithProfit(s, row) = [pos |-> after, sales |-> sales]
    BY <1>6, <1>7
  <2>2. after.realized = pos.realized
    BY <1>2, <1>3, <1>5, <1>7, ReplayedRow DEF Added, Bought
  <2> QED
    BY <1>1, <1>2, <1>4, <1>5, <1>7, <2>1, <2>2 DEF Tallies
<1>8. CASE row.side # "BUY"
  <2>1. PICK sale : sale = [side |-> row.side, profit |-> profit]
    OBVIOUS
  <2>2. WithProfit(s, row) = [pos |-> after, sales |-> Append(sales, sale)]
    BY <1>6, <1>8, <2>1
  <2>3. profit \in Frac
    <3>1. Notional(row, n) \in Frac /\ n \in Frac /\ pos.avg \in Frac
      BY <1>2, <1>4, NotionalType DEF Amounts, Positions
    <3> QED
      BY <1>5, <3>1, Closed
  <2>4. sale \in Profited /\ sale.profit = profit
    BY <1>2, <1>8, <2>1, <2>3 DEF Profited, LiveSides, SaleSides
  <2>5. after.realized = Plus(pos.realized, profit)
    BY <1>2, <1>3, <1>5, <1>8, ReplayedRow DEF Taken
  <2>6. Append(sales, sale) \in Seq(Profited)
    BY <1>2, <2>4
  <2>7. WithProfit(s, row) \in Tallies
    BY <1>4, <1>5, <2>2, <2>6 DEF Tallies
  <2> QED
    BY <1>1, <1>5, <1>8, <2>2, <2>4, <2>5, <2>7
<1> QED
  BY <1>7, <1>8

\* Tallies stay tallies.
LEMMA TallyType ==
  ASSUME NEW t, NEW s \in Tallies, NEW row \in LiveRows PROVE TallyStep(t, s, row) \in Tallies
BY WithProfitIs DEF TallyStep, Filling, Filled

\* An empty one is a tally.
LEMMA NoTallyType == NoTally \in Tallies
BY NothingType DEF NoTally, Tallies

\* The tally of a token, row by row.
LEMMA TallyFold ==
  ASSUME NEW t, NEW s \in Seq(LiveRows)
  PROVE  \E g : /\ g[0] = NoTally /\ TallyOf(t, s) = g[Len(s)]
                /\ \A j \in 1 .. Len(s) : g[j] = TallyStep(t, g[j - 1], s[j])
<1> DEFINE n == Len(s)
           T == 1 .. n
           W == Tallies
           b == NoTally
           last == [S \in SUBSET T |-> Max(S)]
           G == [x \in W \X T |-> TallyStep(t, x[1], s[x[2]])]
           Fold(f) == [S \in SUBSET T |-> IF S = {} THEN b ELSE TallyStep(t, f[S \ {Max(S)}], s[Max(S)])]
<1>1. /\ n \in Nat /\ DOMAIN s = T /\ IsFiniteSet(T) /\ b \in W
      /\ \A S \in (SUBSET T) \ {{}} : Max(S) \in S
  <2>1. n \in Nat /\ DOMAIN s = T /\ b \in W
    BY NoTallyType
  <2> QED
    BY <2>1, Segments
<1>2. \A w \in W, i \in T : TallyStep(t, w, s[i]) \in W
  BY TallyType
<1>3. G \in [W \X T -> W] /\ \A w \in W, i \in T : G[<<w, i>>] = TallyStep(t, w, s[i])
  BY <1>2
<1>4. PICK f : Folding(f, T, W, b, last, G)
  <2> HIDE DEF T, W, b, G
  <2>1. \A S \in (SUBSET T) \ {{}} : last[S] \in S
    BY <1>1
  <2> HIDE DEF last
  <2>2. Foldable(T, W, b, last, G)
    BY <1>1, <1>3, <2>1 DEF Foldable
  <2> QED
    BY <2>2, FoldExists
<1>5. f = Fold(f)
  <2> HIDE DEF W, T, b, G
  <2>1. ASSUME NEW S \in SUBSET T PROVE f[S] = Fold(f)[S]
    <3>1. f[S] = IF S = {} THEN b ELSE G[<<f[S \ {last[S]}], last[S]>>]
      BY <1>4 DEF Folding
    <3>2. CASE S = {}
      BY <3>1, <3>2
    <3>3. CASE S # {}
      <4>1. last[S] = Max(S) /\ Max(S) \in T /\ f[S \ {Max(S)}] \in W
        BY <1>1, <1>4, <3>3 DEF Folding
      <4>2. f[S] = TallyStep(t, f[S \ {Max(S)}], s[Max(S)])
        BY <1>3, <3>1, <3>3, <4>1
      <4> QED
        BY <3>3, <4>2
    <3> QED
      BY <3>2, <3>3
  <2> QED
    BY <1>4, <2>1 DEF Folding
<1> DEFINE iter == CHOOSE g : g = Fold(g)
<1>6. iter = Fold(iter)
  BY <1>5
<1>7. TallyOf(t, s) = iter[T]
  <2>1. TallyOf(t, s) = iter[DOMAIN s]
    BY <1>1, Zenon DEF TallyOf, TallyStep, NoTally, FoldLeft, MapThenFoldSet
  <2> QED
    BY <1>1, <2>1
<1> HIDE DEF iter
<1> DEFINE g == [j \in 0 .. n |-> iter[1 .. j]]
<1>8. g[0] = NoTally /\ TallyOf(t, s) = g[n]
  <2>1. 1 .. 0 = {} /\ 1 .. 0 \in SUBSET T /\ T \in SUBSET T
    OBVIOUS
  <2>2. iter[1 .. 0] = NoTally
    BY <1>6, <2>1
  <2> QED
    BY <1>1, <1>7, <2>2
<1>9. ASSUME NEW j \in 1 .. n PROVE g[j] = TallyStep(t, g[j - 1], s[j])
  <2>1. /\ 1 .. j # {} /\ Max(1 .. j) = j /\ (1 .. j) \ {j} = 1 .. (j - 1)
        /\ 1 .. j \in SUBSET T
    BY <1>1, Segments
  <2>2. iter[1 .. j] = TallyStep(t, iter[1 .. (j - 1)], s[j])
    BY <1>6, <2>1
  <2> QED
    BY <1>1, <2>2
<1> QED
  <2> HIDE DEF g
  <2> QED
    BY <1>8, <1>9

\* It is a tally, empty for no rows, and a row is added to it.
LEMMA TallyIs ==
  ASSUME NEW t, NEW s \in Seq(LiveRows), NEW x \in LiveRows
  PROVE  /\ TallyOf(t, s) \in Tallies
         /\ TallyOf(t, <<>>) = NoTally
         /\ TallyOf(t, Append(s, x)) = TallyStep(t, TallyOf(t, s), x)
<1>1. PICK g : /\ g[0] = NoTally /\ TallyOf(t, s) = g[Len(s)]
               /\ \A j \in 1 .. Len(s) : g[j] = TallyStep(t, g[j - 1], s[j])
  BY TallyFold
<1> DEFINE P == {j \in Nat : g[j] \in Tallies}
<1>2. 0 \in P
  BY <1>1, NoTallyType
<1>3. ASSUME NEW j \in 1 .. Len(s), j - 1 \in P PROVE j \in P
  <2>1. s[j] \in LiveRows /\ g[j - 1] \in Tallies
    BY <1>3
  <2> QED
    BY <1>1, <2>1, TallyType
<1>4. Len(s) \in Nat /\ Len(s) \in 0 .. Len(s)
  OBVIOUS
<1>5. Len(s) \in P
  <2> HIDE DEF P
  <2> QED
    BY <1>2, <1>3, <1>4, Along
<1>6. TallyOf(t, <<>>) = NoTally
  <2>1. <<>> \in Seq(LiveRows) /\ Len(<<>>) = 0
    OBVIOUS
  <2> QED
    BY <2>1, TallyFold
<1> DEFINE r == Append(s, x)
<1>7. /\ r \in Seq(LiveRows) /\ Len(r) = Len(s) + 1 /\ r[Len(s) + 1] = x
      /\ \A j \in 1 .. Len(s) : r[j] = s[j]
  OBVIOUS
<1> HIDE DEF r
<1>8. PICK h : /\ h[0] = NoTally /\ TallyOf(t, r) = h[Len(r)]
               /\ \A j \in 1 .. Len(r) : h[j] = TallyStep(t, h[j - 1], r[j])
  BY <1>7, TallyFold
<1>9. \A j \in 1 .. Len(s) : j \in 1 .. Len(r)
  BY <1>4, <1>7
<1>10. \A j \in 1 .. Len(s) : g[j - 1] = h[j - 1] => g[j] = h[j]
  BY <1>1, <1>7, <1>8, <1>9
<1>11. g[Len(s)] = h[Len(s)]
  BY <1>1, <1>4, <1>8, <1>10, SamePrefix
<1>12. Len(r) \in 1 .. Len(r) /\ Len(r) - 1 = Len(s)
  BY <1>4, <1>7
<1>13. h[Len(r)] = TallyStep(t, h[Len(s)], r[Len(r)])
  BY <1>8, <1>12
<1> QED
  BY <1>1, <1>5, <1>6, <1>7, <1>8, <1>11, <1>13 DEF r

\* The profit of the sales on one side, and of all of them.
ProfitOf(side)  == [sale \in Profited |-> IF sale.side = side THEN sale.profit ELSE Zero]
ProfitSum(sales) == Plus(Valued(ProfitOf("SELL"), sales), Valued(ProfitOf("RECONCILE_SELL"), sales))

\* A sale adds its own.
LEMMA ProfitAppend ==
  ASSUME NEW sales \in Seq(Profited), NEW sale \in Profited
  PROVE  /\ ProfitSum(sales) \in Frac
         /\ ProfitSum(Append(sales, sale)) = Plus(ProfitSum(sales), sale.profit)
<1>1. sale.side \in SaleSides /\ sale.profit \in Frac
  BY DEF Profited
<1>2. \A side : ProfitOf(side) \in [Profited -> Frac]
  BY NothingType DEF ProfitOf, Profited
<1>3. PICK a, b, x, y, m : /\ a = Valued(ProfitOf("SELL"), sales)
                           /\ b = Valued(ProfitOf("RECONCILE_SELL"), sales)
                           /\ x = ProfitOf("SELL")[sale] /\ y = ProfitOf("RECONCILE_SELL")[sale]
                           /\ m = sale.profit
  OBVIOUS
<1>4. /\ a \in Frac /\ b \in Frac /\ m \in Frac
      /\ ProfitSum(sales) = Plus(a, b)
      /\ ProfitSum(Append(sales, sale)) = Plus(Plus(a, x), Plus(b, y))
  BY <1>1, <1>2, <1>3, ValuedAppend DEF ProfitSum
<1>5. /\ x = (IF sale.side = "SELL" THEN m ELSE Zero)
      /\ y = (IF sale.side = "RECONCILE_SELL" THEN m ELSE Zero)
  BY <1>3 DEF ProfitOf
<1>6. (x = m /\ y = Zero) \/ (x = Zero /\ y = m)
  BY <1>1, <1>5 DEF SaleSides
<1>7. /\ Plus(a, b) \in Frac /\ Plus(a, Zero) = a /\ Plus(b, Zero) = b
      /\ Plus(Plus(a, m), b) = Plus(Plus(a, b), m) /\ Plus(a, Plus(b, m)) = Plus(Plus(a, b), m)
  <2>1. Plus(Plus(a, m), b) = Plus(a, Plus(m, b)) /\ Plus(m, b) = Plus(b, m)
    BY <1>4, Sums
  <2> QED
    BY <1>4, <2>1, Sums, Closed
<1> QED
  BY <1>3, <1>4, <1>6, <1>7

\* The profits of the sales add up to the profit that the replay makes of the
\* rows.
LEMMA TallyHolds ==
  ASSUME NEW t, NEW rows \in Seq(LiveRows)
  PROVE  /\ TallyOf(t, rows).pos = LiveView(t, rows) /\ TallyOf(t, rows).sales \in Seq(Profited)
         /\ ProfitSum(TallyOf(t, rows).sales) = LiveView(t, rows).realized
<1> DEFINE Right(s) == /\ TallyOf(t, s) \in Tallies /\ TallyOf(t, s).pos = LiveView(t, s)
                       /\ ProfitSum(TallyOf(t, s).sales) = LiveView(t, s).realized
           P == {s \in Seq(LiveRows) : Right(s)}
<1>1. <<>> \in P
  <2>1. <<>> \in Seq(LiveRows) /\ Len(<<>>) = 0
    OBVIOUS
  <2>2. TallyOf(t, <<>>) = NoTally
    BY <2>1, TallyFold
  <2>3. LiveView(t, <<>>) = Nothing
    BY <2>1, LiveViewFold
  <2>4. ProfitSum(<<>>) = Zero
    BY ValuedNone, NothingType, Sums DEF ProfitSum
  <2> QED
    BY <2>1, <2>2, <2>3, <2>4, NoTallyType DEF NoTally, Nothing
<1>2. ASSUME NEW s \in Seq(LiveRows), NEW x \in LiveRows, s \in P PROVE Append(s, x) \in P
  <2>1. Append(s, x) \in Seq(LiveRows)
    OBVIOUS
  <2>2. PICK a, b, v, w : /\ a = TallyOf(t, s) /\ b = TallyOf(t, Append(s, x))
                          /\ v = LiveView(t, s) /\ w = LiveView(t, Append(s, x))
    OBVIOUS
  <2>3. a \in Tallies /\ a.pos = v /\ ProfitSum(a.sales) = v.realized
    BY <1>2, <2>2
  <2>4. b = TallyStep(t, a, x) /\ w = LiveStep(t, v, x)
    BY <2>2, TallyIs, LiveViewIs
  <2>5. b \in Tallies
    BY <2>3, <2>4, TallyType
  <2>6. b.pos = w /\ ProfitSum(b.sales) = w.realized
    <3>1. CASE ~Filling(t, x)
      BY <2>3, <2>4, <3>1 DEF TallyStep, LiveStep
    <3>2. CASE Filling(t, x)
      <4>1. b = WithProfit(a, x) /\ w = LiveReplayRow(v, x) /\ Positive(x.fill.shares)
        BY <2>4, <3>2 DEF TallyStep, LiveStep, Filling, Filled
      <4>2. b.pos = w
        BY <2>3, <4>1, WithProfitIs
      <4>3. CASE x.side = "BUY"
        <5>1. b.sales = a.sales /\ w.realized = v.realized
          BY <2>3, <4>1, <4>3, WithProfitIs
        <5> QED
          BY <2>3, <4>2, <5>1
      <4>4. CASE x.side # "BUY"
        <5>1. PICK sale \in Profited :
                b.sales = Append(a.sales, sale) /\ w.realized = Plus(v.realized, sale.profit)
          BY <2>3, <4>1, <4>4, WithProfitIs
        <5>2. a.sales \in Seq(Profited)
          BY <2>3 DEF Tallies
        <5>3. ProfitSum(b.sales) = Plus(ProfitSum(a.sales), sale.profit)
          BY <5>1, <5>2, ProfitAppend
        <5> QED
          BY <2>3, <4>2, <5>1, <5>3
      <4> QED
        BY <4>3, <4>4
    <3> QED
      BY <3>1, <3>2
  <2> QED
    BY <2>1, <2>2, <2>5, <2>6
<1>3. Seq(LiveRows) \subseteq P
  <2> HIDE DEF P
  <2> QED
    BY <1>1, <1>2, SeqInd
<1> QED
  BY <1>3 DEF Tallies

\* LiveTradesAddUp follows, as the table has the profit of the replay.
LEMMA LiveTradesHold == ASSUME LiveInv PROVE LiveTradesAddUp
<1>1. liveOrders \in Seq(LiveRows)
  BY DEF LiveInv, LiveBook
<1>2. ASSUME NEW t PROVE Plus(Profits(t, "SELL"), Profits(t, "RECONCILE_SELL")) = ActiveLive(t).realized
  <2>1. PICK sales : sales = TallyOf(t, liveOrders).sales
    OBVIOUS
  <2>2. LiveSales(t) = sales
    BY <2>1, Zenon DEF LiveSales, TallyOf
  <2>3. sales \in Seq(Profited) /\ ProfitSum(sales) = ActiveLive(t).realized
    BY <1>1, <2>1, TallyHolds DEF ActiveLive
  <2>4. ASSUME NEW side PROVE Profits(t, side) = Valued(ProfitOf(side), sales)
    <3>1. \A k \in DOMAIN sales : sales[k] \in Profited
      BY <2>3
    <3>2. [k \in DOMAIN sales |-> ProfitOf(side)[sales[k]]] =
            [k \in DOMAIN sales |-> IF sales[k].side = side THEN sales[k].profit ELSE Zero]
      BY <3>1 DEF ProfitOf
    <3> QED
      BY <2>2, <3>2 DEF Profits, Valued
  <2> QED
    BY <2>3, <2>4 DEF ProfitSum
<1>3. \A t \in Tokens \ stale : Overdrawn(t) \/ ActiveLive(t).realized = livePosition[t].realized
  BY LiveViewsHold DEF LiveViewsAgree
<1> QED
  BY <1>2, <1>3 DEF LiveTradesAddUp

\* The profits listed trade by trade, with the losses written off, add up to
\* the realized profit of live_positions.
THEOREM LedgerTrades == LedgerSpec => []LiveTradesAddUp
BY LiveInvHolds, LiveTradesHold, PTL

-----------------------------------------------------------------------------
(* The lots that are left open.                                            *)

\* A sale on its way through the lots: what it has yet to take, and the lots
\* behind it.
Clips == [left : Amounts, lots : Seq(Lots)]

\* What it does to a lot, and to all of them.
ClipLot(lot, n) == [lot EXCEPT !.left = Minus(@, n)]
ClipStep(sale, lot) ==
  LET n == Smaller(lot.left, sale.left)
  IN  [left |-> Minus(sale.left, n), lots |-> Append(sale.lots, ClipLot(lot, n))]
ClipOf(x, lots) ==
  FoldLeft(LAMBDA sale, lot :
             LET n == Smaller(lot.left, sale.left)
             IN  [left |-> Minus(sale.left, n), lots |-> Append(sale.lots, [lot EXCEPT !.left = Minus(@, n)])],
           [left |-> x, lots |-> <<>>], lots)
ClipStart(x) == [left |-> x, lots |-> <<>>]

\* It takes n from the lot, which is all of it or all that the sale has yet to
\* take, and puts what is left behind it.
Clipped(sale, lot, n, after, cut) ==
  /\ n \in Amounts /\ (n = lot.left \/ n = sale.left)
  /\ cut \in Lots /\ cut.left = Minus(lot.left, n) /\ cut.price = lot.price
  /\ after \in Clips /\ after.left = Minus(sale.left, n) /\ after.lots = Append(sale.lots, cut)

\* So does a step.
LEMMA ClipStepIs ==
  ASSUME NEW sale \in Clips, NEW lot \in Lots
  PROVE  \E n, cut : Clipped(sale, lot, n, ClipStep(sale, lot), cut)
<1>1. /\ lot.left \in Amounts /\ lot.price \in Amounts /\ lot = [left |-> lot.left, price |-> lot.price]
      /\ sale.left \in Amounts /\ sale.lots \in Seq(Lots)
  BY DEF Lots, Clips
<1>2. PICK n : n = Smaller(lot.left, sale.left)
  OBVIOUS
<1>3. n \in Amounts /\ AtMost(n, lot.left) /\ AtMost(n, sale.left) /\ (n = lot.left \/ n = sale.left)
  BY <1>1, <1>2, AmountLaws, Smallers DEF Amounts
<1>4. PICK a, b : a = Minus(lot.left, n) /\ b = Minus(sale.left, n)
  OBVIOUS
<1>5. a \in Amounts /\ b \in Amounts
  BY <1>1, <1>3, <1>4, AmountLaws
<1>6. PICK cut : cut = ClipLot(lot, n)
  OBVIOUS
<1>7. cut = [left |-> a, price |-> lot.price]
  BY <1>1, <1>4, <1>6 DEF ClipLot
<1>8. cut \in Lots /\ cut.left = a /\ cut.price = lot.price
  BY <1>1, <1>5, <1>7 DEF Lots
<1>9. ClipStep(sale, lot) = [left |-> b, lots |-> Append(sale.lots, cut)]
  BY <1>2, <1>4, <1>6 DEF ClipStep
<1>10. Append(sale.lots, cut) \in Seq(Lots)
  BY <1>1, <1>8
<1>11. PICK after : after = ClipStep(sale, lot)
  OBVIOUS
<1>12. after \in Clips /\ after.left = b /\ after.lots = Append(sale.lots, cut)
  BY <1>5, <1>9, <1>10, <1>11 DEF Clips
<1>13. Clipped(sale, lot, n, after, cut)
  BY <1>3, <1>4, <1>8, <1>12 DEF Clipped
<1> QED
  BY <1>11, <1>13

\* It stays a sale on its way.
LEMMA ClipType == ASSUME NEW sale \in Clips, NEW lot \in Lots PROVE ClipStep(sale, lot) \in Clips
BY ClipStepIs DEF Clipped

\* It begins as one.
LEMMA ClipStartType == ASSUME NEW x \in Amounts PROVE ClipStart(x) \in Clips
BY DEF ClipStart, Clips

\* The sale, lot by lot.
LEMMA ClipFold ==
  ASSUME NEW k \in Amounts, NEW s \in Seq(Lots)
  PROVE  \E g : /\ g[0] = ClipStart(k) /\ ClipOf(k, s) = g[Len(s)]
                /\ \A j \in 1 .. Len(s) : g[j] = ClipStep(g[j - 1], s[j])
<1> DEFINE n == Len(s)
           T == 1 .. n
           W == Clips
           b == ClipStart(k)
           last == [S \in SUBSET T |-> Max(S)]
           G == [x \in W \X T |-> ClipStep(x[1], s[x[2]])]
           Fold(f) == [S \in SUBSET T |-> IF S = {} THEN b ELSE ClipStep(f[S \ {Max(S)}], s[Max(S)])]
<1>1. /\ n \in Nat /\ DOMAIN s = T /\ IsFiniteSet(T) /\ b \in W
      /\ \A S \in (SUBSET T) \ {{}} : Max(S) \in S
  <2>1. n \in Nat /\ DOMAIN s = T /\ b \in W
    BY ClipStartType
  <2> QED
    BY <2>1, Segments
<1>2. \A w \in W, i \in T : ClipStep(w, s[i]) \in W
  BY ClipType
<1>3. G \in [W \X T -> W] /\ \A w \in W, i \in T : G[<<w, i>>] = ClipStep(w, s[i])
  BY <1>2
<1>4. PICK f : Folding(f, T, W, b, last, G)
  <2> HIDE DEF T, W, b, G
  <2>1. \A S \in (SUBSET T) \ {{}} : last[S] \in S
    BY <1>1
  <2> HIDE DEF last
  <2>2. Foldable(T, W, b, last, G)
    BY <1>1, <1>3, <2>1 DEF Foldable
  <2> QED
    BY <2>2, FoldExists
<1>5. f = Fold(f)
  <2> HIDE DEF W, T, b, G
  <2>1. ASSUME NEW S \in SUBSET T PROVE f[S] = Fold(f)[S]
    <3>1. f[S] = IF S = {} THEN b ELSE G[<<f[S \ {last[S]}], last[S]>>]
      BY <1>4 DEF Folding
    <3>2. CASE S = {}
      BY <3>1, <3>2
    <3>3. CASE S # {}
      <4>1. last[S] = Max(S) /\ Max(S) \in T /\ f[S \ {Max(S)}] \in W
        BY <1>1, <1>4, <3>3 DEF Folding
      <4>2. f[S] = ClipStep(f[S \ {Max(S)}], s[Max(S)])
        BY <1>3, <3>1, <3>3, <4>1
      <4> QED
        BY <3>3, <4>2
    <3> QED
      BY <3>2, <3>3
  <2> QED
    BY <1>4, <2>1 DEF Folding
<1> DEFINE iter == CHOOSE g : g = Fold(g)
<1>6. iter = Fold(iter)
  BY <1>5
<1>7. ClipOf(k, s) = iter[T]
  <2>1. ClipOf(k, s) = iter[DOMAIN s]
    BY <1>1, Zenon DEF ClipOf, ClipStep, ClipLot, ClipStart, FoldLeft, MapThenFoldSet
  <2> QED
    BY <1>1, <2>1
<1> HIDE DEF iter
<1> DEFINE g == [j \in 0 .. n |-> iter[1 .. j]]
<1>8. g[0] = ClipStart(k) /\ ClipOf(k, s) = g[n]
  <2>1. 1 .. 0 = {} /\ 1 .. 0 \in SUBSET T /\ T \in SUBSET T
    OBVIOUS
  <2>2. iter[1 .. 0] = ClipStart(k)
    BY <1>6, <2>1
  <2> QED
    BY <1>1, <1>7, <2>2
<1>9. ASSUME NEW j \in 1 .. n PROVE g[j] = ClipStep(g[j - 1], s[j])
  <2>1. /\ 1 .. j # {} /\ Max(1 .. j) = j /\ (1 .. j) \ {j} = 1 .. (j - 1)
        /\ 1 .. j \in SUBSET T
    BY <1>1, Segments
  <2>2. iter[1 .. j] = ClipStep(iter[1 .. (j - 1)], s[j])
    BY <1>6, <2>1
  <2> QED
    BY <1>1, <2>2
<1> QED
  <2> HIDE DEF g
  <2> QED
    BY <1>8, <1>9

\* It is on its way through no lots, or has gone through one more.
LEMMA ClipIs ==
  ASSUME NEW k \in Amounts, NEW s \in Seq(Lots), NEW x \in Lots
  PROVE  /\ ClipOf(k, s) \in Clips
         /\ ClipOf(k, <<>>) = ClipStart(k)
         /\ ClipOf(k, Append(s, x)) = ClipStep(ClipOf(k, s), x)
<1>1. PICK g : /\ g[0] = ClipStart(k) /\ ClipOf(k, s) = g[Len(s)]
               /\ \A j \in 1 .. Len(s) : g[j] = ClipStep(g[j - 1], s[j])
  BY ClipFold
<1> DEFINE P == {j \in Nat : g[j] \in Clips}
<1>2. 0 \in P
  BY <1>1, ClipStartType
<1>3. ASSUME NEW j \in 1 .. Len(s), j - 1 \in P PROVE j \in P
  <2>1. s[j] \in Lots /\ g[j - 1] \in Clips
    BY <1>3
  <2> QED
    BY <1>1, <2>1, ClipType
<1>4. Len(s) \in Nat /\ Len(s) \in 0 .. Len(s)
  OBVIOUS
<1>5. Len(s) \in P
  <2> HIDE DEF P
  <2> QED
    BY <1>2, <1>3, <1>4, Along
<1>6. ClipOf(k, <<>>) = ClipStart(k)
  <2>1. <<>> \in Seq(Lots) /\ Len(<<>>) = 0
    OBVIOUS
  <2> QED
    BY <2>1, ClipFold
<1> DEFINE r == Append(s, x)
<1>7. /\ r \in Seq(Lots) /\ Len(r) = Len(s) + 1 /\ r[Len(s) + 1] = x
      /\ \A j \in 1 .. Len(s) : r[j] = s[j]
  OBVIOUS
<1> HIDE DEF r
<1>8. PICK h : /\ h[0] = ClipStart(k) /\ ClipOf(k, r) = h[Len(r)]
               /\ \A j \in 1 .. Len(r) : h[j] = ClipStep(h[j - 1], r[j])
  BY <1>7, ClipFold
<1>9. \A j \in 1 .. Len(s) : j \in 1 .. Len(r)
  BY <1>4, <1>7
<1>10. \A j \in 1 .. Len(s) : g[j - 1] = h[j - 1] => g[j] = h[j]
  BY <1>1, <1>7, <1>8, <1>9
<1>11. g[Len(s)] = h[Len(s)]
  BY <1>1, <1>4, <1>8, <1>10, SamePrefix
<1>12. Len(r) \in 1 .. Len(r) /\ Len(r) - 1 = Len(s)
  BY <1>4, <1>7
<1>13. h[Len(r)] = ClipStep(h[Len(s)], r[Len(r)])
  BY <1>8, <1>12
<1> QED
  BY <1>1, <1>5, <1>6, <1>7, <1>8, <1>11, <1>13 DEF r

\* Equal products with the same positive factor have equal factors.
LEMMA SameFactor ==
  ASSUME NEW a \in Frac, NEW b \in Frac, NEW c \in Frac, Positive(c), Times(a, c) = Times(b, c)
  PROVE  a = b
<1>1. PICK d \in Nat \ {0} : Fits(a, d) /\ Fits(b, d) /\ Fits(c, d)
  BY FitTogether
<1>2. PICK x, y, z : x = Num(a, d) /\ y = Num(b, d) /\ z = Num(c, d)
  OBVIOUS
<1>3. x \in Int /\ y \in Int /\ z \in Int /\ z > 0
  BY <1>1, <1>2, NumInt, NumSign
<1>4. PICK e : e = d * d
  OBVIOUS
<1>5. /\ e \in Nat \ {0} /\ Fits(Times(a, c), e) /\ Num(Times(a, c), e) = x * z
      /\ Fits(Times(b, c), e) /\ Num(Times(b, c), e) = y * z
  BY <1>1, <1>2, <1>4, NumTimes
<1>6. x * z = y * z
  BY <1>5
<1>7. z \in Nat \ {0}
  BY <1>3
<1>8. x = y
  BY <1>3, <1>6, <1>7, Cancel
<1>9. Num(a, d) = Num(b, d)
  BY <1>2, <1>8
<1> QED
  BY <1>1, <1>9, NumOrder

\* What a lot loses the sale has less to take,
LEMMA ClipMoves ==
  ASSUME NEW k \in Frac, NEW c \in Frac, NEW h \in Frac, NEW e \in Frac, NEW l \in Frac, NEW n \in Frac,
         Plus(c, k) = Plus(h, e)
  PROVE  Plus(Plus(c, Minus(l, n)), k) = Plus(Plus(h, l), Minus(e, n))
<1>1. Plus(Plus(c, Minus(l, n)), k) = Plus(Plus(c, k), Minus(l, n))
  <2>1. Minus(l, n) \in Frac
    BY Closed
  <2>2. /\ Plus(Plus(c, Minus(l, n)), k) = Plus(c, Plus(Minus(l, n), k))
        /\ Plus(Minus(l, n), k) = Plus(k, Minus(l, n))
        /\ Plus(c, Plus(k, Minus(l, n))) = Plus(Plus(c, k), Minus(l, n))
    BY <2>1, Sums
  <2> QED
    BY <2>2
<1>2. PICK d \in Nat \ {0} : Fits(h, d) /\ Fits(e, d) /\ Fits(l, d) /\ Fits(n, d)
  BY FitTogether
<1>3. Num(h, d) \in Int /\ Num(e, d) \in Int /\ Num(l, d) \in Int /\ Num(n, d) \in Int
  BY <1>2, NumInt
<1>4. /\ Fits(Plus(Plus(h, e), Minus(l, n)), d) /\ Fits(Plus(Plus(h, l), Minus(e, n)), d)
      /\ Num(Plus(Plus(h, e), Minus(l, n)), d) = (Num(h, d) + Num(e, d)) + (Num(l, d) - Num(n, d))
      /\ Num(Plus(Plus(h, l), Minus(e, n)), d) = (Num(h, d) + Num(l, d)) + (Num(e, d) - Num(n, d))
  BY <1>2, NumPlus, NumMinus
<1>5. Plus(Plus(h, e), Minus(l, n)) = Plus(Plus(h, l), Minus(e, n))
  BY <1>3, <1>4, NumOrder
<1> QED
  BY <1>1, <1>5

\* so at the end they have lost what it took of them.
LEMMA ClipEnds ==
  ASSUME NEW k \in Frac, NEW c \in Amounts, NEW h \in Frac, NEW e \in Amounts,
         Plus(c, k) = Plus(h, e), Positive(e) => c = Zero
  PROVE  c = Minus(h, Smaller(k, h))
<1>1. c \in Frac /\ e \in Frac /\ AtMost(Zero, c) /\ AtMost(Zero, e)
  BY DEF Amounts
<1>2. PICK d \in Nat \ {0} : Fits(k, d) /\ Fits(c, d) /\ Fits(h, d) /\ Fits(e, d)
  BY <1>1, FitTogether
<1>3. PICK w, x, y, z : w = Num(k, d) /\ x = Num(c, d) /\ y = Num(h, d) /\ z = Num(e, d)
  OBVIOUS
<1>4. w \in Int /\ x \in Int /\ y \in Int /\ z \in Int /\ Fits(Zero, d) /\ Num(Zero, d) = 0
  BY <1>2, <1>3, NumInt, NumZero
<1>5. x >= 0 /\ z >= 0 /\ (z > 0 => x = 0) /\ x + w = y + z
  <2>1. x >= 0 /\ z >= 0
    BY <1>1, <1>2, <1>3, <1>4, NumOrder
  <2>2. z > 0 => x = 0
    BY <1>2, <1>3, <1>4, NumSign
  <2>3. x + w = y + z
    BY <1>2, <1>3, NumPlus, NumOrder
  <2> QED
    BY <2>1, <2>2, <2>3
<1>6. CASE AtMost(k, h)
  <2>1. w <= y /\ Smaller(k, h) = k
    BY <1>2, <1>3, <1>6, NumOrder DEF Smaller
  <2>2. Fits(Minus(h, k), d) /\ Num(Minus(h, k), d) = y - w
    BY <1>2, <1>3, NumMinus
  <2>3. x = y - w
    BY <1>4, <1>5, <2>1
  <2>4. Num(c, d) = Num(Minus(h, k), d)
    BY <1>3, <2>2, <2>3
  <2>5. c = Minus(h, k)
    BY <1>2, <2>2, <2>4, NumOrder
  <2> QED
    BY <2>1, <2>5
<1>7. CASE ~AtMost(k, h)
  <2>1. ~(w <= y) /\ Smaller(k, h) = h
    BY <1>2, <1>3, <1>7, NumOrder DEF Smaller
  <2>2. Fits(Minus(h, h), d) /\ Num(Minus(h, h), d) = y - y
    BY <1>2, <1>3, NumMinus
  <2>3. x = y - y
    BY <1>4, <1>5, <2>1
  <2>4. Num(c, d) = Num(Minus(h, h), d)
    BY <1>3, <2>2, <2>3
  <2>5. c = Minus(h, h)
    BY <1>2, <2>2, <2>4, NumOrder
  <2> QED
    BY <2>1, <2>5
<1> QED
  BY <1>6, <1>7

\* A sale takes its shares off the lots, or all that they have.
LEMMA ClipLaw ==
  ASSUME NEW k \in Amounts, NEW lots \in Seq(Lots)
  PROVE  /\ ClipOf(k, lots).lots \in Seq(Lots)
         /\ Total(Lefts(ClipOf(k, lots).lots)) = Minus(Total(Lefts(lots)), Smaller(k, Total(Lefts(lots))))
<1> DEFINE Right(s) == /\ ClipOf(k, s) \in Clips /\ Total(Lefts(ClipOf(k, s).lots)) \in Amounts
                       /\ Plus(Total(Lefts(ClipOf(k, s).lots)), k) = Plus(Total(Lefts(s)), ClipOf(k, s).left)
                       /\ Positive(ClipOf(k, s).left) => Total(Lefts(ClipOf(k, s).lots)) = Zero
           P == {s \in Seq(Lots) : Right(s)}
<1>0. k \in Frac
  BY DEF Amounts
<1>1. <<>> \in P
  <2>1. <<>> \in Seq(Lots) /\ Len(<<>>) = 0 /\ Total(Lefts(<<>>)) = Zero
    BY NothingOpen
  <2>2. ClipOf(k, <<>>) = ClipStart(k)
    BY <2>1, ClipFold
  <2> QED
    BY <2>1, <2>2, ClipStartType, NothingType DEF ClipStart
<1>2. ASSUME NEW s \in Seq(Lots), NEW x \in Lots, s \in P PROVE Append(s, x) \in P
  <2>1. Append(s, x) \in Seq(Lots)
    OBVIOUS
  <2>2. PICK a, b, c, h, e, l : /\ a = ClipOf(k, s) /\ b = ClipOf(k, Append(s, x))
                                /\ c = Total(Lefts(a.lots)) /\ h = Total(Lefts(s))
                                /\ e = a.left /\ l = x.left
    OBVIOUS
  <2>3. a \in Clips /\ c \in Amounts /\ Plus(c, k) = Plus(h, e) /\ (Positive(e) => c = Zero)
    BY <1>2, <2>2
  <2>4. PICK n, cut : Clipped(a, x, n, b, cut)
    <3>1. b = ClipStep(a, x)
      BY <2>2, ClipIs
    <3> QED
      BY <2>3, <3>1, ClipStepIs
  <2>5. /\ n \in Amounts /\ cut \in Lots /\ cut.left = Minus(l, n)
        /\ b \in Clips /\ b.left = Minus(e, n) /\ b.lots = Append(a.lots, cut)
        /\ n = l \/ n = e
    BY <2>2, <2>4 DEF Clipped
  <2>6. /\ e \in Amounts /\ l \in Amounts /\ Minus(l, n) \in Amounts /\ Minus(e, n) \in Amounts
        /\ e \in Frac /\ l \in Frac /\ n \in Frac /\ c \in Frac /\ h \in Frac
    <3>1. e \in Amounts /\ l \in Amounts
      BY <2>2, <2>3 DEF Clips, Lots
    <3>2. Minus(l, n) \in Amounts
      BY <2>5 DEF Lots
    <3>3. Minus(e, n) \in Amounts
      BY <2>5 DEF Clips
    <3>4. h \in Frac
      BY <2>2, MoreLots
    <3> QED
      BY <2>3, <2>5, <3>1, <3>2, <3>3, <3>4 DEF Amounts
  <2>7. Total(Lefts(b.lots)) = Plus(c, Minus(l, n)) /\ Total(Lefts(Append(s, x))) = Plus(h, l)
    <3>1. a.lots \in Seq(Lots)
      BY <2>3 DEF Clips
    <3> QED
      BY <2>2, <2>5, <3>1, MoreLots
  <2>8. Plus(c, Minus(l, n)) \in Amounts
    BY <2>3, <2>6, AmountLaws
  <2>9. Plus(Plus(c, Minus(l, n)), k) = Plus(Plus(h, l), Minus(e, n))
    BY <1>0, <2>3, <2>6, ClipMoves
  <2>10. ASSUME Positive(Minus(e, n)) PROVE Plus(c, Minus(l, n)) = Zero
    <3>1. n = l
      <4>1. Minus(e, e) = Zero /\ ~Positive(Zero)
        BY <2>6, Sums, Ordering, NothingType
      <4> QED
        BY <2>5, <2>10, <4>1
    <3>2. Positive(e)
      <4>1. Plus(Minus(e, n), n) = e
        BY <2>6, Sums
      <4> QED
        BY <2>5, <2>6, <2>10, <4>1, AmountLaws
    <3>3. c = Zero /\ Minus(l, l) = Zero
      BY <2>3, <2>6, <3>2, Sums
    <3> QED
      BY <3>1, <3>3, NothingType, Sums
  <2> QED
    BY <2>1, <2>2, <2>5, <2>7, <2>8, <2>9, <2>10
<1>3. Seq(Lots) \subseteq P
  <2> HIDE DEF P
  <2> QED
    BY <1>1, <1>2, SeqInd
<1>4. PICK c, h, e : c = Total(Lefts(ClipOf(k, lots).lots)) /\ h = Total(Lefts(lots)) /\ e = ClipOf(k, lots).left
  OBVIOUS
<1>5. /\ ClipOf(k, lots) \in Clips /\ c \in Amounts /\ Plus(c, k) = Plus(h, e)
      /\ Positive(e) => c = Zero
  BY <1>3, <1>4
<1>6. e \in Amounts /\ ClipOf(k, lots).lots \in Seq(Lots)
  BY <1>4, <1>5 DEF Clips
<1>7. h \in Frac
  <2>1. Lefts(lots) \in Seq(Frac)
    BY LotTypes
  <2> QED
    BY <1>4, <2>1, TotalIn
<1>8. c = Minus(h, Smaller(k, h))
  BY <1>0, <1>5, <1>6, <1>7, ClipEnds
<1> QED
  BY <1>4, <1>6, <1>8

\* What a row does to the lots of a token, and what these rows make of them.
OpenStep(t, lots, row) == IF Filling(t, row) THEN LiveLots(lots, row) ELSE lots
OpenOf(t, rows) ==
  FoldLeft(LAMBDA lots, row : IF Filling(t, row) THEN LiveLots(lots, row) ELSE lots, <<>>, rows)

\* A purchase opens a lot, and a sale goes through them.
LEMMA LiveLotsIs ==
  ASSUME NEW lots \in Seq(Lots), NEW row \in LiveRows
  PROVE  /\ LiveLots(lots, row) \in Seq(Lots)
         /\ row.side = "BUY" =>
              \E lot \in Lots : /\ lot.left = row.fill.shares /\ lot.price = row.fill.price
                                /\ LiveLots(lots, row) = Append(lots, lot)
         /\ row.side # "BUY" => LiveLots(lots, row) = ClipOf(row.fill.shares, lots).lots
<1>1. row.fill.shares \in Amounts /\ row.fill.price \in Amounts
  BY LiveRowType
<1>2. CASE row.side = "BUY"
  <2>1. PICK lot : lot = [left |-> row.fill.shares, price |-> row.fill.price]
    OBVIOUS
  <2>2. lot \in Lots /\ lot.left = row.fill.shares /\ lot.price = row.fill.price
    BY <1>1, <2>1 DEF Lots
  <2>3. LiveLots(lots, row) = Append(lots, lot)
    BY <1>2, <2>1 DEF LiveLots
  <2>4. Append(lots, lot) \in Seq(Lots)
    BY <2>2
  <2> QED
    BY <1>2, <2>2, <2>3, <2>4
<1>3. CASE row.side # "BUY"
  <2>1. LiveLots(lots, row) = ClipOf(row.fill.shares, lots).lots
    BY <1>3, Zenon DEF LiveLots, ClipOf
  <2> QED
    BY <1>1, <1>3, <2>1, ClipLaw
<1> QED
  BY <1>2, <1>3

\* They stay lots.
LEMMA OpenType ==
  ASSUME NEW t, NEW lots \in Seq(Lots), NEW row \in LiveRows PROVE OpenStep(t, lots, row) \in Seq(Lots)
BY LiveLotsIs DEF OpenStep

\* At first there are none.
NoLot == <<>>

\* They are lots.
LEMMA NoLotType == NoLot \in Seq(Lots)
BY NothingOpen DEF NoLot

\* The open lots of a token, row by row.
LEMMA OpenFold ==
  ASSUME NEW t, NEW s \in Seq(LiveRows)
  PROVE  \E g : /\ g[0] = NoLot /\ OpenOf(t, s) = g[Len(s)]
                /\ \A j \in 1 .. Len(s) : g[j] = OpenStep(t, g[j - 1], s[j])
<1> DEFINE n == Len(s)
           T == 1 .. n
           W == Seq(Lots)
           b == NoLot
           last == [S \in SUBSET T |-> Max(S)]
           G == [x \in W \X T |-> OpenStep(t, x[1], s[x[2]])]
           Fold(f) == [S \in SUBSET T |-> IF S = {} THEN b ELSE OpenStep(t, f[S \ {Max(S)}], s[Max(S)])]
<1>1. /\ n \in Nat /\ DOMAIN s = T /\ IsFiniteSet(T) /\ b \in W
      /\ \A S \in (SUBSET T) \ {{}} : Max(S) \in S
  <2>1. n \in Nat /\ DOMAIN s = T /\ b \in W
    BY NoLotType
  <2> QED
    BY <2>1, Segments
<1>2. \A w \in W, i \in T : OpenStep(t, w, s[i]) \in W
  BY OpenType
<1>3. G \in [W \X T -> W] /\ \A w \in W, i \in T : G[<<w, i>>] = OpenStep(t, w, s[i])
  BY <1>2
<1>4. PICK f : Folding(f, T, W, b, last, G)
  <2> HIDE DEF T, W, b, G
  <2>1. \A S \in (SUBSET T) \ {{}} : last[S] \in S
    BY <1>1
  <2> HIDE DEF last
  <2>2. Foldable(T, W, b, last, G)
    BY <1>1, <1>3, <2>1 DEF Foldable
  <2> QED
    BY <2>2, FoldExists
<1>5. f = Fold(f)
  <2> HIDE DEF W, T, b, G
  <2>1. ASSUME NEW S \in SUBSET T PROVE f[S] = Fold(f)[S]
    <3>1. f[S] = IF S = {} THEN b ELSE G[<<f[S \ {last[S]}], last[S]>>]
      BY <1>4 DEF Folding
    <3>2. CASE S = {}
      BY <3>1, <3>2
    <3>3. CASE S # {}
      <4>1. last[S] = Max(S) /\ Max(S) \in T /\ f[S \ {Max(S)}] \in W
        BY <1>1, <1>4, <3>3 DEF Folding
      <4>2. f[S] = OpenStep(t, f[S \ {Max(S)}], s[Max(S)])
        BY <1>3, <3>1, <3>3, <4>1
      <4> QED
        BY <3>3, <4>2
    <3> QED
      BY <3>2, <3>3
  <2> QED
    BY <1>4, <2>1 DEF Folding
<1> DEFINE iter == CHOOSE g : g = Fold(g)
<1>6. iter = Fold(iter)
  BY <1>5
<1>7. OpenOf(t, s) = iter[T]
  <2>1. OpenOf(t, s) = iter[DOMAIN s]
    BY <1>1, Zenon DEF OpenOf, OpenStep, NoLot, FoldLeft, MapThenFoldSet
  <2> QED
    BY <1>1, <2>1
<1> HIDE DEF iter
<1> DEFINE g == [j \in 0 .. n |-> iter[1 .. j]]
<1>8. g[0] = NoLot /\ OpenOf(t, s) = g[n]
  <2>1. 1 .. 0 = {} /\ 1 .. 0 \in SUBSET T /\ T \in SUBSET T
    OBVIOUS
  <2>2. iter[1 .. 0] = NoLot
    BY <1>6, <2>1
  <2> QED
    BY <1>1, <1>7, <2>2
<1>9. ASSUME NEW j \in 1 .. n PROVE g[j] = OpenStep(t, g[j - 1], s[j])
  <2>1. /\ 1 .. j # {} /\ Max(1 .. j) = j /\ (1 .. j) \ {j} = 1 .. (j - 1)
        /\ 1 .. j \in SUBSET T
    BY <1>1, Segments, SMTT(30)
  <2>2. iter[1 .. j] = OpenStep(t, iter[1 .. (j - 1)], s[j])
    BY <1>6, <2>1
  <2> QED
    BY <1>1, <2>2
<1> QED
  <2> HIDE DEF g
  <2> QED
    BY <1>8, <1>9

\* They are lots, none for no rows, and a row is set against them.
LEMMA OpenIs ==
  ASSUME NEW t, NEW s \in Seq(LiveRows), NEW x \in LiveRows
  PROVE  /\ OpenOf(t, s) \in Seq(Lots)
         /\ OpenOf(t, <<>>) = NoLot
         /\ OpenOf(t, Append(s, x)) = OpenStep(t, OpenOf(t, s), x)
<1>1. PICK g : /\ g[0] = NoLot /\ OpenOf(t, s) = g[Len(s)]
               /\ \A j \in 1 .. Len(s) : g[j] = OpenStep(t, g[j - 1], s[j])
  BY OpenFold
<1> DEFINE P == {j \in Nat : g[j] \in Seq(Lots)}
<1>2. 0 \in P
  BY <1>1, NoLotType
<1>3. ASSUME NEW j \in 1 .. Len(s), j - 1 \in P PROVE j \in P
  <2>1. s[j] \in LiveRows /\ g[j - 1] \in Seq(Lots)
    BY <1>3
  <2> QED
    BY <1>1, <2>1, OpenType
<1>4. Len(s) \in Nat /\ Len(s) \in 0 .. Len(s)
  OBVIOUS
<1>5. Len(s) \in P
  <2> HIDE DEF P
  <2> QED
    BY <1>2, <1>3, <1>4, Along
<1>6. OpenOf(t, <<>>) = NoLot
  <2>1. <<>> \in Seq(LiveRows) /\ Len(<<>>) = 0
    OBVIOUS
  <2> QED
    BY <2>1, OpenFold
<1> DEFINE r == Append(s, x)
<1>7. /\ r \in Seq(LiveRows) /\ Len(r) = Len(s) + 1 /\ r[Len(s) + 1] = x
      /\ \A j \in 1 .. Len(s) : r[j] = s[j]
  OBVIOUS
<1> HIDE DEF r
<1>8. PICK h : /\ h[0] = NoLot /\ OpenOf(t, r) = h[Len(r)]
               /\ \A j \in 1 .. Len(r) : h[j] = OpenStep(t, h[j - 1], r[j])
  BY <1>7, OpenFold
<1>9. \A j \in 1 .. Len(s) : j \in 1 .. Len(r)
  BY <1>4, <1>7
<1>10. \A j \in 1 .. Len(s) : g[j - 1] = h[j - 1] => g[j] = h[j]
  BY <1>1, <1>7, <1>8, <1>9
<1>11. g[Len(s)] = h[Len(s)]
  BY <1>1, <1>4, <1>8, <1>10, SamePrefix
<1>12. Len(r) \in 1 .. Len(r) /\ Len(r) - 1 = Len(s)
  BY <1>4, <1>7
<1>13. h[Len(r)] = OpenStep(t, h[Len(s)], r[Len(r)])
  BY <1>8, <1>12
<1> QED
  BY <1>1, <1>5, <1>6, <1>7, <1>8, <1>11, <1>13 DEF r

\* What the lots have left is what the replay holds.
LEMMA OpenHolds ==
  ASSUME NEW t, NEW rows \in Seq(LiveRows)
  PROVE  OpenOf(t, rows) \in Seq(Lots) /\ Total(Lefts(OpenOf(t, rows))) = LiveView(t, rows).shares
<1> DEFINE Right(s) == /\ OpenOf(t, s) \in Seq(Lots) /\ LiveView(t, s) \in Positions
                       /\ Total(Lefts(OpenOf(t, s))) = LiveView(t, s).shares
           P == {s \in Seq(LiveRows) : Right(s)}
<1>1. <<>> \in P
  <2>1. <<>> \in Seq(LiveRows) /\ Len(<<>>) = 0
    OBVIOUS
  <2>2. LiveView(t, <<>>) = Nothing
    BY <2>1, LiveViewFold
  <2>3. OpenOf(t, <<>>) = <<>>
    <3>1. OpenOf(t, <<>>) = NoLot
      BY <2>1, OpenFold
    <3> QED
      BY <3>1 DEF NoLot
  <2>4. Total(Lefts(<<>>)) = Zero /\ <<>> \in Seq(Lots) /\ Nothing.shares = Zero
    BY NothingOpen DEF Nothing
  <2>5. Right(<<>>)
    BY <2>2, <2>3, <2>4, NothingType, Zenon
  <2> QED
    BY <2>1, <2>5
<1>2. ASSUME NEW s \in Seq(LiveRows), NEW x \in LiveRows, s \in P PROVE Append(s, x) \in P
  <2>1. Append(s, x) \in Seq(LiveRows)
    OBVIOUS
  <2>2. PICK a, b, v, w : /\ a = OpenOf(t, s) /\ b = OpenOf(t, Append(s, x))
                          /\ v = LiveView(t, s) /\ w = LiveView(t, Append(s, x))
    OBVIOUS
  <2>3. a \in Seq(Lots) /\ v \in Positions /\ Total(Lefts(a)) = v.shares
    BY <1>2, <2>2
  <2>4. b = OpenStep(t, a, x) /\ w = LiveStep(t, v, x)
    BY <2>2, OpenIs, LiveViewIs
  <2>5. b \in Seq(Lots) /\ w \in Positions
    BY <2>3, <2>4, OpenType, LiveStepType
  <2>6. Total(Lefts(b)) = w.shares
    <3>1. CASE ~Filling(t, x)
      BY <2>3, <2>4, <3>1 DEF OpenStep, LiveStep
    <3>2. CASE Filling(t, x)
      <4>1. b = LiveLots(a, x) /\ w = LiveReplayRow(v, x) /\ Positive(x.fill.shares)
        BY <2>4, <3>2 DEF OpenStep, LiveStep, Filling, Filled
      <4>2. CASE x.side = "BUY"
        <5>1. w.shares = Plus(v.shares, x.fill.shares)
          BY <2>3, <4>1, <4>2, ReplayedRow DEF Added, Bought
        <5>2. PICK lot \in Lots : lot.left = x.fill.shares /\ b = Append(a, lot)
          BY <2>3, <4>1, <4>2, LiveLotsIs
        <5>3. Total(Lefts(b)) = Plus(Total(Lefts(a)), lot.left)
          BY <2>3, <5>2, MoreLots
        <5> QED
          BY <2>3, <5>1, <5>2, <5>3
      <4>3. CASE x.side # "BUY"
        <5>1. w.shares = Minus(v.shares, Smaller(x.fill.shares, v.shares))
          BY <2>3, <4>1, <4>3, ReplayedRow DEF Taken
        <5>2. b = ClipOf(x.fill.shares, a).lots /\ x.fill.shares \in Amounts
          BY <2>3, <4>1, <4>3, LiveLotsIs, LiveRowType
        <5>3. Total(Lefts(b)) = Minus(Total(Lefts(a)), Smaller(x.fill.shares, Total(Lefts(a))))
          BY <2>3, <5>2, ClipLaw
        <5> QED
          BY <2>3, <5>1, <5>3
      <4> QED
        BY <4>2, <4>3
    <3> QED
      BY <3>1, <3>2
  <2> QED
    BY <2>1, <2>2, <2>5, <2>6
<1>3. Seq(LiveRows) \subseteq P
  <2> HIDE DEF P
  <2> QED
    BY <1>1, <1>2, SeqInd
<1> QED
  BY <1>3

\* LiveLotsAddUp follows.
LEMMA LiveLotsHold == ASSUME LiveInv PROVE LiveLotsAddUp
<1>1. liveOrders \in Seq(LiveRows)
  BY DEF LiveInv, LiveBook
<1>2. ASSUME NEW t
      PROVE  Total([k \in DOMAIN OpenLots(t) |-> OpenLots(t)[k].left]) = ActiveLive(t).shares
  <2>1. OpenLots(t) = OpenOf(t, liveOrders)
    BY Zenon DEF OpenLots, OpenOf
  <2>2. Total(Lefts(OpenLots(t))) = ActiveLive(t).shares
    BY <1>1, <2>1, OpenHolds DEF ActiveLive
  <2> QED
    BY <2>2 DEF Lefts
<1> QED
  BY <1>2 DEF LiveLotsAddUp

\* The lots left open, the oldest sold first, are the shares that the dashboard
\* holds.
THEOREM LedgerLots == LedgerSpec => []LiveLotsAddUp
BY LiveInvHolds, LiveLotsHold, PTL

-----------------------------------------------------------------------------
(* The open trades.                                                        *)

\* All lots have this price.
PricedAt(p, lots) == \A i \in DOMAIN lots : lots[i].price = p

\* One more has it too.
LEMMA PricedAppend ==
  ASSUME NEW p, NEW lots \in Seq(Lots), NEW lot \in Lots
  PROVE  PricedAt(p, Append(lots, lot)) <=> PricedAt(p, lots) /\ lot.price = p
<1>1. PICK n, more : n = Len(lots) /\ more = Append(lots, lot)
  OBVIOUS
<1>2. /\ n \in Nat /\ DOMAIN lots = 1 .. n /\ DOMAIN more = 1 .. (n + 1) /\ more[n + 1] = lot
      /\ \A i \in 1 .. n : more[i] = lots[i]
  BY <1>1
<1>3. \A i \in 1 .. (n + 1) : i \in 1 .. n \/ i = n + 1
  BY <1>2
<1>4. n + 1 \in 1 .. (n + 1) /\ \A i \in 1 .. n : i \in 1 .. (n + 1)
  BY <1>2
<1>5. ASSUME PricedAt(p, more) PROVE PricedAt(p, lots) /\ lot.price = p
  BY <1>2, <1>4, <1>5 DEF PricedAt
<1>6. ASSUME PricedAt(p, lots), lot.price = p PROVE PricedAt(p, more)
  BY <1>2, <1>3, <1>6 DEF PricedAt
<1> QED
  BY <1>1, <1>5, <1>6

\* A sale leaves the lots their price.
LEMMA ClipPriced ==
  ASSUME NEW p, NEW k \in Amounts, NEW lots \in Seq(Lots), PricedAt(p, lots)
  PROVE  PricedAt(p, ClipOf(k, lots).lots)
<1> DEFINE Right(s) == ClipOf(k, s) \in Clips /\ (PricedAt(p, s) => PricedAt(p, ClipOf(k, s).lots))
           P == {s \in Seq(Lots) : Right(s)}
<1>1. <<>> \in P
  <2>1. <<>> \in Seq(Lots) /\ Len(<<>>) = 0
    BY NothingOpen
  <2>2. ClipOf(k, <<>>) = ClipStart(k)
    BY <2>1, ClipFold
  <2>3. ClipStart(k).lots = <<>>
    BY DEF ClipStart
  <2> QED
    BY <2>1, <2>2, <2>3, ClipStartType
<1>2. ASSUME NEW s \in Seq(Lots), NEW x \in Lots, s \in P PROVE Append(s, x) \in P
  <2>1. Append(s, x) \in Seq(Lots)
    OBVIOUS
  <2>2. PICK a, b : a = ClipOf(k, s) /\ b = ClipOf(k, Append(s, x))
    OBVIOUS
  <2>3. a \in Clips /\ (PricedAt(p, s) => PricedAt(p, a.lots))
    BY <1>2, <2>2
  <2>4. PICK n, cut : Clipped(a, x, n, b, cut)
    <3>1. b = ClipStep(a, x)
      BY <2>2, ClipIs
    <3> QED
      BY <2>3, <3>1, ClipStepIs
  <2>5. cut \in Lots /\ cut.price = x.price /\ b \in Clips /\ b.lots = Append(a.lots, cut)
    BY <2>4 DEF Clipped
  <2>6. a.lots \in Seq(Lots)
    BY <2>3 DEF Clips
  <2>7. ASSUME PricedAt(p, Append(s, x)) PROVE PricedAt(p, b.lots)
    <3>1. PricedAt(p, s) /\ x.price = p
      BY <2>7, PricedAppend
    <3>2. PricedAt(p, a.lots) /\ cut.price = p
      BY <2>3, <2>5, <3>1
    <3>3. PricedAt(p, Append(a.lots, cut))
      BY <2>5, <2>6, <3>2, PricedAppend
    <3> QED
      BY <2>5, <3>3
  <2> QED
    BY <2>1, <2>2, <2>5, <2>7
<1>3. Seq(Lots) \subseteq P
  <2> HIDE DEF P
  <2> QED
    BY <1>1, <1>2, SeqInd
<1> QED
  BY <1>3

\* What a lot gains at this bid.
LotGain(w) == [lot \in Lots |-> Times(lot.left, Minus(w, lot.price))]

\* Lots of one price gain what all their shares would.
LEMMA LotsGain ==
  ASSUME NEW p \in Frac, NEW w \in Frac, NEW lots \in Seq(Lots), PricedAt(p, lots)
  PROVE  Valued(LotGain(w), lots) = Times(Total(Lefts(lots)), Minus(w, p))
<1>1. Minus(w, p) \in Frac
  BY Closed
<1> DEFINE Right(s) == PricedAt(p, s) => Valued(LotGain(w), s) = Times(Total(Lefts(s)), Minus(w, p))
           P == {s \in Seq(Lots) : Right(s)}
<1>2. <<>> \in P
  <2>1. <<>> \in Seq(Lots) /\ Total(Lefts(<<>>)) = Zero /\ Valued(LotGain(w), <<>>) = Zero
    BY NothingOpen, ValuedNone
  <2>2. Times(Zero, Minus(w, p)) = Zero
    BY <1>1, Products
  <2> QED
    BY <2>1, <2>2
<1>3. LotGain(w) \in [Lots -> Frac]
  <2>1. ASSUME NEW lot \in Lots PROVE Times(lot.left, Minus(w, lot.price)) \in Frac
    <3>1. lot.left \in Frac /\ lot.price \in Frac
      BY DEF Lots, Amounts
    <3>2. Minus(w, lot.price) \in Frac
      BY <3>1, Closed
    <3> QED
      BY <3>1, <3>2, Closed
  <2> QED
    BY <2>1 DEF LotGain
<1>4. ASSUME NEW s \in Seq(Lots), NEW x \in Lots, s \in P PROVE Append(s, x) \in P
  <2>1. Append(s, x) \in Seq(Lots)
    OBVIOUS
  <2>2. ASSUME PricedAt(p, Append(s, x))
        PROVE  Valued(LotGain(w), Append(s, x)) = Times(Total(Lefts(Append(s, x))), Minus(w, p))
    <3>1. PricedAt(p, s) /\ x.price = p
      BY <2>2, PricedAppend
    <3>2. PICK h, l : h = Total(Lefts(s)) /\ l = x.left
      OBVIOUS
    <3>3. h \in Frac /\ l \in Frac /\ Total(Lefts(Append(s, x))) = Plus(h, l)
      <4>1. x.left \in Amounts
        BY DEF Lots
      <4> QED
        BY <3>2, <4>1, MoreLots DEF Amounts
    <3>4. Valued(LotGain(w), Append(s, x)) = Plus(Valued(LotGain(w), s), LotGain(w)[x])
      BY <1>3, ValuedAppend
    <3>5. Valued(LotGain(w), s) = Times(h, Minus(w, p))
      BY <1>4, <3>1, <3>2
    <3>6. LotGain(w)[x] = Times(l, Minus(w, p))
      BY <3>1, <3>2 DEF LotGain
    <3>7. Times(Plus(h, l), Minus(w, p)) = Plus(Times(h, Minus(w, p)), Times(l, Minus(w, p)))
      BY <1>1, <3>3, Products
    <3> QED
      BY <3>3, <3>4, <3>5, <3>6, <3>7
  <2> QED
    BY <2>1, <2>2
<1>5. Seq(Lots) \subseteq P
  <2> HIDE DEF P
  <2> QED
    BY <1>2, <1>4, SeqInd
<1> QED
  BY <1>5

\* A purchase at this price, for the money that it comes to.
BuysAt(t, p, row) ==
  Filling(t, row) /\ row.side = "BUY" =>
    row.fill.price = p /\ Notional(row, row.fill.shares) = Times(row.fill.shares, p)
AllAt(t, p, rows) == \A i \in DOMAIN rows : BuysAt(t, p, rows[i])

\* A list of them with one row more.
LEMMA AllAtAppend ==
  ASSUME NEW t, NEW p, NEW rows \in Seq(LiveRows), NEW row \in LiveRows, AllAt(t, p, Append(rows, row))
  PROVE  AllAt(t, p, rows) /\ BuysAt(t, p, row)
<1>1. PICK n, more : n = Len(rows) /\ more = Append(rows, row)
  OBVIOUS
<1>2. /\ n \in Nat /\ DOMAIN rows = 1 .. n /\ DOMAIN more = 1 .. (n + 1) /\ more[n + 1] = row
      /\ \A i \in 1 .. n : more[i] = rows[i]
  BY <1>1
<1>3. n + 1 \in 1 .. (n + 1) /\ \A i \in 1 .. n : i \in 1 .. (n + 1)
  BY <1>2
<1> QED
  BY <1>1, <1>2, <1>3 DEF AllAt

\* A purchase at the average price leaves it.
LEMMA SameAverage ==
  ASSUME NEW p \in Amounts, NEW v \in Positions, Positive(v.shares) => v.avg = p,
         NEW n \in Amounts, Positive(n)
  PROVE  Bought(v, [shares |-> n, usd |-> Times(n, p)]).avg = p
<1>1. /\ v.shares \in Amounts /\ v.shares \in Frac /\ v.avg \in Frac /\ p \in Frac /\ n \in Frac
  BY DEF Positions, Amounts
<1>2. PICK all : all = Plus(v.shares, n)
  OBVIOUS
<1>3. all \in Frac /\ Positive(all)
  BY <1>1, <1>2, AmountLaws DEF Amounts
<1>4. Times(v.avg, v.shares) = Times(v.shares, p)
  <2>1. CASE Positive(v.shares)
    BY <1>1, <2>1, Products
  <2>2. CASE v.shares = Zero
    <3>1. Times(v.avg, Zero) = Zero /\ Times(Zero, p) = Zero
      BY <1>1, NothingType, Products
    <3> QED
      BY <2>2, <3>1
  <2> QED
    BY <1>1, <2>1, <2>2, AmountLaws
<1>5. Plus(Times(v.avg, v.shares), Times(n, p)) = Times(p, all)
  <2>1. Times(Plus(v.shares, n), p) = Plus(Times(v.shares, p), Times(n, p))
    BY <1>1, Products
  <2>2. Times(p, all) = Times(all, p)
    BY <1>1, <1>3, Products
  <2> QED
    BY <1>2, <1>4, <2>1, <2>2
<1>6. PICK spent, x : spent = Times(p, all) /\ x = Over(spent, all)
  OBVIOUS
<1>7. spent \in Frac /\ x \in Frac /\ Times(x, all) = Times(p, all)
  <2>1. spent \in Frac
    BY <1>1, <1>3, <1>6, Closed
  <2>2. x \in Frac
    BY <1>3, <1>6, <2>1, Closed
  <2>3. Times(x, all) = spent
    BY <1>3, <1>6, <2>1, Quotients
  <2> QED
    BY <1>6, <2>1, <2>2, <2>3
<1>8. x = p
  BY <1>1, <1>3, <1>7, SameFactor
<1>9. Bought(v, [shares |-> n, usd |-> Times(n, p)]).avg = Over(Plus(Times(v.avg, v.shares), Times(n, p)), all)
  BY <1>2 DEF Bought
<1> QED
  BY <1>5, <1>6, <1>8, <1>9

\* While all purchases are at one price, it is the average cost of what is
\* held, and the price of every lot.
LEMMA OnePrice ==
  ASSUME NEW t, NEW p \in Amounts, NEW rows \in Seq(LiveRows), AllAt(t, p, rows)
  PROVE  /\ Positive(LiveView(t, rows).shares) => LiveView(t, rows).avg = p
         /\ PricedAt(p, OpenOf(t, rows))
<1> DEFINE Flat(s) == /\ Positive(LiveView(t, s).shares) => LiveView(t, s).avg = p
                      /\ PricedAt(p, OpenOf(t, s))
           P == {s \in Seq(LiveRows) : AllAt(t, p, s) => Flat(s)}
<1>1. <<>> \in P
  <2>1. <<>> \in Seq(LiveRows) /\ Len(<<>>) = 0
    OBVIOUS
  <2>2. LiveView(t, <<>>) = Nothing
    BY <2>1, LiveViewFold
  <2>3. OpenOf(t, <<>>) = <<>>
    <3>1. OpenOf(t, <<>>) = NoLot
      BY <2>1, OpenFold
    <3> QED
      BY <3>1 DEF NoLot
  <2>4. ~Positive(Nothing.shares)
    BY NothingType, Ordering DEF Nothing
  <2>5. PricedAt(p, <<>>)
    BY DEF PricedAt
  <2>6. Flat(<<>>)
    BY <2>2, <2>3, <2>4, <2>5, Zenon
  <2> QED
    BY <2>1, <2>6
<1>2. ASSUME NEW s \in Seq(LiveRows), NEW x \in LiveRows, s \in P PROVE Append(s, x) \in P
  <2>1. Append(s, x) \in Seq(LiveRows)
    OBVIOUS
  <2>2. PICK a, b, v, w : /\ a = OpenOf(t, s) /\ b = OpenOf(t, Append(s, x))
                          /\ v = LiveView(t, s) /\ w = LiveView(t, Append(s, x))
    OBVIOUS
  <2>3. a \in Seq(Lots) /\ v \in Positions
    BY <2>2, OpenHolds, LiveViewIs
  <2>4. b = OpenStep(t, a, x) /\ w = LiveStep(t, v, x)
    BY <2>2, OpenIs, LiveViewIs
  <2>5. ASSUME AllAt(t, p, Append(s, x))
        PROVE  (Positive(w.shares) => w.avg = p) /\ PricedAt(p, b)
    <3>1. (Positive(v.shares) => v.avg = p) /\ PricedAt(p, a) /\ BuysAt(t, p, x)
      BY <1>2, <2>2, <2>5, AllAtAppend
    <3>2. CASE ~Filling(t, x)
      BY <2>4, <3>1, <3>2 DEF OpenStep, LiveStep
    <3>3. CASE Filling(t, x)
      <4>1. /\ b = LiveLots(a, x) /\ w = LiveReplayRow(v, x) /\ Positive(x.fill.shares)
            /\ x.fill.shares \in Amounts
        BY <2>4, <3>3, LiveRowType DEF OpenStep, LiveStep, Filling, Filled
      <4>2. CASE x.side = "BUY"
        <5>1. x.fill.price = p /\ Notional(x, x.fill.shares) = Times(x.fill.shares, p)
          BY <3>1, <3>3, <4>2 DEF BuysAt
        <5>2. w = Bought(v, [shares |-> x.fill.shares, usd |-> Times(x.fill.shares, p)])
          BY <4>1, <4>2, <5>1 DEF LiveReplayRow
        <5>3. w.avg = p
          BY <2>3, <3>1, <4>1, <5>2, SameAverage
        <5>4. PICK lot \in Lots : lot.price = x.fill.price /\ b = Append(a, lot)
          BY <2>3, <4>1, <4>2, LiveLotsIs
        <5>5. PricedAt(p, b)
          BY <2>3, <3>1, <5>1, <5>4, PricedAppend
        <5> QED
          BY <5>3, <5>5
      <4>3. CASE x.side # "BUY"
        <5>1. PICK n : n = Smaller(x.fill.shares, v.shares)
          OBVIOUS
        <5>2. n \in Amounts /\ AtMost(n, v.shares) /\ Taken(v, w, n, Notional(x, n))
          BY <2>3, <4>1, <4>3, <5>1, ReplayedRow
        <5>3. ASSUME Positive(w.shares) PROVE w.avg = p
          <6>1. w.avg = v.avg /\ w.shares = Minus(v.shares, n)
            BY <5>2, <5>3 DEF Taken
          <6>2. Positive(v.shares)
            <7>1. v.shares \in Amounts /\ w.shares \in Amounts /\ v.shares \in Frac /\ n \in Frac
              BY <2>3, <5>2, <6>1, AmountLaws DEF Positions, Amounts
            <7>2. Plus(w.shares, n) = v.shares
              BY <6>1, <7>1, Sums
            <7> QED
              BY <5>2, <5>3, <7>1, <7>2, AmountLaws
          <6> QED
            BY <3>1, <6>1, <6>2
        <5>4. b = ClipOf(x.fill.shares, a).lots
          BY <2>3, <4>1, <4>3, LiveLotsIs
        <5>5. PricedAt(p, b)
          BY <2>3, <3>1, <4>1, <5>4, ClipPriced
        <5> QED
          BY <5>3, <5>5
      <4> QED
        BY <4>2, <4>3
    <3> QED
      BY <3>2, <3>3
  <2> QED
    BY <2>1, <2>2, <2>5
<1>3. Seq(LiveRows) \subseteq P
  <2> HIDE DEF P
  <2> QED
    BY <1>1, <1>2, SeqInd
<1> QED
  BY <1>3

\* OpenTradesMatchTile follows.
LEMMA OpenTradesHold == ASSUME LiveInv PROVE OpenTradesMatchTile
<1> SUFFICES ASSUME NEW t \in Tokens, NEW p \in {liveOrders[i].fill.price : i \in DOMAIN liveOrders},
                    \A row \in ToSet(liveOrders) : Filling(t, row) /\ row.side = "BUY" =>
                      row.fill.price = p /\ Notional(row, row.fill.shares) = Times(row.fill.shares, p)
             PROVE  OpenTrades(t) = OpenValue(ActiveLive(t), LatestBid(t))
  BY DEF OpenTradesMatchTile
<1>1. liveOrders \in Seq(LiveRows) /\ PaperTypes
  BY DEF LiveInv, LiveBook
<1>2. p \in Amounts /\ p \in Frac
  <2>1. PICK i \in DOMAIN liveOrders : p = liveOrders[i].fill.price
    OBVIOUS
  <2>2. liveOrders[i] \in LiveRows
    BY <1>1
  <2> QED
    BY <2>1, <2>2, LiveRowType DEF Amounts
<1>3. AllAt(t, p, liveOrders)
  BY DEF AllAt, BuysAt, ToSet
<1>4. PICK v, lots, bids : v = ActiveLive(t) /\ lots = OpenLots(t) /\ bids = LatestBid(t)
  OBVIOUS
<1>5. v = LiveView(t, liveOrders) /\ lots = OpenOf(t, liveOrders)
  <2>1. OpenLots(t) = OpenOf(t, liveOrders)
    BY Zenon DEF OpenLots, OpenOf
  <2> QED
    BY <1>4, <2>1 DEF ActiveLive
<1>6. v \in Positions
  BY <1>4, ActiveLiveType
<1>7. bids = {} \/ \E b \in Nat : bids = {b}
  BY <1>1, <1>4, LatestBidIs
<1>8. OpenTrades(t) = IF bids = {} \/ ~Positive(v.shares) THEN Zero
                      ELSE Total([k \in DOMAIN lots |-> Times(lots[k].left, Minus(Whole(Max(bids)), lots[k].price))])
  BY <1>4 DEF OpenTrades
<1>9. CASE bids = {} \/ ~Positive(v.shares)
  <2>1. OpenTrades(t) = Zero
    BY <1>8, <1>9
  <2>2. OpenValue(v, bids) = Zero
    <3>1. CASE bids = {}
      BY <3>1 DEF OpenValue
    <3>2. CASE ~Positive(v.shares)
      BY <1>6, <1>7, <3>2, OpenNothing
    <3> QED
      BY <1>9, <3>1, <3>2
  <2> QED
    BY <1>4, <2>1, <2>2
<1>10. CASE bids # {} /\ Positive(v.shares)
  <2>1. PICK w : w = Whole(Max(bids))
    OBVIOUS
  <2>2. w \in Frac
    <3>1. PICK b \in Nat : bids = {b}
      BY <1>7, <1>10
    <3>2. Max({b}) = b
      BY DEF Max
    <3> QED
      BY <2>1, <3>1, <3>2, Wholes
  <2>3. v.avg = p /\ PricedAt(p, lots)
    BY <1>1, <1>2, <1>3, <1>5, <1>10, OnePrice
  <2>4. lots \in Seq(Lots) /\ Total(Lefts(lots)) = v.shares
    BY <1>1, <1>5, OpenHolds
  <2>5. Valued(LotGain(w), lots) = Times(v.shares, Minus(w, p))
    BY <1>2, <2>2, <2>3, <2>4, LotsGain
  <2>6. OpenTrades(t) = Valued(LotGain(w), lots)
    <3>1. \A k \in DOMAIN lots : lots[k] \in Lots
      BY <2>4
    <3>2. [k \in DOMAIN lots |-> LotGain(w)[lots[k]]] =
            [k \in DOMAIN lots |-> Times(lots[k].left, Minus(w, lots[k].price))]
      BY <3>1 DEF LotGain
    <3>3. OpenTrades(t) = Total([k \in DOMAIN lots |-> Times(lots[k].left, Minus(w, lots[k].price))])
      BY <1>8, <1>10, <2>1
    <3> QED
      BY <3>2, <3>3 DEF Valued
  <2>7. OpenValue(v, bids) = Times(v.shares, Minus(w, p))
    BY <1>10, <2>1, <2>3 DEF OpenValue
  <2> QED
    BY <1>4, <2>5, <2>6, <2>7
<1> QED
  BY <1>9, <1>10

\* While the purchases of a token have one price and their money is their
\* shares at it, the open trades one by one are worth what the tile says.
THEOREM LedgerOpenTrades == LedgerSpec => []OpenTradesMatchTile
BY LiveInvHolds, OpenTradesHold, PTL
=============================================================================
