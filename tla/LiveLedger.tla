----------------------------- MODULE LiveLedger -----------------------------
(***************************************************************************)
(* The money of live trading: live_orders and live_positions with prices,  *)
(* costs and profits, and the views of the dashboards over them.           *)
(*                                                                         *)
(* LiveExecution takes the same handlers apart commit by commit and counts *)
(* shares only.  Here a handler is one step and the question is the money: *)
(* what a fill costs when the exchange tells only half of it, and whether  *)
(* the positions that trades keep up, the ones a rebuild makes, the tiles, *)
(* the lists and the chart say the same.                                   *)
(*                                                                         *)
(* The books, the walk over them and the tables of paper trading come from *)
(* PaperTrading: a loop trades either on paper or live (mode).             *)
(***************************************************************************)
EXTENDS PaperTrading

CONSTANTS
  Kinds,       \* the answers that the exchange gives, see FillValues
  LiveCap,     \* Settings.live_total_open_exposure_cap_usd
  Grain,       \* the exchange sells whole parts of 1/Grain of a share
  MaxRows,     \* bound on the rows of live_orders
  MaxPasses,   \* bound on the reconciliations
  MaxSteps     \* bound on rows, reconciliations and snapshots together

ASSUME LedgerAssumption ==
  /\ {LiveCap, MaxRows, MaxPasses, MaxSteps} \subseteq Nat /\ Grain \in Nat \ {0}
  /\ Kinds \subseteq {"match", "size", "bare", "word"}

VARIABLES
  mode,          \* how this loop trades: "paper" or "live"
  liveOrders,    \* live_orders, by id, but for blocked and rejected ones
  livePosition,  \* live_positions
  passes,        \* reconciliations so far
  stale          \* history: tokens whose position is not what their rows say,
                 \* since a pass was cut short or a fill had no money

liveVars   == <<mode, liveOrders, livePosition, passes, stale>>
ledgerVars == <<position, orders, snapshots, call, trades, cuts, torn, mixed, manual,
                mode, liveOrders, livePosition, passes, stale>>

-----------------------------------------------------------------------------
(* What the exchange says of an order.                                     *)

\* No shares and no money, of an order that is not there.
Unknown == [shares |-> Zero, usd |-> Zero]

NoFill == [shares |-> Zero, usd |-> Zero, price |-> Zero]

\* What the exchange did with an order, all, half or none of it, and the
\* words it may find for it: the match in full, its size without its money,
\* the bare word "matched", its size under another word, or nothing yet.
Outcomes(asked) == {[shares |-> Zero, usd |-> Zero], asked,
                    [shares |-> Over(asked.shares, Whole(2)), usd |-> Over(asked.usd, Whole(2))]}

Answers(real) ==
  {"nothing"} \cup (Kinds \cap IF Positive(real.shares) THEN {"match", "size", "bare", "word"}
                                                       ELSE {"word"})

\* _fill_values: what was asked for stands in for what a match leaves out;
\* under another word there is no money at all, only the order's price.
FillValues(answer, real, asked, limit) ==
  CASE answer = "match" -> [shares |-> real.shares, usd |-> real.usd,
                            price |-> Over(real.usd, real.shares)]
    [] answer = "size"  -> [shares |-> real.shares, usd |-> asked.usd, price |-> limit]
    [] answer = "bare"  -> [shares |-> asked.shares, usd |-> asked.usd,
                            price |-> Over(asked.usd, asked.shares)]
    [] answer = "word"  -> [shares |-> real.shares, usd |-> Zero, price |-> limit]
    [] OTHER            -> NoFill

\* The status a row with these shares gets: open stands for submitted and
\* unknown_fill, closed for the exchange's own words and for error.
LiveStatus(answer, shares, default) ==
  IF Positive(shares) THEN "filled"
  ELSE CASE answer = "nothing" -> default
         [] answer = "word"    -> "closed"
         [] OTHER              -> "open"

\* What reached the account of the token.
OnExchange(t) ==
  LET Got(side) == Total([i \in DOMAIN liveOrders |->
                     IF liveOrders[i].token = t /\ liveOrders[i].side = side
                     THEN liveOrders[i].real.shares ELSE Zero])
  IN  Minus(Got("BUY"), Got("SELL"))

\* What the balance of the token may read: nothing when the lookup fails, and
\* a balance that lags does not have the last buy yet.
Sellable(t) ==
  LET last == {liveOrders[i] : i \in {Len(liveOrders)} \ {0}}
  IN  {<<>>, <<OnExchange(t)>>}
        \cup {<<Minus(OnExchange(t), row.real.shares)>> :
                row \in {r \in last : r.token = t /\ r.side = "BUY"}}

-----------------------------------------------------------------------------
(* Positions.                                                              *)

\* Mutated: a position may go short.
RestSigned(a, b) == Minus(a, b)

Rest(a, b) == IF AtMost(a, b) THEN Zero ELSE Minus(a, b)

\* _apply_live_sell_fill
LiveSold(pos, fill) ==
  [shares |-> Rest(pos.shares, fill.shares), avg |-> pos.avg,
   realized |-> Plus(pos.realized, Minus(fill.usd, Times(fill.shares, pos.avg)))]

\* _apply_live_buy_fill averages as paper does.
Applied(pos, side, fill) ==
  IF side = "BUY" THEN Bought(pos, fill) ELSE LiveSold(pos, fill)

\* Mutated: an adjustment takes the shares and leaves the profit.
WrittenOffFree(pos, missing) ==
  LET left == Rest(pos.shares, missing)
  IN  [pos EXCEPT !.shares = left, !.avg = IF Positive(left) THEN @ ELSE Zero]

\* _record_live_balance_adjustment: what is missing is lost at its cost.
WrittenOff(pos, missing) ==
  LET left == Rest(pos.shares, missing)
  IN  [shares |-> left, avg |-> IF Positive(left) THEN pos.avg ELSE Zero,
       realized |-> Minus(pos.realized, Times(missing, pos.avg))]

Row(t, side, status, asked, limit, real) ==
  [token |-> t, side |-> side, status |-> status, fill |-> NoFill, asked |-> asked,
   limit |-> limit, real |-> real]

Filled(row) == row.status = "filled" /\ Positive(row.fill.shares)

Filling(t, row) == row.token = t /\ Filled(row)

\* Mutated: a sale of more than there is leaves a negative position.
RebuildRowUnclipped(pos, row) ==
  LET usd  == IF Positive(row.fill.usd) THEN row.fill.usd
              ELSE Times(row.fill.price, row.fill.shares)
  IN  IF row.side = "BUY" THEN Bought(pos, [shares |-> row.fill.shares, usd |-> usd])
      ELSE [shares |-> Minus(pos.shares, row.fill.shares), avg |-> pos.avg,
            realized |-> Plus(pos.realized, Minus(usd, Times(row.fill.shares, pos.avg)))]

\* rebuild_live_positions_from_filled_orders, one row.
RebuildRow(pos, row) ==
  LET usd  == IF Positive(row.fill.usd) THEN row.fill.usd
              ELSE Times(row.fill.price, row.fill.shares)
      sold == Smaller(row.fill.shares, pos.shares)
  IN  IF row.side = "BUY" THEN Bought(pos, [shares |-> row.fill.shares, usd |-> usd])
      ELSE [shares |-> Minus(pos.shares, sold), avg |-> pos.avg,
            realized |-> Plus(pos.realized, Minus(usd, Times(sold, pos.avg)))]

\* The position that a rebuild makes of these rows.
Rebuilt(t, rows) ==
  FoldLeft(LAMBDA pos, row : IF Filling(t, row) THEN RebuildRow(pos, row) ELSE pos, Nothing, rows)

-----------------------------------------------------------------------------
(* Handlers.                                                               *)

Exposure == Total([k \in DOMAIN TokenSeq |->
              Times(livePosition[TokenSeq[k]].shares, livePosition[TokenSeq[k]].avg)])

\* How much of a fill the balance shows: nothing is known of it, or it has
\* come in full, by half or not at all.
Arrivals(shares) == {<<>>, <<shares>>, <<Over(shares, Whole(2))>>, <<Zero>>}

\* _reconcile_live_buy_fill_to_balance: no more is booked than has reached
\* the balance, and its money is cut in proportion.
CutToBalance(fill, reached) ==
  IF reached = <<>> \/ ~Positive(fill.shares) \/ AtMost(fill.shares, reached[1]) THEN fill
  ELSE IF ~Positive(reached[1]) THEN [fill EXCEPT !.shares = Zero, !.usd = Zero]
  ELSE [fill EXCEPT !.shares = reached[1],
                    !.usd = IF Positive(@) THEN Times(@, Over(reached[1], fill.shares))
                            ELSE Times(fill.price, reached[1])]

\* The commits of an order: its row, what became of it, the position, which
\* was pos before.
Order(before, pos, row, fill, status) ==
  /\ liveOrders' = Append(before, [row EXCEPT !.status = status, !.fill = fill])
  /\ livePosition' = [livePosition EXCEPT ![row.token] =
       IF Positive(fill.shares) THEN Applied(pos, row.side, fill) ELSE pos]
  /\ stale' = IF Positive(fill.shares) /\ ~Positive(fill.usd) THEN stale \cup {row.token} ELSE stale

\* The submit fails, or its answer is lost: an error row, never looked at
\* again, stands for whatever the exchange did.
NoAnswer(before, pos, row) ==
  /\ liveOrders' = Append(before, [row EXCEPT !.status = "closed"])
  /\ livePosition' = [livePosition EXCEPT ![row.token] = pos]
  /\ UNCHANGED stale

Live == mode = "live" /\ Len(liveOrders) + passes + Len(snapshots) < MaxSteps

PaperUnchanged == UNCHANGED <<position, orders, snapshots, call, trades, cuts, torn, mixed, manual>>

\* execute_live_buy.  A later look at its row goes by the money asked for.
\* The exchange fills it or not; a balance that lags makes part of it known.
LiveBuy(t) ==
  \E book \in LatestBook(t) :
    LET walk  == Entry(Whole(MaxOrder), WithinPrice(book.asks, MaxEntry))
        quote == [shares |-> walk.shares, usd |-> walk.usd]
        limit == Whole(walk.limit)
        asked == [shares |-> Over(Whole(MaxOrder), limit), usd |-> Whole(MaxOrder)]
    IN  /\ Live /\ Len(liveOrders) < MaxRows
        /\ Positive(walk.shares) /\ AtMost(Smaller(Whole(MaxOrder), Whole(MinFill)), walk.usd)
        /\ AtMost(Plus(Exposure, walk.usd), Whole(LiveCap))
        /\ \E real \in {Unknown, quote} :
             LET row == Row(t, "BUY", "open", asked, limit, real)
             IN  \/ NoAnswer(liveOrders, livePosition[t], row)
                 \/ \E answer \in Answers(real), reached \in Arrivals(real.shares) :
                      LET told == FillValues(answer, real, quote, limit)
                          fill == CutToBalance(told, reached)
                      IN  Order(liveOrders, livePosition[t], row, fill,
                                LiveStatus(IF Positive(told.shares) THEN "bare" ELSE answer,
                                           fill.shares, "open"))
        /\ PaperUnchanged /\ UNCHANGED <<mode, passes>>

Floored(x) == Fraction((x[1] * Grain) \div x[2], Grain)

\* execute_live_sell: what the account lacks is written off, and what it has
\* is sold to the best bid.  The exchange does not sell what is not there.
LiveSell(t) ==
  \E book \in LatestBook(t), sellable \in Sellable(t) :
    LET pos    == livePosition[t]
        have   == IF sellable = <<>> THEN pos.shares ELSE Smaller(pos.shares, sellable[1])
        lacks  == Minus(pos.shares, have)
        rest   == IF Positive(lacks) THEN WrittenOff(pos, lacks) ELSE pos
        lost   == [Row(t, "RECONCILE_SELL", "filled", Unknown, Zero, Unknown)
                     EXCEPT !.fill.shares = lacks]
        before == IF Positive(lacks) THEN Append(liveOrders, lost) ELSE liveOrders
        sold   == Floored(have)
        limit  == Whole(Dearest(book.bids))
        asked  == [shares |-> sold, usd |-> Times(sold, limit)]
    IN  /\ Live /\ Len(before) < MaxRows
        /\ Positive(pos.shares) /\ book.bids # <<>>
        /\ \/ /\ ~Positive(sold)
              /\ liveOrders' = before /\ livePosition' = [livePosition EXCEPT ![t] = rest]
              /\ UNCHANGED stale
           \/ /\ Positive(sold)
              /\ \E real \in Outcomes(asked) :
                   LET row == Row(t, "SELL", "open", asked, limit, real)
                   IN  /\ AtMost(real.shares, OnExchange(t))
                       /\ \/ NoAnswer(before, rest, row)
                          \/ \E answer \in Answers(real) :
                               LET fill == FillValues(answer, real, asked, limit)
                               IN  Order(before, rest, row, fill,
                                         LiveStatus(answer, fill.shares, "open"))
        /\ PaperUnchanged /\ UNCHANGED <<mode, passes>>

\* list_live_orders_for_reconcile
ToReconcile == {i \in DOMAIN liveOrders :
  \/ liveOrders[i].status = "open"
  \/ /\ liveOrders[i].status = "filled"
     /\ ~(Positive(liveOrders[i].fill.shares) /\ Positive(liveOrders[i].fill.usd))}

\* reconcile_submitted_live_order: the row is overwritten, then its position.
\* A buy of nothing on top of nothing raises (its average divides by zero);
\* the command then stops, and the dashboard goes on.
Visit(state, i, answer, goesOn) ==
  LET row    == state.rows[i]
      fill   == FillValues(answer, row.real, row.asked, row.limit)
      status == LiveStatus(answer, fill.shares, row.status)
      pos    == state.pos[row.token]
      buy    == row.side = "BUY"
      raises == status = "filled" /\ buy /\ ~Positive(Plus(pos.shares, fill.shares))
      booked == status = "filled" /\ ~raises
  IN  IF ~state.up THEN state
      ELSE IF answer = "raises" THEN [state EXCEPT !.up = goesOn]
      ELSE [up   |-> goesOn \/ ~raises,
            rows |-> [state.rows EXCEPT ![i].status = status, ![i].fill = fill],
            pos  |-> [state.pos EXCEPT ![row.token] =
                        IF booked THEN Applied(pos, IF buy THEN "BUY" ELSE "SELL", fill) ELSE @]]

\* The rows listed are visited by their id, the least first.
Pass(answers, goesOn) ==
  MapThenFoldSet(LAMBDA i, s : Visit(s, i, answers[i], goesOn),
                 [up |-> TRUE, rows |-> liveOrders, pos |-> livePosition],
                 LAMBDA i : i, LAMBDA ids : Max(ids), ToReconcile)

\* A reconciliation by the command or by the dashboard, which goes on after
\* a row that raises; only one that gets to the end rebuilds the positions,
\* those of the tokens that have a fill.
Reconcile(goesOn) ==
  /\ Live /\ passes < MaxPasses
  /\ goesOn => ToReconcile # {}
  /\ passes' = passes + 1
  /\ \E answers \in {f \in [ToReconcile -> Kinds \cup {"nothing", "raises"}] :
         \A i \in ToReconcile : f[i] \in Answers(liveOrders[i].real) \cup {"raises"}} :
       LET after   == Pass(answers, goesOn)
           rebuilt == {t \in Tokens : after.up /\ \E i \in DOMAIN after.rows : Filling(t, after.rows[i])}
       IN  /\ liveOrders' = after.rows
           /\ livePosition' = [t \in Tokens |->
                IF t \in rebuilt THEN Rebuilt(t, after.rows) ELSE after.pos[t]]
           /\ stale' = (stale \cup {liveOrders[i].token : i \in ToReconcile}) \ rebuilt
  /\ PaperUnchanged /\ UNCHANGED mode

LiveFetchBook(t) ==
  /\ Live /\ Len(snapshots) < MaxFetches
  /\ \E book \in Books :
       snapshots' = Append(snapshots, [token |-> t, book |-> book, after |-> Len(liveOrders)])
  /\ UNCHANGED <<position, orders, call, trades, cuts, torn, mixed, manual>>
  /\ UNCHANGED liveVars

LedgerInit ==
  /\ Init
  /\ mode \in {"paper", "live"}
  /\ liveOrders = <<>> /\ livePosition = [t \in Tokens |-> Nothing]
  /\ passes = 0 /\ stale = {}

PaperNext == mode = "paper" /\ Next /\ UNCHANGED liveVars

LedgerNext ==
  \/ PaperNext
  \/ \E t \in Tokens : LiveBuy(t) \/ LiveSell(t) \/ LiveFetchBook(t)
  \/ \E goesOn \in BOOLEAN : Reconcile(goesOn)

LedgerSpec == LedgerInit /\ [][LedgerNext]_ledgerVars
-----------------------------------------------------------------------------
(* The views: replays of the filled rows.                                  *)

\* _live_fill_notional_usd: the money of a row, or of n shares at its price.
Notional(row, n) == IF Positive(row.fill.usd) THEN row.fill.usd
                    ELSE Times(Smaller(row.fill.shares, n), row.fill.price)

LiveReplayRow(pos, row) ==
  LET sold == Smaller(row.fill.shares, pos.shares)
      left == Minus(pos.shares, sold)
  IN  IF row.side = "BUY"
      THEN Bought(pos, [shares |-> row.fill.shares, usd |-> Notional(row, row.fill.shares)])
      ELSE [shares |-> left, avg |-> IF Positive(left) THEN pos.avg ELSE Zero,
            realized |-> Plus(pos.realized, Minus(Notional(row, sold), Times(sold, pos.avg)))]

\* active_live_positions
LiveView(t, rows) ==
  FoldLeft(LAMBDA pos, row : IF Filling(t, row) THEN LiveReplayRow(pos, row) ELSE pos, Nothing, rows)

ActiveLive(t) == LiveView(t, liveOrders)

\* Mutated: a sale closes one lot and no more.
LiveLotsFirst(lots, row) ==
  IF row.side = "BUY" THEN Append(lots, [left |-> row.fill.shares, price |-> row.fill.price])
  ELSE IF lots = <<>> THEN lots
  ELSE [lots EXCEPT ![1].left = Rest(@, row.fill.shares)]

\* _live_open_buy_shares_by_order_id: the oldest lots are sold first.
LiveLots(lots, row) ==
  IF row.side = "BUY" THEN Append(lots, [left |-> row.fill.shares, price |-> row.fill.price])
  ELSE FoldLeft(LAMBDA sale, lot :
         LET n == Smaller(lot.left, sale.left)
         IN  [left |-> Minus(sale.left, n), lots |-> Append(sale.lots, [lot EXCEPT !.left = Minus(@, n)])],
         [left |-> row.fill.shares, lots |-> <<>>], lots).lots

OpenLots(t) ==
  FoldLeft(LAMBDA lots, row : IF Filling(t, row) THEN LiveLots(lots, row) ELSE lots, <<>>, liveOrders)

\* Mutated: a sale is set against the average cost of what is left.
WithProfitLeft(s, row) ==
  LET pos  == LiveReplayRow(s.pos, row)
      sold == Smaller(row.fill.shares, s.pos.shares)
      sale == [side |-> row.side, profit |-> Minus(Notional(row, sold), Times(sold, pos.avg))]
  IN  [pos |-> pos, sales |-> IF row.side = "BUY" THEN s.sales ELSE Append(s.sales, sale)]

\* The profit of a sale is its money less the average cost of what it sold.
WithProfit(s, row) ==
  LET sold == Smaller(row.fill.shares, s.pos.shares)
      sale == [side |-> row.side, profit |-> Minus(Notional(row, sold), Times(sold, s.pos.avg))]
  IN  [pos |-> LiveReplayRow(s.pos, row),
       sales |-> IF row.side = "BUY" THEN s.sales ELSE Append(s.sales, sale)]

\* _live_realized_pnl_by_sell_order_id
LiveSales(t) ==
  FoldLeft(LAMBDA s, row : IF Filling(t, row) THEN WithProfit(s, row) ELSE s,
           [pos |-> Nothing, sales |-> <<>>], liveOrders).sales

\* The list of realized trades has the profits of the "SELL" rows only.
Profits(t, side) ==
  Total([k \in DOMAIN LiveSales(t) |-> IF LiveSales(t)[k].side = side THEN LiveSales(t)[k].profit ELSE Zero])

\* Mutated: the bid is the one of the first book.
LatestBidFirst(t) ==
  UNION {BestBid(snapshots[i]) : i \in {j \in DOMAIN snapshots : snapshots[j].token = t /\
    \A k \in 1..(j - 1) : snapshots[k].token # t}}

\* _latest_bid
LatestBid(t) == UNION {BestBid(s) : s \in Latest({i \in DOMAIN snapshots : snapshots[i].token = t})}

\* What a position would bring at the bid less its average cost; nothing
\* without a bid.
OpenValue(pos, bids) ==
  IF bids = {} THEN Zero ELSE Times(pos.shares, Minus(Whole(Max(bids)), pos.avg))

Unrealized(pos, bids) ==
  Total([k \in DOMAIN TokenSeq |-> OpenValue(pos[TokenSeq[k]], bids[TokenSeq[k]])])

\* The tiles of both dashboards: one replays the rows, one reads the table.
LiveTiles(pos) ==
  LET held == {t \in Tokens : Positive(pos[t].shares)}
  IN  [realized   |-> Total([k \in DOMAIN TokenSeq |-> pos[TokenSeq[k]].realized]),
       unrealized |-> Unrealized(pos, [t \in Tokens |-> LatestBid(t)]),
       exposure   |-> Total([k \in DOMAIN TokenSeq |->
                        Times(pos[TokenSeq[k]].shares, pos[TokenSeq[k]].avg)]),
       open       |-> Cardinality(held),
       noBid      |-> Cardinality({t \in held : LatestBid(t) = {}})]

LiveWebTiles == LiveTiles([t \in Tokens |-> ActiveLive(t)])
LiveCliTiles == LiveTiles(livePosition)

\* The last point of live_pnl_series: the last bid of each token, from books
\* stored since the first order that is filled.
LiveChartUnrealized ==
  LET filled == {i \in DOMAIN liveOrders : liveOrders[i].status = "filled"}
      Known(t) == UNION {BestBid(s) : s \in Latest({i \in DOMAIN snapshots :
        /\ snapshots[i].token = t /\ snapshots[i].book.bids # <<>>
        /\ \E j \in filled : j <= snapshots[i].after})}
  IN  Unrealized([t \in Tokens |-> ActiveLive(t)], [t \in Tokens |-> Known(t)])

\* Mutated: an open trade is listed with all the shares it bought.
OpenTradesWhole(t) ==
  IF LatestBid(t) = {} \/ ~Positive(ActiveLive(t).shares) THEN Zero
  ELSE Total([k \in DOMAIN liveOrders |->
         LET row == liveOrders[k] IN
         IF Filling(t, row) /\ row.side = "BUY"
         THEN Times(row.fill.shares, Minus(Whole(Max(LatestBid(t))), row.fill.price)) ELSE Zero])

\* live_trade_rows: each open trade at its own price.
OpenTrades(t) ==
  IF LatestBid(t) = {} \/ ~Positive(ActiveLive(t).shares) THEN Zero
  ELSE Total([k \in DOMAIN OpenLots(t) |->
         Times(OpenLots(t)[k].left, Minus(Whole(Max(LatestBid(t))), OpenLots(t)[k].price))])

-----------------------------------------------------------------------------
(* Properties.                                                             *)

\* Positions, fills and histories have their types, and no position is short.
LedgerTypeOK ==
  /\ \A t \in Tokens : \A x \in {"shares", "avg", "realized"} : IsFraction(livePosition[t][x])
  /\ \A t \in Tokens : ~Positive(Minus(Zero, livePosition[t].shares))
  /\ \A i \in DOMAIN liveOrders : LET row == liveOrders[i] IN
       /\ row.token \in Tokens /\ row.side \in {"BUY", "SELL", "RECONCILE_SELL"}
       /\ row.status \in {"open", "filled", "closed"}
       /\ \A x \in {"shares", "usd", "price"} : IsFraction(row.fill[x])
  /\ stale \subseteq Tokens

\* A sale told without its money is of more than its token has by then: the
\* dashboard counts the part that was there, the rebuild all of it.
Overdrawn(t) ==
  \E k \in DOMAIN liveOrders :
    LET row == liveOrders[k]
    IN  /\ Filling(t, row) /\ row.side = "SELL" /\ ~Positive(row.fill.usd)
        /\ ~AtMost(row.fill.shares, LiveView(t, SubSeq(liveOrders, 1, k - 1)).shares)

\* The positions that the trades keep up one by one, the ones a rebuild makes
\* of the rows and the ones the dashboard replays are the same in shares,
\* cost and profit, and so are the tiles of the two dashboards; a pass cut
\* short, or a fill told without its money, parts them until the next rebuild,
\* and an overdrawn token parts them for good.
LiveViewsAgree ==
  /\ \A t \in Tokens \ stale : Overdrawn(t) \/
       LET view == ActiveLive(t) IN
       /\ view.shares = livePosition[t].shares /\ view.realized = livePosition[t].realized
       /\ Positive(view.shares) => view.avg = livePosition[t].avg
  /\ stale = {} /\ (\A t \in Tokens : ~Overdrawn(t)) => LiveWebTiles = LiveCliTiles

LiveMoney(t, side) ==
  Total([i \in DOMAIN liveOrders |->
    IF Filling(t, liveOrders[i]) /\ liveOrders[i].side = side
    THEN Notional(liveOrders[i], liveOrders[i].fill.shares) ELSE Zero])

\* No money appears or disappears in a position that is not stale: what its
\* rows brought in less what they cost is the profit less the cost held.
LiveMoneyConserved ==
  \A t \in Tokens \ stale :
    Minus(LiveMoney(t, "SELL"), LiveMoney(t, "BUY"))
      = Minus(livePosition[t].realized, Times(livePosition[t].shares, livePosition[t].avg))

\* The lots left open, oldest sold first, are the shares of the position,
\* however fills were booked late, cut or written off.
LiveLotsAddUp ==
  \A t \in Tokens :
    Total([k \in DOMAIN OpenLots(t) |-> OpenLots(t)[k].left]) = ActiveLive(t).shares

\* The profits listed trade by trade, with the losses written off that no
\* list shows, add up to the realized profit of the table.
LiveTradesAddUp ==
  \A t \in Tokens \ stale : Overdrawn(t) \/
    Plus(Profits(t, "SELL"), Profits(t, "RECONCILE_SELL")) = livePosition[t].realized

\* The chart's last point is the tile's, when each position held has a bid in
\* its last book and that book is not from before the first fill.
LiveChartMatchesTile ==
  (\A t \in Tokens : Positive(ActiveLive(t).shares) =>
     \E s \in Latest({i \in DOMAIN snapshots : snapshots[i].token = t}) :
       /\ s.book.bids # <<>>
       /\ \E i \in 1..s.after : liveOrders[i].status = "filled")
  => LiveChartUnrealized = LiveWebTiles.unrealized

\* Trade by trade and by average cost, the open profit of a token is the same
\* while its buys have one price and their money is their shares at it.
OpenTradesMatchTile ==
  \A t \in Tokens :
    (\E p \in {liveOrders[i].fill.price : i \in DOMAIN liveOrders} :
       \A row \in ToSet(liveOrders) : Filling(t, row) /\ row.side = "BUY" =>
         row.fill.price = p /\ Notional(row, row.fill.shares) = Times(row.fill.shares, p))
    => OpenTrades(t) = OpenValue(ActiveLive(t), LatestBid(t))
=============================================================================
