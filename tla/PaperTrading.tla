---------------------------- MODULE PaperTrading ----------------------------
(***************************************************************************)
(* Paper execution: paper_db.py over the paper_orders, paper_positions and *)
(* orderbook_snapshots tables, and the views of the dashboards that work   *)
(* out positions and profits again from the order rows.                    *)
(*                                                                         *)
(* The scheduled bot and the commands paper-buy, paper-sell and reset-paper*)
(* share the tables.  A trade is priced on the last stored book, then the  *)
(* position is read, written and committed, and then its order row: other  *)
(* processes may run, and the process may die, in between.                 *)
(*                                                                         *)
(* Money, prices and shares are exact fractions; the rounding of binary    *)
(* floats is left out.  Rejected orders change nothing but an audit row.   *)
(***************************************************************************)
EXTENDS Fractions, Sequences, FiniteSets, FiniteSetsExt, SequencesExt

CONSTANTS
  Tokens, Bots, Users,
  Books,        \* the order books there can be, see Book
  MaxOrder,     \* Settings.max_order_usd, also the budget of a position
  MinFill,      \* Settings.min_entry_fill_usd
  Slippage,     \* Settings.max_entry_limit_slippage
  MaxEntry,     \* Settings.max_entry_price
  EventCaps,    \* the entry caps that events bring (max_buy_price)
  UserSizes,    \* sizes asked for on the command line
  MaxTrades,    \* bound on the trades started
  MaxFetches,   \* bound on the snapshots stored
  MaxCuts       \* bound on crashes and resets

\* A level is <<price, shares>>; levels come in any order.
Book == [bids : Seq(Nat \X Nat), asks : Seq(Nat \X Nat)]

Procs == Bots \cup Users

ASSUME PaperAssumption ==
  /\ Books \subseteq Book
  /\ \A b \in Books : \A l \in ToSet(b.bids) \cup ToSet(b.asks) : l[1] > 0 /\ l[2] > 0
  /\ {MaxOrder, MinFill, Slippage, MaxEntry, MaxTrades, MaxFetches, MaxCuts} \subseteq Nat
  /\ EventCaps \subseteq Nat /\ UserSizes \subseteq Nat \ {0}
  /\ Bots \cap Users = {} /\ IsFiniteSet(Tokens)

VARIABLES
  position,    \* paper_positions; a token without a row has Nothing
  orders,      \* the filled rows of paper_orders, by id
  snapshots,   \* orderbook_snapshots, by id
  call,        \* each process's trade in progress
  trades,      \* trades started so far
  cuts,        \* crashes and resets so far
  torn,        \* history: tokens with a trade cut in two by a crash or a reset
  mixed,       \* history: tokens with two trades that overlapped
  manual       \* history: tokens a user has bought since the last reset

vars == <<position, orders, snapshots, call, trades, cuts, torn, mixed, manual>>

-----------------------------------------------------------------------------
(* The books.                                                              *)

LatestBook(t) == LET ids == {i \in DOMAIN snapshots : snapshots[i].token = t}
                 IN  {snapshots[i].book : i \in {j \in ids : j = Max(ids)}}

Cheapest(levels) == Min({l[1] : l \in ToSet(levels)})
Dearest(levels)  == Max({l[1] : l \in ToSet(levels)})

Untaken == [left |-> Zero, shares |-> Zero, usd |-> Zero, limit |-> 0]

\* A walk goes on to its next level and takes n of its shares.
Take(walk, level, n, cost) ==
  IF ~Positive(n) THEN walk
  ELSE [left |-> Minus(walk.left, cost), shares |-> Plus(walk.shares, n),
        usd |-> Plus(walk.usd, Times(n, Whole(level[1]))), limit |-> level[1]]

\* Mutated: a buy takes whole levels while it has any money left.
BuyLevelUncapped(walk, level) ==
  LET n == IF Positive(walk.left) THEN Whole(level[2]) ELSE Zero
  IN  Take(walk, level, n, Times(n, Whole(level[1])))

\* A walk that buys goes on while money is left, one that sells while shares
\* are left.
BuyLevel(walk, level) ==
  LET n == Smaller(Whole(level[2]), Over(walk.left, Whole(level[1])))
  IN  Take(walk, level, n, Times(n, Whole(level[1])))

SellLevel(walk, level) ==
  LET n == Smaller(Whole(level[2]), walk.left) IN Take(walk, level, n, n)

\* Mutated: the levels are taken in the order the book lists them.
LastListed(asks, ids) == Max(ids)

\* Of these levels, the one that a buy or a sale comes to last.
LastToBuy(asks, ids) == CHOOSE i \in ids : \A j \in ids : asks[j][1] <= asks[i][1]
LastToSell(bids, ids) == CHOOSE i \in ids : \A j \in ids : bids[j][1] >= bids[i][1]

\* calculate_entry: the cheapest asks first.
Entry(size, asks) ==
  MapThenFoldSet(LAMBDA level, walk : BuyLevel(walk, level), [Untaken EXCEPT !.left = size],
                 LAMBDA i : asks[i], LAMBDA ids : LastToBuy(asks, ids), DOMAIN asks)

\* execute_paper_sell: the dearest bids first.
Exit(shares, bids) ==
  MapThenFoldSet(LAMBDA level, walk : SellLevel(walk, level), [Untaken EXCEPT !.left = shares],
                 LAMBDA i : bids[i], LAMBDA ids : LastToSell(bids, ids), DOMAIN bids)
-----------------------------------------------------------------------------
(* Trades.                                                                 *)

Nothing == [shares |-> Zero, avg |-> Zero, realized |-> Zero]

Idle == [pc |-> "idle", token |-> 0, side |-> "BUY", walk |-> Untaken,
         levels |-> <<>>, base |-> Nothing]

Go(p, c) == call' = [call EXCEPT ![p] = c]

Invested(t) == Times(position[t].shares, position[t].avg)

\* Mutated: what is invested is read off the last order row.
RemainingBudgetRows(t) ==
  LET buys == {i \in DOMAIN orders : orders[i].token = t /\ orders[i].side = "BUY"}
      spent == IF buys = {} THEN Zero ELSE orders[Max(buys)].usd
  IN  IF AtMost(Whole(MaxOrder), spent) THEN Zero ELSE Minus(Whole(MaxOrder), spent)

RemainingBudget(t) ==
  IF AtMost(Whole(MaxOrder), Invested(t)) THEN Zero ELSE Minus(Whole(MaxOrder), Invested(t))

WithinPrice(asks, price) == Restrict(asks, {i \in DOMAIN asks : asks[i][1] <= price})

\* Start a trade that the walk over these levels fills.
Start(p, t, side, levels, walk, base) ==
  /\ call[p].pc = "idle" /\ trades < MaxTrades
  /\ trades' = trades + 1
  /\ Positive(walk.shares)
  /\ Go(p, [Idle EXCEPT !.pc = IF side = "BUY" THEN "read" ELSE "write", !.token = t,
                        !.side = side, !.walk = walk, !.levels = levels, !.base = base])
  /\ UNCHANGED <<position, orders, snapshots, cuts, torn, mixed, manual>>

\* The tick's entry: a forecast-value event tops a position up to its budget,
\* any other event asks for a whole order and finds no position open.  The
\* price limit is the best ask plus slippage, or the event's own cap.
BotBuy(p, t) ==
  \E book \in LatestBook(t), topUp \in BOOLEAN, limit \in EventCaps \cup {MaxEntry + Slippage} :
    LET size == IF topUp THEN RemainingBudget(t) ELSE Whole(MaxOrder)
        hard == Max({MaxEntry} \cup ({limit} \cap EventCaps))
        asks == WithinPrice(book.asks, Min({limit, Cheapest(book.asks) + Slippage}))
        walk == Entry(size, asks)
    IN  /\ book.asks # <<>>
        /\ topUp \/ ~Positive(position[t].shares)
        /\ Positive(size)
        /\ Cheapest(book.asks) <= hard
        /\ AtMost(Smaller(size, Whole(MinFill)), walk.usd)
        /\ Start(p, t, "BUY", asks, walk, Nothing)

\* paper-buy takes the whole book, whatever the position.
UserBuy(p, t) ==
  \E book \in LatestBook(t), size \in UserSizes :
    /\ size <= MaxOrder
    /\ Start(p, t, "BUY", book.asks, Entry(Whole(size), book.asks), Nothing)

\* A sale is of the whole position; the bids and the position are read first.
Sell(p, t) ==
  \E book \in LatestBook(t) :
    Start(p, t, "SELL", book.bids, Exit(position[t].shares, book.bids), position[t])

ReadPosition(p) ==
  /\ call[p].pc = "read"
  /\ Go(p, [call[p] EXCEPT !.pc = "write", !.base = position[call[p].token]])
  /\ UNCHANGED <<position, orders, snapshots, trades, cuts, torn, mixed, manual>>

Bought(pos, walk) ==
  LET shares == Plus(pos.shares, walk.shares)
  IN  [shares |-> shares, realized |-> pos.realized,
       avg |-> Over(Plus(Times(pos.avg, pos.shares), walk.usd), shares)]

\* Mutated: the profit is reckoned against the dearest bid.
SoldAtLimit(pos, walk) ==
  [shares |-> walk.left, avg |-> pos.avg,
   realized |-> Plus(pos.realized, Minus(Times(walk.shares, Whole(walk.limit)),
                                         Times(walk.shares, pos.avg)))]

\* Profit is the proceeds less the average cost of what was sold.
Sold(pos, walk) ==
  [shares |-> walk.left, avg |-> pos.avg,
   realized |-> Plus(pos.realized, Minus(walk.usd, Times(walk.shares, pos.avg)))]

\* Another trade of the token has written its position but not its row.
Unrecorded(t) == \E q \in Procs : call[q].pc = "row" /\ call[q].token = t

WritePosition(p) ==
  LET c == call[p] IN
  /\ c.pc = "write"
  /\ position' = [position EXCEPT ![c.token] =
       IF c.side = "BUY" THEN Bought(c.base, c.walk) ELSE Sold(c.base, c.walk)]
  /\ mixed' = IF position[c.token] # c.base \/ Unrecorded(c.token)
              THEN mixed \cup {c.token} ELSE mixed
  /\ manual' = IF c.side = "BUY" /\ p \in Users THEN manual \cup {c.token} ELSE manual
  /\ Go(p, [c EXCEPT !.pc = "row"])
  /\ UNCHANGED <<orders, snapshots, trades, cuts, torn>>

\* Mutated: the row has the limit price of the order, not its average price.
OrderRowAtLimit(c) ==
  [token |-> c.token, side |-> c.side, price |-> Whole(c.walk.limit), usd |-> c.walk.usd]

\* What the views read of a row: its average price and its money.
OrderRow(c) ==
  [token |-> c.token, side |-> c.side, price |-> Over(c.walk.usd, c.walk.shares),
   usd |-> c.walk.usd]

StoreOrder(p) ==
  /\ call[p].pc = "row"
  /\ orders' = Append(orders, OrderRow(call[p]))
  /\ Go(p, Idle)
  /\ UNCHANGED <<position, snapshots, trades, cuts, torn, mixed, manual>>

-----------------------------------------------------------------------------
(* Around the trades.                                                      *)

\* store_orderbook.  A snapshot keeps how many rows there were before it.
FetchBook(t) ==
  /\ Len(snapshots) < MaxFetches
  /\ \E book \in Books :
       snapshots' = Append(snapshots, [token |-> t, book |-> book, after |-> Len(orders)])
  /\ UNCHANGED <<position, orders, call, trades, cuts, torn, mixed, manual>>

\* reset-paper: orders and positions go, the books stay.
Reset ==
  /\ cuts < MaxCuts
  /\ cuts' = cuts + 1
  /\ orders' = <<>> /\ position' = [t \in Tokens |-> Nothing]
  /\ snapshots' = [i \in DOMAIN snapshots |-> [snapshots[i] EXCEPT !.after = 0]]
  /\ torn' = {t \in Tokens : Unrecorded(t)} /\ mixed' = {}
  /\ manual' = {t \in manual : \E q \in Procs : call[q].pc # "idle" /\ call[q].token = t}
  /\ UNCHANGED <<call, trades>>

Crash(p) ==
  /\ call[p].pc # "idle" /\ cuts < MaxCuts
  /\ cuts' = cuts + 1
  /\ torn' = IF call[p].pc = "row" THEN torn \cup {call[p].token} ELSE torn
  /\ Go(p, Idle)
  /\ UNCHANGED <<position, orders, snapshots, trades, mixed, manual>>

Init ==
  /\ position = [t \in Tokens |-> Nothing]
  /\ orders = <<>> /\ snapshots = <<>>
  /\ call = [p \in Procs |-> Idle]
  /\ trades = 0 /\ cuts = 0 /\ torn = {} /\ mixed = {} /\ manual = {}

Next ==
  \/ \E p \in Bots, t \in Tokens : BotBuy(p, t)
  \/ \E p \in Users, t \in Tokens : UserBuy(p, t)
  \/ \E p \in Procs : \/ \E t \in Tokens : Sell(p, t)
                      \/ ReadPosition(p) \/ WritePosition(p) \/ StoreOrder(p) \/ Crash(p)
  \/ Reset \/ \E t \in Tokens : FetchBook(t)

Spec == Init /\ [][Next]_vars
-----------------------------------------------------------------------------
(* The views: replays of the order rows.                                   *)

\* One row of a token applied to what the rows before it made.
ReplayRow(pos, row) ==
  LET n == Over(row.usd, row.price)
      sold == Smaller(n, pos.shares)
      shares == Minus(pos.shares, sold)
  IN  IF row.side = "BUY" THEN Bought(pos, [shares |-> n, usd |-> row.usd])
      ELSE [shares |-> shares, avg |-> IF Positive(shares) THEN pos.avg ELSE Zero,
            realized |-> Plus(pos.realized, Minus(row.usd, Times(sold, pos.avg)))]

\* active_paper_positions: what the rows make of a token.
ActivePosition(t) ==
  FoldLeft(LAMBDA pos, row : IF row.token = t THEN ReplayRow(pos, row) ELSE pos, Nothing, orders)

Total(values) == FoldLeft(Plus, Zero, values)

\* Mutated: the lots are left whole by the sales.
LotsKept(lots, row) ==
  IF row.side = "BUY"
  THEN [lots EXCEPT !.open = Append(@, [left |-> Over(row.usd, row.price), price |-> row.price])]
  ELSE LET sale == FoldLeft(LAMBDA s, lot :
             LET n == Smaller(lot.left, s.left)
             IN  [s EXCEPT !.left = Minus(@, n), !.cost = Plus(@, Times(n, lot.price))],
             [left |-> Over(row.usd, row.price), cost |-> Zero], lots.open)
       IN  [lots EXCEPT !.profit = Plus(@, Minus(row.usd, sale.cost))]

\* historical_pnl_histograms: a sale closes the oldest lots first, and each
\* lot gets its share of the proceeds.
ApplyToLots(lots, row) ==
  IF row.side = "BUY"
  THEN [lots EXCEPT !.open = Append(@, [left |-> Over(row.usd, row.price), price |-> row.price])]
  ELSE LET sale == FoldLeft(LAMBDA s, lot :
             LET n    == Smaller(lot.left, s.left)
                 paid == Times(s.usd, Over(n, s.left))
             IN  IF ~Positive(n) THEN [s EXCEPT !.open = Append(@, lot)]
                 ELSE [left |-> Minus(s.left, n), usd |-> Minus(s.usd, paid),
                       profit |-> Plus(s.profit, Minus(paid, Times(n, lot.price))),
                       open |-> Append(s.open, [lot EXCEPT !.left = Minus(@, n)])],
             [left |-> Over(row.usd, row.price), usd |-> row.usd, profit |-> lots.profit,
              open |-> <<>>], lots.open)
       IN  [open |-> sale.open, profit |-> sale.profit]

LotProfit(t) ==
  FoldLeft(LAMBDA lots, row : IF row.token = t THEN ApplyToLots(lots, row) ELSE lots,
           [open |-> <<>>, profit |-> Zero], orders).profit

\* The best bid of the snapshot; none when no one bids.
BestBid(s) == IF s.book.bids = <<>> THEN {} ELSE {Dearest(s.book.bids)}

Latest(ids) == {snapshots[i] : i \in {j \in ids : j = Max(ids)}}

\* Mutated: the oldest snapshot is taken for the latest.
TileBidOldest(t) ==
  LET ids  == {i \in DOMAIN snapshots : snapshots[i].token = t}
      bids == UNION {BestBid(snapshots[i]) : i \in {j \in ids : j = Min(ids)}}
  IN  IF bids = {} THEN Zero ELSE Whole(Max(bids))

\* The tiles of the dashboard value a position without a bid at nothing.
TileBid(t) ==
  LET bids == UNION {BestBid(s) : s \in Latest({i \in DOMAIN snapshots : snapshots[i].token = t})}
  IN  IF bids = {} THEN Zero ELSE Whole(Max(bids))

\* The chart keeps the last bid, and knows none from before the first order.
ChartBid(t) ==
  {Whole(b) : b \in UNION {BestBid(s) : s \in Latest({i \in DOMAIN snapshots :
     snapshots[i].token = t /\ snapshots[i].after > 0 /\ snapshots[i].book.bids # <<>>})}}

TokenSeq == SetToSeq(Tokens)

\* The totals that the tiles show for these positions.
Stats(pos) ==
  LET Sum(F(_)) == Total([k \in DOMAIN TokenSeq |-> F(TokenSeq[k])])
      Cost(t)   == Times(pos[t].shares, pos[t].avg)
  IN  [realized   |-> Sum(LAMBDA t : pos[t].realized),
       unrealized |-> Sum(LAMBDA t : Minus(Times(pos[t].shares, TileBid(t)), Cost(t))),
       worst      |-> Sum(Cost),
       open       |-> Cardinality({t \in Tokens : Positive(pos[t].shares)})]

\* dashboard_stats of the web dashboard and the one of the command line.
WebStats == Stats([t \in Tokens |-> ActivePosition(t)])
CliStats == Stats(position)

\* The last point of pnl_series.
ChartUnrealized ==
  Total([k \in DOMAIN TokenSeq |->
    LET pos == ActivePosition(TokenSeq[k])
        bid == ChartBid(TokenSeq[k])
    IN  IF bid = {} THEN Zero ELSE Times(pos.shares, Minus(CHOOSE b \in bid : TRUE, pos.avg))])

-----------------------------------------------------------------------------
(* Properties.                                                             *)

\* The tables, the walks in hand and the histories have their types.
TypeOK ==
  /\ \A t \in Tokens : \A x \in {"shares", "avg", "realized"} : IsFraction(position[t][x])
  /\ \A i \in DOMAIN orders : IsFraction(orders[i].price) /\ Positive(orders[i].price)
  /\ \A i \in DOMAIN snapshots : snapshots[i].token \in Tokens /\ snapshots[i].book \in Books
  /\ \A p \in Procs : /\ call[p].pc \in {"idle", "read", "write", "row"}
                      /\ ~Positive(Minus(Zero, call[p].walk.left))
  /\ torn \cup mixed \cup manual \subseteq Tokens

\* No trade of the token was cut in two or overlapped another, and none is
\* between its position and its row.
Settled(t) == t \notin torn \cup mixed /\ ~Unrecorded(t)

\* The positions kept up trade by trade are the ones the dashboards work out
\* from the order rows, and so are the totals of the two dashboards: only a
\* crash between the two commits, a reset there or an overlap parts them.
ViewsAgree ==
  /\ \A t \in Tokens : Settled(t) =>
       LET view == ActivePosition(t)
       IN  /\ view.shares = position[t].shares /\ view.realized = position[t].realized
           /\ Positive(view.shares) => view.avg = position[t].avg
  /\ (\A t \in Tokens : Settled(t)) => WebStats = CliStats

Money(t, side) ==
  Total([i \in DOMAIN orders |->
    IF orders[i].token = t /\ orders[i].side = side THEN orders[i].usd ELSE Zero])

\* No money appears or disappears: what came in, less what went out, is the
\* profit booked less the cost of what is still held.
MoneyConserved ==
  \A t \in Tokens : Settled(t) =>
    Minus(Money(t, "SELL"), Money(t, "BUY")) = Minus(position[t].realized, Invested(t))

\* Once a token is sold out, oldest-lot-first profits (the histograms) and
\* average-cost profits (the positions) come to the same.
LotsAgree ==
  \A t \in Tokens :
    Settled(t) /\ ~Positive(position[t].shares) => LotProfit(t) = position[t].realized

\* The chart's last point and the tile agree once every position held has a
\* bid in its last book, and that book is not from before the first order.
ChartMatchesTile ==
  (\A t \in Tokens : Positive(ActivePosition(t).shares) =>
     \E s \in Latest({i \in DOMAIN snapshots : snapshots[i].token = t}) :
        s.after > 0 /\ s.book.bids # <<>>)
  => ChartUnrealized = WebStats.unrealized

\* Whatever crashes, sales and resets come in between, a bot does not take a
\* position above its budget, unless a user buys the token as well or a trade
\* overlaps the bot's.
BudgetHolds ==
  \A t \in Tokens \ (manual \cup mixed) : AtMost(Invested(t), Whole(MaxOrder))

Shares(levels, S) == MapThenSumSet(LAMBDA i : levels[i][2], S)
Worth(levels, S)  == MapThenSumSet(LAMBDA i : levels[i][1] * levels[i][2], S)

\* The trade c takes every level better than its limit, part of its limit's
\* depth, and stops only when it has enough or the book is exhausted.
TakesBest(c) ==
  LET all    == DOMAIN c.levels
      better == {i \in all : IF c.side = "BUY" THEN c.levels[i][1] < c.walk.limit
                                              ELSE c.levels[i][1] > c.walk.limit}
      last   == {i \in all : c.levels[i][1] = c.walk.limit}
      n      == Minus(c.walk.shares, Whole(Shares(c.levels, better)))
  IN  /\ Positive(n) /\ AtMost(n, Whole(Shares(c.levels, last)))
      /\ c.walk.usd = Plus(Whole(Worth(c.levels, better)), Times(n, Whole(c.walk.limit)))
      /\ c.walk.left = Zero \/ c.walk.shares = Whole(Shares(c.levels, all))

\* A fill is the best the visible book allows.
BestPrices == \A p \in Procs : call[p].pc # "idle" => TakesBest(call[p])
=============================================================================
