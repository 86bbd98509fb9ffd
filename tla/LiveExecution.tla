---------------------------- MODULE LiveExecution ----------------------------
(***************************************************************************)
(* Live order execution: whenitrains/live.py over the live_orders,         *)
(* live_positions and live_settings tables of whenitrains/storage.py.      *)
(*                                                                         *)
(* Processes that share one SQLite file and one exchange account:          *)
(*   Traders          execute_live_buy / execute_live_sell, called by the  *)
(*                    scheduler tick or by the live-buy/live-sell commands *)
(*   CliReconcilers   the live-reconcile command                           *)
(*   DashReconcilers  the dashboard's reconcile_live_dashboard_orders      *)
(* Every storage helper commits on its own, so a handler is split into one *)
(* action per commit or remote call; between two of them another process   *)
(* may run, or the process may die.                                        *)
(*                                                                         *)
(* Data abstraction: one share costs one money unit, so a position's cost  *)
(* basis net_shares * avg_price is its number of shares; prices and        *)
(* realized profit are left out.  Rejected, blocked and error rows are     *)
(* audit records that no code reads back; they are not kept.               *)
(***************************************************************************)
EXTENDS Integers, Sequences, FiniteSets, FiniteSetsExt

CONSTANTS
  Tokens,           \* outcome tokens
  Traders, CliReconcilers, DashReconcilers,
  Quotes,           \* entry requests: [size, cost], the cost calculate_entry found
  OrderCap,         \* order_cap_usd
  ExposureCap,      \* Settings.live_total_open_exposure_cap_usd
  BlockThreshold,   \* INSUFFICIENT_BALANCE_BLOCK_THRESHOLD
  Lot,              \* exchange share precision (0.01), in model share units
  LookupKinds,      \* the answers get_order may give, see Report
  Serial,           \* TRUE: a process starts only while the others are idle
  MaxOrders,        \* bound on the orders the exchange accepts
  MaxRows,          \* bound on the rows of live_orders
  MaxPosition,      \* bound: reconciliation handles no larger position
  MaxFaults,        \* bound on crashes, lost answers and failed lookups
  MaxRefusals,      \* bound on the buys the exchange refuses
  MaxOps,           \* bound on the operator's kill-switch commands
  NoToken

Report == {"unknown", "open", "unmatched", "bare", "exact"}
Reconcilers == CliReconcilers \cup DashReconcilers
Procs == Traders \cup Reconcilers

ASSUME ConstantsOK ==
  /\ IsFiniteSet(Tokens)
  /\ Quotes \subseteq [size : Nat, cost : Nat]
  /\ \A q \in Quotes : 0 < q.cost /\ q.cost <= q.size
  /\ OrderCap \in Nat /\ ExposureCap \in Nat
  /\ BlockThreshold \in Nat \ {0} /\ Lot \in Nat \ {0}
  /\ {"exact", "unmatched"} \subseteq LookupKinds /\ LookupKinds \subseteq Report
  /\ Serial \in BOOLEAN
  /\ MaxOrders \in Nat /\ MaxRows \in Nat /\ MaxPosition \in Nat /\ MaxFaults \in Nat
  /\ MaxRefusals \in Nat /\ MaxOps \in Nat
  /\ NoToken \notin Tokens
  /\ Traders \cap Reconcilers = {}

VARIABLES
  exch,         \* external: the orders the exchange accepted
  balance,      \* external: the account's token balances
  rows,         \* live_orders: submitted orders and balance adjustments
  position,     \* live_positions.net_shares
  blockNew,     \* live_settings.block_new_entries
  killFile,     \* data/KILL_SWITCH exists
  errorCount,   \* live_settings insufficient-balance error count
  call,         \* per process: program counter and locals of its handler
  faults, refusals, ops,   \* bound counters
  lost,         \* history: orders whose acceptance never reached the program
  overrun,      \* history: buys each trader submitted since entries are blocked
  streak        \* history: insufficient-balance refusals in a row

db      == <<rows, position, blockNew, killFile, errorCount>>
history == <<lost, overrun, streak>>
bounds  == <<faults, refusals, ops>>
market  == <<exch, balance>>
vars    == <<market, db, call, bounds, history>>
-----------------------------------------------------------------------------
(* Records                                                                 *)

Absent == -1     \* Python None: no balance could be read, no such position

Status == {"submitted", "unknown_fill", "filled", "open", "unmatched"}

Idle == [pc |-> "idle", token |-> NoToken, action |-> "BUY", size |-> 0,
         req |-> 0, before |-> Absent, ext |-> 0, resp |-> "none", row |-> 0,
         fill |-> 0, status |-> "submitted", base |-> 0, todo |-> {},
         saved |-> [t \in Tokens |-> Absent]]

MayStart(p) ==
  /\ call[p].pc = "idle"
  /\ Serial => \A q \in Procs \ {p} : call[q].pc = "idle"

Go(p, c)    == call' = [call EXCEPT ![p] = c]
Goto(p, pc) == Go(p, [call[p] EXCEPT !.pc = pc])

Least(a, b)    == IF a <= b THEN a ELSE b
Greatest(a, b) == IF a <= b THEN b ELSE a
FloorLot(n)    == n - (n % Lot)

\* client.token_balance: the balance, or None when the query fails.
SellableBalance(t) == {balance[t], Absent}

EntriesBlockedByFile == killFile      \* mutant: the stored setting is not read

EntriesBlocked == killFile \/ blockNew

Exposure == MapThenSumSet(LAMBDA t : position[t], Tokens)

FitsHeldOnly(cost) == Exposure <= ExposureCap     \* mutant: the new cost is left out

FitsExposure(cost) == Exposure + cost <= ExposureCap

BlocksPast(n) == n > BlockThreshold               \* mutant: off by one

Blocks(n) == n >= BlockThreshold

\* External: the answers get_order may give for order e.  A published order's
\* trades are in the trade history and its lookup no longer says "not yet".
\* "bare" is a match without amounts, "open" any status naming no match.
LookupReports(e) ==
  LookupKinds \cap
    (CASE exch[e].published /\ exch[e].fill > 0  -> {"bare", "exact"}
       [] exch[e].published /\ exch[e].fill = 0  -> {"unmatched"}
       [] ~exch[e].published /\ exch[e].fill > 0 -> {"unknown", "open", "bare", "exact"}
       [] ~exch[e].published /\ exch[e].fill = 0 -> {"unknown", "open", "unmatched"})

\* A lookup that knows nothing falls back on the submit response; a match
\* taken from there without amounts may not be filled in from the request.
ReconcilePayload(report, resp) ==
  CASE report = "unknown" /\ resp = "exact" -> "exact"
    [] report = "unknown" /\ resp = "bare"  -> "response_bare"
    [] OTHER -> report

\* Mutant: the submit response, too, may be filled in from the request.
FillSharesLax(payload, default, filled) ==
  CASE payload = "exact" -> filled
    [] payload \in {"bare", "response_bare"} -> default
    [] OTHER -> 0

FillShares(payload, default, filled) ==
  CASE payload = "exact" -> filled
    [] payload = "bare"  -> default
    [] OTHER -> 0

\* Mutant: an amount-less response's status is written as it came.
ReconcileStatusRaw(payload, shares, default) ==
  IF shares > 0 THEN "filled"
  ELSE CASE payload = "unknown" -> default
         [] payload \in {"bare", "exact"} -> "unknown_fill"
         [] OTHER -> payload

ReconcileStatus(payload, shares, default) ==
  IF shares > 0 THEN "filled"
  ELSE CASE payload = "unknown" -> default
         [] payload \in {"bare", "response_bare", "exact"} -> "unknown_fill"
         [] OTHER -> payload

\* A buy's reported fill is cut to the growth of the token balance.
BalanceCut(before, after, shares) ==
  IF before = Absent \/ after = Absent THEN shares
  ELSE Least(shares, Greatest(after - before, 0))

\* Mutants: every filled row is visited again; unknown_fill rows are not.
ForReconcileAgain(r)     == r.status \in {"submitted", "unknown_fill", "filled"}
ForReconcileSubmitted(r) == r.status = "submitted"

\* Rows live-reconcile visits.  An adjustment row (ext = 0) has proceeds 0.
ForReconcile(r) ==
  \/ r.status \in {"submitted", "unknown_fill"}
  \/ r.status = "filled" /\ (r.fill = 0 \/ r.ext = 0)

\* The shares of token t that the filled rows add up to, in row order.
Replay(t) ==
  LET held[i \in 0..Len(rows)] ==
        IF i = 0 THEN 0
        ELSE IF rows[i].token # t \/ rows[i].status # "filled" THEN held[i - 1]
        ELSE IF rows[i].action = "SELL" THEN Greatest(held[i - 1] - rows[i].fill, 0)
        ELSE held[i - 1] + rows[i].fill
  IN  held[Len(rows)]

HasFills(t) == \E i \in DOMAIN rows :
  rows[i].token = t /\ rows[i].status = "filled" /\ rows[i].fill > 0
-----------------------------------------------------------------------------
(* execute_live_buy                                                        *)

BuyAdmit(p, t, q) ==
  /\ MayStart(p)
  /\ Len(exch) < MaxOrders /\ Len(rows) < MaxRows      \* bounds
  /\ ~EntriesBlocked
  /\ q.size <= OrderCap
  /\ FitsExposure(q.cost)
  /\ Go(p, [Idle EXCEPT !.pc = "before", !.token = t, !.size = q.size, !.req = q.cost])
  /\ UNCHANGED <<market, db, bounds, history>>

BuyBalanceBefore(p) ==
  /\ call[p].pc = "before"
  /\ \E b \in SellableBalance(call[p].token) :
       Go(p, [call[p] EXCEPT !.pc = "submit", !.before = b])
  /\ UNCHANGED <<market, db, bounds, history>>
-----------------------------------------------------------------------------
(* execute_live_sell                                                       *)

SellAdmit(p, t) ==
  /\ MayStart(p)
  /\ Len(exch) < MaxOrders /\ Len(rows) + 1 < MaxRows  \* bounds
  /\ position[t] > 0
  /\ Go(p, [Idle EXCEPT !.pc = "sellable", !.token = t, !.action = "SELL",
                        !.base = position[t]])
  /\ UNCHANGED <<market, db, bounds, history>>

SellBalance(p) ==
  /\ call[p].pc = "sellable"
  /\ \E b \in SellableBalance(call[p].token) :
       LET held  == call[p].base
           short == b # Absent /\ b < held
           req   == FloorLot(IF short THEN b ELSE held)
           next  == CASE short -> "adjust"
                      [] ~short /\ req > 0 -> "submit"
                      [] ~short /\ req = 0 -> "idle"
       IN  Go(p, IF next = "idle" THEN Idle
                 ELSE [call[p] EXCEPT !.pc = next, !.req = req, !.size = req,
                                      !.fill = IF short THEN held - b ELSE 0])
  /\ UNCHANGED <<market, db, bounds, history>>

\* _record_live_balance_adjustment: the position first, then its row.
AdjustPosition(p) ==
  /\ call[p].pc = "adjust"
  /\ position' = [position EXCEPT ![call[p].token] = Greatest(@ - call[p].fill, 0)]
  /\ Goto(p, "adjust_row")
  /\ UNCHANGED <<market, rows, blockNew, killFile, errorCount, bounds, history>>

AdjustRow(p) ==
  /\ call[p].pc = "adjust_row"
  /\ rows' = Append(rows, [token |-> call[p].token, action |-> "SELL", size |-> 0,
                           req |-> 0, ext |-> 0, resp |-> "none",
                           status |-> "filled", fill |-> call[p].fill])
  /\ Go(p, IF call[p].req > 0 THEN [call[p] EXCEPT !.pc = "submit", !.fill = 0] ELSE Idle)
  /\ UNCHANGED <<market, position, blockNew, killFile, errorCount, bounds, history>>
-----------------------------------------------------------------------------
(* client.buy_fak / client.sell_fak and what follows the answer            *)

\* A fill-or-kill-remainder order executes at once, possibly in part.
Fills(c) == IF c.action = "SELL" THEN 0..Least(c.req, balance[c.token]) ELSE 0..c.req

\* External: a matched sell leaves the balance at once, a matched buy reaches
\* it when it settles.
Accept(c, f) ==
  /\ exch' = Append(exch, [token |-> c.token, action |-> c.action, fill |-> f,
                           settled |-> (c.action = "SELL" \/ f = 0), published |-> FALSE])
  /\ balance' = [balance EXCEPT ![c.token] = IF c.action = "SELL" THEN @ - f ELSE @]

CountOverrun(p) ==
  overrun' = [overrun EXCEPT ![p] =
    IF call[p].action = "BUY" /\ (killFile \/ blockNew) THEN @ + 1 ELSE @]

\* Only a buy's answer resets the insufficient-balance count.
ResetErrors(c) ==
  IF c.action = "BUY" THEN errorCount' = 0 /\ streak' = 0
                      ELSE UNCHANGED <<errorCount, streak>>

SubmitAnswered(p) ==
  /\ call[p].pc = "submit"
  /\ \E f \in Fills(call[p]) :
       /\ Accept(call[p], f)
       /\ \E resp \in IF f > 0 THEN {"none", "bare", "exact"} ELSE {"none"} :
            Go(p, [call[p] EXCEPT !.pc = "store", !.ext = Len(exch) + 1, !.resp = resp])
  /\ ResetErrors(call[p])
  /\ CountOverrun(p)
  /\ UNCHANGED <<rows, position, blockNew, killFile, bounds, lost>>

\* The order is accepted but the call raises (a timeout): an error row.
SubmitAnswerLost(p) ==
  /\ call[p].pc = "submit" /\ faults < MaxFaults
  /\ \E f \in Fills(call[p]) : Accept(call[p], f)
  /\ lost' = lost \cup {Len(exch) + 1}
  /\ faults' = faults + 1
  /\ ResetErrors(call[p])
  /\ CountOverrun(p)
  /\ Go(p, Idle)
  /\ UNCHANGED <<rows, position, blockNew, killFile, refusals, ops>>

\* The exchange refuses a buy for lack of funds; the count is read, then
\* written back, and at the threshold entries are blocked.
SubmitNoFunds(p) ==
  /\ call[p].pc = "submit" /\ call[p].action = "BUY" /\ refusals < MaxRefusals
  /\ refusals' = refusals + 1
  /\ CountOverrun(p)
  /\ Go(p, [call[p] EXCEPT !.pc = "count", !.base = errorCount])
  /\ UNCHANGED <<market, db, faults, ops, lost, streak>>

CountRefusal(p) ==
  /\ call[p].pc = "count"
  /\ errorCount' = call[p].base + 1
  /\ blockNew' = (blockNew \/ Blocks(call[p].base + 1))
  /\ streak' = streak + 1
  /\ Go(p, Idle)
  /\ UNCHANGED <<market, rows, position, killFile, bounds, lost, overrun>>

SubmitRefused(p) ==
  /\ call[p].pc = "submit" /\ refusals < MaxRefusals
  /\ refusals' = refusals + 1
  /\ ResetErrors(call[p])
  /\ CountOverrun(p)
  /\ Go(p, Idle)
  /\ UNCHANGED <<market, rows, position, blockNew, killFile, faults, ops, lost>>

\* Mutant: the order id is kept only when the answer has a fill payload.
SubmittedRowPartial(c) ==
  [token |-> c.token, action |-> c.action, size |-> c.size, req |-> c.req,
   ext |-> IF c.resp = "none" THEN 0 ELSE c.ext,
   resp |-> c.resp, status |-> "submitted", fill |-> 0]

SubmittedRow(c) ==
  [token |-> c.token, action |-> c.action, size |-> c.size, req |-> c.req, ext |-> c.ext,
   resp |-> c.resp, status |-> "submitted", fill |-> 0]

StoreSubmitted(p) ==
  /\ call[p].pc = "store"
  /\ rows' = Append(rows, SubmittedRow(call[p]))
  /\ Go(p, [call[p] EXCEPT !.pc = "lookup", !.row = Len(rows) + 1])
  /\ UNCHANGED <<market, position, blockNew, killFile, errorCount, bounds, history>>

\* client.reconcile_order, the fill it yields and, for a buy, the balance cut.
Lookup(p) ==
  /\ call[p].pc = "lookup"
  /\ \E report \in LookupReports(call[p].ext),
        after \in SellableBalance(call[p].token) :
       LET c       == call[p]
           payload == ReconcilePayload(report, c.resp)
           shares  == FillShares(payload, c.req, exch[c.ext].fill)
           kept    == IF c.action = "BUY" THEN BalanceCut(c.before, after, shares) ELSE shares
           status  == IF shares > 0 /\ kept = 0 THEN "unknown_fill"
                      ELSE ReconcileStatus(payload, kept, "submitted")
       IN  Go(p, [c EXCEPT !.pc = "update", !.fill = kept, !.status = status])
  /\ UNCHANGED <<market, db, bounds, history>>
-----------------------------------------------------------------------------
(* Booking a fill: the row is committed first, then the position is read   *)
(* and written back.  Traders and reconcilers share these steps.           *)

AfterBooking(p) ==
  IF p \in Traders THEN Idle ELSE [Idle EXCEPT !.pc = "next", !.todo = call[p].todo]

UpdateRow(p) ==
  /\ call[p].pc = "update"
  /\ rows' = [rows EXCEPT ![call[p].row].status = call[p].status,
                          ![call[p].row].fill = call[p].fill]
  /\ Go(p, IF call[p].fill > 0 THEN [call[p] EXCEPT !.pc = "read"] ELSE AfterBooking(p))
  /\ UNCHANGED <<market, position, blockNew, killFile, errorCount, bounds, history>>

ReadPosition(p) ==
  /\ call[p].pc = "read"
  /\ Go(p, [call[p] EXCEPT !.pc = "write", !.base = position[call[p].token]])
  /\ UNCHANGED <<market, db, bounds, history>>

\* Mutant: a buy books the shares it asked for.
NewPositionRequested(c) ==
  IF c.action = "SELL" THEN Greatest(c.base - c.fill, 0) ELSE c.base + c.req

NewPosition(c) ==
  IF c.action = "SELL" THEN Greatest(c.base - c.fill, 0) ELSE c.base + c.fill

WritePosition(p) ==
  /\ call[p].pc = "write"
  /\ position' = [position EXCEPT ![call[p].token] = NewPosition(call[p])]
  /\ Go(p, AfterBooking(p))
  /\ UNCHANGED <<market, rows, blockNew, killFile, errorCount, bounds, history>>
-----------------------------------------------------------------------------
(* live-reconcile and the dashboard                                        *)

Listed == {[row |-> i, status |-> rows[i].status] :
             i \in {j \in DOMAIN rows : ForReconcile(rows[j])}}

GoesOnIfListed(p) == Listed # {}     \* mutant: the command, too, returns early

\* The dashboard returns when nothing is listed; the command goes on to rebuild.
GoesOn(p) == p \in DashReconcilers => Listed # {}

ReconcileList(p) ==
  /\ MayStart(p)
  /\ \A t \in Tokens : position[t] <= MaxPosition         \* bound
  /\ GoesOn(p)
  /\ Go(p, [Idle EXCEPT !.pc = "next", !.todo = Listed])
  /\ UNCHANGED <<market, db, bounds, history>>

\* The row the loop comes to next (a set of one).
NextListed(p) == {x \in call[p].todo : \A y \in call[p].todo : x.row <= y.row}

\* reconcile_submitted_live_order: order lookup, then trade history, on the
\* row as it was when it was listed.
ReconcileLookup(p) ==
  /\ call[p].pc = "next" /\ call[p].todo # {}
  /\ \E x \in NextListed(p) :
       LET r      == rows[x.row]
           linked == r.ext # 0
           traded == linked /\ exch[r.ext].published /\ exch[r.ext].fill > 0
       IN \E report \in IF linked THEN LookupReports(r.ext) ELSE {"unknown"} :
            LET payload == IF traded THEN "exact" ELSE ReconcilePayload(report, r.resp)
                default == IF r.action = "SELL" THEN r.req ELSE r.size
                shares  == FillShares(payload, default, IF linked THEN exch[r.ext].fill ELSE 0)
            IN  Go(p, [Idle EXCEPT !.pc = "update", !.row = x.row, !.token = r.token,
                         !.action = r.action, !.fill = shares,
                         !.status = ReconcileStatus(payload, shares, x.status),
                         !.todo = call[p].todo \ {x}])
  /\ UNCHANGED <<market, db, bounds, history>>

\* rebuild_live_positions_from_filled_orders: one query, then the upserts.
RebuildRead(p) ==
  /\ call[p].pc = "next" /\ call[p].todo = {}
  /\ \A t \in Tokens : Replay(t) \in 0..MaxPosition           \* bound
  /\ Go(p, [Idle EXCEPT !.pc = "save",
              !.saved = [t \in Tokens |-> IF HasFills(t) THEN Replay(t) ELSE Absent]])
  /\ UNCHANGED <<market, db, bounds, history>>

RebuildSave(p) ==
  /\ call[p].pc = "save"
  /\ position' = [t \in Tokens |-> IF call[p].saved[t] = Absent THEN position[t]
                                                               ELSE call[p].saved[t]]
  /\ Go(p, Idle)
  /\ UNCHANGED <<market, rows, blockNew, killFile, errorCount, bounds, history>>
-----------------------------------------------------------------------------
(* Faults                                                                  *)

\* reconcile_order or trades_for_order raises: the dashboard skips the row,
\* the command and the trader's call end.
LookupRaises(p) ==
  /\ faults < MaxFaults
  /\ \/ call[p].pc = "lookup" /\ Go(p, Idle)
     \/ /\ call[p].pc = "next" /\ call[p].todo # {}
        /\ Go(p, IF p \in DashReconcilers
                 THEN [call[p] EXCEPT !.todo = @ \ NextListed(p)]
                 ELSE Idle)
  /\ faults' = faults + 1
  /\ UNCHANGED <<market, db, refusals, ops, history>>

\* The process dies; what it has committed stays.
Crash(p) ==
  /\ call[p].pc # "idle" /\ faults < MaxFaults
  /\ faults' = faults + 1
  /\ lost' = IF call[p].pc = "store" THEN lost \cup {call[p].ext} ELSE lost
  /\ Go(p, Idle)
  /\ UNCHANGED <<market, db, refusals, ops, overrun, streak>>
-----------------------------------------------------------------------------
(* The exchange and the operator                                           *)

Settle(e) ==
  /\ ~exch[e].settled
  /\ exch' = [exch EXCEPT ![e].settled = TRUE]
  /\ balance' = [balance EXCEPT ![exch[e].token] = @ + exch[e].fill]
  /\ UNCHANGED <<db, call, bounds, history>>

Publish(e) ==
  /\ ~exch[e].published
  /\ exch' = [exch EXCEPT ![e].published = TRUE]
  /\ UNCHANGED <<balance, db, call, bounds, history>>

\* live-kill-switch, and the operator creating or removing the file.
SetSwitch(block, file) ==
  /\ ops < MaxOps /\ <<block, file>> # <<blockNew, killFile>>
  /\ ops' = ops + 1
  /\ blockNew' = block /\ killFile' = file
  /\ overrun' = IF block \/ file THEN overrun ELSE [p \in Traders |-> 0]
  /\ streak' = IF blockNew /\ ~block THEN 0 ELSE streak
  /\ UNCHANGED <<market, rows, position, errorCount, call, faults, refusals, lost>>
-----------------------------------------------------------------------------
Init ==
  /\ exch = <<>> /\ rows = <<>>
  /\ balance = [t \in Tokens |-> 0]
  /\ position = [t \in Tokens |-> 0]
  /\ blockNew = FALSE /\ killFile = FALSE /\ errorCount = 0
  /\ call = [p \in Procs |-> Idle]
  /\ faults = 0 /\ refusals = 0 /\ ops = 0
  /\ lost = {} /\ overrun = [p \in Traders |-> 0] /\ streak = 0

Submit(p) ==
  \/ SubmitAnswered(p) \/ SubmitAnswerLost(p) \/ SubmitNoFunds(p) \/ SubmitRefused(p)

TraderStart(p) ==
  \/ \E t \in Tokens, q \in Quotes : BuyAdmit(p, t, q)
  \/ \E t \in Tokens : SellAdmit(p, t)

TraderStep(p) ==
  \/ BuyBalanceBefore(p) \/ SellBalance(p) \/ AdjustPosition(p) \/ AdjustRow(p)
  \/ Submit(p) \/ CountRefusal(p) \/ StoreSubmitted(p) \/ Lookup(p)

Booking(p) == UpdateRow(p) \/ ReadPosition(p) \/ WritePosition(p)

ReconcilerStep(p) == ReconcileLookup(p) \/ RebuildRead(p) \/ RebuildSave(p)

Exchange == \E e \in DOMAIN exch : Settle(e) \/ Publish(e)

Next ==
  \/ \E p \in Traders : TraderStart(p) \/ TraderStep(p)
  \/ \E p \in Reconcilers : ReconcileList(p) \/ ReconcilerStep(p)
  \/ \E p \in Procs : Booking(p) \/ LookupRaises(p) \/ Crash(p)
  \/ Exchange
  \/ \E block, file \in BOOLEAN : SetSwitch(block, file)

Spec == Init /\ [][Next]_vars
-----------------------------------------------------------------------------
(* Fairness: a started handler runs on, the exchange settles and publishes *)
(* what it executed, and somebody keeps running live-reconcile.            *)

Fairness ==
  /\ \A p \in Traders : WF_vars(TraderStep(p))
  /\ \A p \in Procs : WF_vars(Booking(p))
  /\ \A p \in Reconcilers : WF_vars(ReconcilerStep(p)) /\ SF_vars(ReconcileList(p))
  /\ \A e \in 1..MaxOrders : WF_vars(e \in DOMAIN exch /\ (Settle(e) \/ Publish(e)))

FairSpec == Spec /\ Fairness
-----------------------------------------------------------------------------
(* Properties                                                              *)

Row == [token : Tokens, action : {"BUY", "SELL"}, size : Nat, req : Nat, ext : Nat,
        resp : {"none", "bare", "exact"}, status : Status, fill : Nat]

ExchOrder == [token : Tokens, action : {"BUY", "SELL"}, fill : Nat,
              settled : BOOLEAN, published : BOOLEAN]

Pc == {"idle", "before", "sellable", "adjust", "adjust_row", "submit", "count", "store",
       "lookup", "update", "read", "write", "next", "save"}

Call == [pc : Pc, token : Tokens \cup {NoToken}, action : {"BUY", "SELL"}, size : Nat,
         req : Nat, before : Nat \cup {Absent}, ext : Nat, resp : {"none", "bare", "exact"},
         row : Nat, fill : Nat, status : Status, base : Nat,
         todo : SUBSET [row : Nat, status : Status], saved : [Tokens -> Nat \cup {Absent}]]

\* The types of the tables and of every handler's locals.
TypeOK ==
  /\ exch \in Seq(ExchOrder) /\ balance \in [Tokens -> Nat]
  /\ rows \in Seq(Row)
  /\ position \in [Tokens -> Nat]
  /\ blockNew \in BOOLEAN /\ killFile \in BOOLEAN /\ errorCount \in Nat
  /\ call \in [Procs -> Call]
  /\ faults \in Nat /\ refusals \in Nat /\ ops \in Nat
  /\ lost \subseteq Nat /\ overrun \in [Traders -> Nat] /\ streak \in Nat

AllIdle == \A p \in Procs : call[p].pc = "idle"

RowsOf(e) == {i \in DOMAIN rows : rows[i].ext = e}

\* Every order the exchange accepted is recorded in exactly one live_orders
\* row, unless the answer to its submission was lost or its process is still
\* between the answer and the row (live.py 649-696).
EveryOrderTracked ==
  \A e \in DOMAIN exch :
    \/ e \in lost /\ RowsOf(e) = {}
    \/ e \notin lost /\ \E i \in DOMAIN rows : RowsOf(e) = {i}
    \/ e \notin lost /\ RowsOf(e) = {} /\ \E p \in Traders : call[p].pc = "store" /\ call[p].ext = e

\* When handlers do not overlap, live_positions agrees with the filled rows
\* whenever nobody is at work: the incremental booking of fills and of balance
\* adjustments and the rebuild from scratch compute the same position.
PositionsMatchRows == AllIdle => \A t \in Tokens : position[t] = Replay(t)

\* A recorded fill is never more than what the exchange executed.
NoPhantomFill ==
  \A i \in DOMAIN rows : rows[i].ext # 0 => rows[i].fill <= exch[rows[i].ext].fill

\* docs/live-trading.md, 5: live positions are updated only from actual fills,
\* so a position never exceeds the shares the exchange ever executed for us.
PositionsFromActualFills ==
  \A t \in Tokens :
    position[t] <= MapThenSumSet(LAMBDA e : IF exch[e].token = t /\ exch[e].action = "BUY"
                                            THEN exch[e].fill ELSE 0, DOMAIN exch)

\* When handlers do not overlap, only a fill that reconciliation books later,
\* or the rebuild, can take the total cost basis above the exposure cap: an
\* entry's own booking never does.
OnlyLateBookingExceedsCap ==
  [][Exposure' > Exposure /\ Exposure' > ExposureCap
       => \E p \in Reconcilers : call[p].pc \in {"write", "save"} /\ call'[p] # call[p]]_vars

\* A buy already admitted when entries are blocked may still be submitted, but
\* no trader submits a second one until entries are allowed again.
KillSwitchStopsEntries == \A p \in Traders : overrun[p] <= 1

\* Enough insufficient-balance refusals in a row leave entries blocked.
RefusalsBlock == streak >= BlockThreshold => blockNew

\* A balance adjustment stays in the books: no later step may revise its row.
AdjustmentsStay ==
  [][\A i \in DOMAIN rows : rows[i].ext = 0 => rows'[i] = rows[i]]_vars

\* A fill, once recorded, is never revised or withdrawn.
FillsStay ==
  [][\A i \in DOMAIN rows :
       rows[i].ext # 0 /\ rows[i].status = "filled" => rows'[i] = rows[i]]_vars

\* Every executed fill that has a row is recorded in the end.
FillsBookedEventually ==
  \A i \in 1..MaxRows :
    (i \in DOMAIN rows /\ rows[i].ext # 0 /\ exch[rows[i].ext].fill > 0)
       ~> (i \in DOMAIN rows /\ rows[i].status = "filled")

\* Whatever a crash left half done, the positions agree with the rows again
\* and again once live-reconcile is run.
PositionsRepaired == []<>(\A t \in Tokens : position[t] = Replay(t))

\* Each accepted order goes through its life once (OrderLifecycle).
OrderStage(e) ==
  IF e \notin DOMAIN exch THEN "new"
  ELSE IF e \in lost THEN "orphan"
  ELSE IF RowsOf(e) = {} THEN "placed"
  ELSE LET r == rows[CHOOSE i \in RowsOf(e) : TRUE]
       IN  CASE r.status \in {"submitted", "unknown_fill"} -> "tracked"
             [] r.status = "filled" -> "resolved"
             [] OTHER -> "dropped"

BookedShares(e) == IF OrderStage(e) = "resolved"
                   THEN rows[CHOOSE i \in RowsOf(e) : TRUE].fill ELSE 0

Lifecycle == INSTANCE OrderLifecycle
  WITH Orders <- 1..MaxOrders,
       stage  <- [e \in 1..MaxOrders |-> OrderStage(e)],
       booked <- [e \in 1..MaxOrders |-> BookedShares(e)]

ImplementsLifecycle == Lifecycle!Spec
=============================================================================
