------------------------ MODULE LiveExecution_proofs ------------------------
(***************************************************************************)
(* Theorems about LiveExecution, for every number of tokens, processes,    *)
(* orders, rows and faults, overlapping or not:                            *)
(*   TypeCorrect      the tables and the handlers' locals have their types *)
(*   OrdersTracked    every accepted order has exactly one row, or is      *)
(*                    known to have been lost by its process               *)
(*   KillSwitchWorks  a trader submits at most one buy after entries are   *)
(*                    blocked                                              *)
(*   FillsAreReal     no row records more than the exchange executed, as   *)
(*                    long as a lookup of a match gives its amounts        *)
(*                                                                         *)
(* The types alone are not inductive: a handler copies its token into a    *)
(* row, looks its order up in exch, and revises a row it listed earlier.   *)
(* CallsOK says that these references hold; OrdersOK relates the orders,   *)
(* the rows and the handlers that have an order in hand.                   *)
(***************************************************************************)
EXTENDS LiveExecution, SequenceTheorems, TLAPS

Holding == Pc \ {"idle", "next", "save"}

\* What a handler's locals refer to exists.
GoodCall(c) ==
  /\ c.pc \in Holding => c.token \in Tokens
  /\ c.pc \in {"store", "lookup"} => c.ext \in DOMAIN exch
  /\ c.pc \in {"lookup", "update"} => c.row \in DOMAIN rows
  /\ \A x \in c.todo : x.row \in DOMAIN rows

CallsOK == \A p \in Procs :
  GoodCall(call[p]) /\ (call[p].pc = "store" => p \in Traders)

InHand(p, e) == call[p].pc = "store" /\ call[p].ext = e

HasRow(e) == \E i \in DOMAIN rows : rows[i].ext = e

\* The inductive core of EveryOrderTracked.
OrdersOK ==
  /\ lost \subseteq DOMAIN exch
  /\ \A i \in DOMAIN rows : rows[i].ext # 0 => rows[i].ext \in DOMAIN exch \ lost
  /\ \A i, j \in DOMAIN rows : rows[i].ext # 0 /\ rows[i].ext = rows[j].ext => i = j
  /\ \A p \in Procs : \A e \in DOMAIN exch :
       InHand(p, e) => /\ e \notin lost /\ ~HasRow(e)
                       /\ \A q \in Procs : InHand(q, e) => q = p
  /\ \A e \in DOMAIN exch : e \in lost \/ HasRow(e) \/ \E p \in Traders : InHand(p, e)

IInv == TypeOK /\ CallsOK /\ OrdersOK
-----------------------------------------------------------------------------
(* Lemmas about the operators                                              *)

\* An idle handler's locals have their types.
LEMMA IdleTyped == Idle \in Call
  BY DEF Idle, Call, Pc, Status, Absent

\* Cutting an amount to the exchange's precision leaves a natural number.
LEMMA FloorLotNat == ASSUME NEW n \in Nat PROVE FloorLot(n) \in Nat
<1>1. Lot \in Nat \ {0}
  BY ConstantsOK
<1>2. n % Lot \in 0..(Lot - 1)
  BY <1>1
<1>3. n < Lot => n % Lot = n
  BY <1>1
<1> QED
  BY <1>1, <1>2, <1>3 DEF FloorLot

\* The balance cut never turns a fill into more than was reported.
LEMMA BalanceCutNat ==
  ASSUME NEW before \in Nat \cup {Absent}, NEW after \in Nat \cup {Absent}, NEW n \in Nat
  PROVE  BalanceCut(before, after, n) \in Nat /\ BalanceCut(before, after, n) <= n
  BY DEF BalanceCut, Least, Greatest, Absent

\* The fill taken from a payload is the executed amount, the request or none.
LEMMA FillSharesNat ==
  ASSUME NEW payload, NEW default \in Nat, NEW filled \in Nat
  PROVE  FillShares(payload, default, filled) \in Nat
  BY DEF FillShares

\* The status a lookup leads to is one the table knows.
LEMMA ReconcileStatusTyped ==
  ASSUME NEW report \in Report, NEW resp, NEW n \in Nat, NEW default \in Status
  PROVE  ReconcileStatus(ReconcilePayload(report, resp), n, default) \in Status
  BY DEF ReconcileStatus, ReconcilePayload, Report, Status

LEMMA ExactStatusTyped ==
  ASSUME NEW n \in Nat, NEW default \in Status
  PROVE  ReconcileStatus("exact", n, default) \in Status
  BY DEF ReconcileStatus, Status
-----------------------------------------------------------------------------
(* Steps that neither accept an order nor add a row                        *)

SameOrders ==
  /\ DOMAIN exch' = DOMAIN exch /\ DOMAIN rows' = DOMAIN rows /\ lost' = lost
  /\ \A i \in DOMAIN rows : rows'[i].ext = rows[i].ext

\* A handler that is not between answer and row may move anywhere else.
LEMMA Moves ==
  ASSUME IInv, NEW p \in Procs, NEW c \in Call, Go(p, c), SameOrders,
         GoodCall(c), c.pc # "store", call[p].pc # "store"
  PROVE  call' \in [Procs -> Call] /\ CallsOK' /\ OrdersOK'
<1>1. call \in [Procs -> Call] /\ CallsOK /\ OrdersOK
  BY DEF IInv, TypeOK
<1>2. call' \in [Procs -> Call]
  BY <1>1 DEF Go
<1>3. \A q \in Procs : call'[q] = IF q = p THEN c ELSE call[q]
  BY <1>1 DEF Go
<1>4. CallsOK'
  BY <1>1, <1>3 DEF CallsOK, GoodCall, SameOrders
<1>5. \A q \in Procs, e \in DOMAIN exch : InHand(q, e)' <=> InHand(q, e)
  BY <1>3 DEF InHand
<1>6. \A e \in DOMAIN exch : HasRow(e)' <=> HasRow(e)
  BY DEF HasRow, SameOrders
<1>7. Traders \subseteq Procs
  BY DEF Procs
<1>8. OrdersOK'
  BY <1>1, <1>5, <1>6, <1>7 DEF OrdersOK, SameOrders
<1> QED
  BY <1>2, <1>4, <1>8

\* Steps of the exchange and the operator leave the handlers alone.
LEMMA Stays ==
  ASSUME IInv, SameOrders, call' = call
  PROVE  call' \in [Procs -> Call] /\ CallsOK' /\ OrdersOK'
<1>1. call \in [Procs -> Call] /\ CallsOK /\ OrdersOK
  BY DEF IInv, TypeOK
<1>2. CallsOK'
  BY <1>1 DEF CallsOK, GoodCall, SameOrders
<1>3. \A q \in Procs, e \in DOMAIN exch : InHand(q, e)' <=> InHand(q, e)
  BY DEF InHand
<1>4. \A e \in DOMAIN exch : HasRow(e)' <=> HasRow(e)
  BY DEF HasRow, SameOrders
<1>5. Traders \subseteq Procs
  BY DEF Procs
<1>6. OrdersOK'
  BY <1>1, <1>3, <1>4, <1>5 DEF OrdersOK, SameOrders
<1> QED
  BY <1>1, <1>2, <1>6

\* An unchanged exchange, table and history are a special case.
LEMMA SameOrdersUnchanged ==
  ASSUME UNCHANGED <<exch, rows, lost>> PROVE SameOrders
  BY DEF SameOrders

\* A step that changes nothing but one handler's locals.
LEMMA OnlyCall ==
  ASSUME IInv, NEW p \in Procs, NEW c \in Call, Go(p, c), GoodCall(c),
         c.pc # "store", call[p].pc # "store",
         UNCHANGED <<market, db, bounds, history>>
  PROVE  IInv'
<1>1. SameOrders
  BY SameOrdersUnchanged DEF market, db, history
<1>2. call' \in [Procs -> Call] /\ CallsOK' /\ OrdersOK'
  BY <1>1, Moves
<1>3. TypeOK'
  BY <1>2 DEF IInv, TypeOK, market, db, bounds, history
<1> QED
  BY <1>2, <1>3 DEF IInv

\* A handler goes idle.
LEMMA IdleGood == GoodCall(Idle) /\ Idle.pc # "store"
  BY DEF GoodCall, Idle, Holding

LEMMA CallTyped == ASSUME IInv, NEW p \in Procs PROVE call[p] \in Call /\ GoodCall(call[p])
  BY DEF IInv, TypeOK, CallsOK
-----------------------------------------------------------------------------
(* The actions                                                             *)

LEMMA BuyAdmitInv ==
  ASSUME IInv, NEW p \in Traders, NEW t \in Tokens, NEW q \in Quotes, BuyAdmit(p, t, q)
  PROVE  IInv'
<1> DEFINE c == [Idle EXCEPT !.pc = "before", !.token = t, !.size = q.size, !.req = q.cost]
<1>1. q.size \in Nat /\ q.cost \in Nat
  BY ConstantsOK
<1>2. c \in Call /\ GoodCall(c) /\ c.pc # "store"
  BY <1>1, IdleTyped DEF Call, Pc, GoodCall, Idle
<1>3. Go(p, c) /\ call[p].pc # "store" /\ UNCHANGED <<market, db, bounds, history>>
  BY DEF BuyAdmit, MayStart
<1>4. p \in Procs
  BY DEF Procs
<1> HIDE DEF c
<1> QED
  BY <1>2, <1>3, <1>4, OnlyCall

LEMMA BuyBalanceBeforeInv ==
  ASSUME IInv, NEW p \in Traders, BuyBalanceBefore(p) PROVE IInv'
<1>1. p \in Procs /\ call[p] \in Call /\ GoodCall(call[p])
  BY CallTyped DEF Procs
<1>2. PICK b \in SellableBalance(call[p].token) :
         Go(p, [call[p] EXCEPT !.pc = "submit", !.before = b])
  BY DEF BuyBalanceBefore
<1> DEFINE c == [call[p] EXCEPT !.pc = "submit", !.before = b]
<1>3. call[p].token \in Tokens /\ call[p].pc = "before"
  BY <1>1 DEF BuyBalanceBefore, GoodCall, Holding, Pc
<1>4. b \in Nat \cup {Absent}
  BY <1>3 DEF SellableBalance, IInv, TypeOK
<1>5. c \in Call /\ GoodCall(c) /\ c.pc # "store"
  BY <1>1, <1>3, <1>4 DEF Call, Pc, GoodCall
<1>6. UNCHANGED <<market, db, bounds, history>>
  BY DEF BuyBalanceBefore
<1> HIDE DEF c
<1> QED
  BY <1>1, <1>2, <1>3, <1>5, <1>6, OnlyCall DEF c

LEMMA SellAdmitInv ==
  ASSUME IInv, NEW p \in Traders, NEW t \in Tokens, SellAdmit(p, t) PROVE IInv'
<1> DEFINE c == [Idle EXCEPT !.pc = "sellable", !.token = t, !.action = "SELL",
                             !.base = position[t]]
<1>1. position[t] \in Nat
  BY DEF IInv, TypeOK
<1>2. c \in Call /\ GoodCall(c) /\ c.pc # "store"
  BY <1>1, IdleTyped DEF Call, Pc, GoodCall, Idle
<1>3. Go(p, c) /\ call[p].pc # "store" /\ UNCHANGED <<market, db, bounds, history>>
  BY DEF SellAdmit, MayStart
<1>4. p \in Procs
  BY DEF Procs
<1> HIDE DEF c
<1> QED
  BY <1>2, <1>3, <1>4, OnlyCall

LEMMA SellBalanceInv ==
  ASSUME IInv, NEW p \in Traders, SellBalance(p) PROVE IInv'
<1>1. p \in Procs /\ call[p] \in Call /\ GoodCall(call[p])
  BY CallTyped DEF Procs
<1>2. call[p].pc = "sellable" /\ UNCHANGED <<market, db, bounds, history>>
  BY DEF SellBalance
<1>3. call[p].token \in Tokens /\ call[p].base \in Nat
  BY <1>1, <1>2 DEF GoodCall, Holding, Pc, Call
<1>4. PICK b \in SellableBalance(call[p].token) :
         LET held  == call[p].base
             short == b # Absent /\ b < held
             req   == FloorLot(IF short THEN b ELSE held)
             next  == CASE short -> "adjust"
                        [] ~short /\ req > 0 -> "submit"
                        [] ~short /\ req = 0 -> "idle"
         IN  Go(p, IF next = "idle" THEN Idle
                   ELSE [call[p] EXCEPT !.pc = next, !.req = req, !.size = req,
                                        !.fill = IF short THEN held - b ELSE 0])
  BY DEF SellBalance
<1>5. b \in Nat \/ b = Absent
  BY <1>3 DEF SellableBalance, IInv, TypeOK
<1> DEFINE held  == call[p].base
           short == b # Absent /\ b < held
           req   == FloorLot(IF short THEN b ELSE held)
           next  == CASE short -> "adjust"
                      [] ~short /\ req > 0 -> "submit"
                      [] ~short /\ req = 0 -> "idle"
           c     == IF next = "idle" THEN Idle
                    ELSE [call[p] EXCEPT !.pc = next, !.req = req, !.size = req,
                                         !.fill = IF short THEN held - b ELSE 0]
<1>6. req \in Nat
  BY <1>3, <1>5, FloorLotNat
<1> HIDE DEF req
<1>7. next \in {"adjust", "submit", "idle"}
  BY <1>6
<1>8. (IF short THEN held - b ELSE 0) \in Nat
  BY <1>3, <1>5
<1> HIDE DEF next, short
<1>9. c \in Call /\ GoodCall(c) /\ c.pc # "store"
  <2>1. CASE next = "idle"
    BY <2>1, IdleTyped, IdleGood DEF Idle
  <2>2. CASE next # "idle"
    BY <2>2, <1>1, <1>3, <1>6, <1>7, <1>8 DEF Call, Pc, GoodCall
  <2> QED
    BY <2>1, <2>2
<1>10. Go(p, c)
  BY <1>4 DEF next, short, req
<1> HIDE DEF c
<1> QED
  BY <1>1, <1>2, <1>9, <1>10, OnlyCall

LEMMA AdjustPositionInv ==
  ASSUME IInv, NEW p \in Traders, AdjustPosition(p) PROVE IInv'
<1>1. p \in Procs /\ call[p] \in Call /\ GoodCall(call[p])
  BY CallTyped DEF Procs
<1> DEFINE c == [call[p] EXCEPT !.pc = "adjust_row"]
<1>2. call[p].pc = "adjust" /\ Go(p, c) /\ UNCHANGED <<exch, rows, lost>>
  BY DEF AdjustPosition, Goto, market, history
<1>3. c \in Call /\ GoodCall(c) /\ c.pc # "store"
  BY <1>1, <1>2 DEF Call, Pc, GoodCall, Holding
<1> HIDE DEF c
<1>4. call' \in [Procs -> Call] /\ CallsOK' /\ OrdersOK'
  BY <1>1, <1>2, <1>3, Moves, SameOrdersUnchanged
<1>5. position' \in [Tokens -> Nat]
  <2>1. call[p].fill \in Nat /\ call[p].token \in Tokens
    BY <1>1, <1>2 DEF Call, GoodCall, Holding, Pc
  <2>2. position \in [Tokens -> Nat]
    BY DEF IInv, TypeOK
  <2> QED
    BY <2>1, <2>2 DEF AdjustPosition, Greatest
<1>6. TypeOK'
  BY <1>4, <1>5 DEF AdjustPosition, IInv, TypeOK, market, bounds, history
<1> QED
  BY <1>4, <1>6 DEF IInv

\* The history variables keep their types.
LEMMA CountOverrunTyped ==
  ASSUME IInv, NEW p \in Traders, CountOverrun(p) PROVE overrun' \in [Traders -> Nat]
  BY DEF IInv, TypeOK, CountOverrun

LEMMA ResetErrorsTyped ==
  ASSUME IInv, NEW c, ResetErrors(c) PROVE errorCount' \in Nat /\ streak' \in Nat
  BY DEF IInv, TypeOK, ResetErrors

LEMMA SubmitNoFundsInv ==
  ASSUME IInv, NEW p \in Traders, SubmitNoFunds(p) PROVE IInv'
<1>1. p \in Procs /\ call[p] \in Call /\ GoodCall(call[p])
  BY CallTyped DEF Procs
<1> DEFINE c == [call[p] EXCEPT !.pc = "count", !.base = errorCount]
<1>2. call[p].pc = "submit" /\ Go(p, c) /\ UNCHANGED <<exch, rows, lost>>
  BY DEF SubmitNoFunds, market, db
<1>3. c \in Call /\ GoodCall(c) /\ c.pc # "store"
  BY <1>1, <1>2 DEF Call, Pc, GoodCall, Holding, IInv, TypeOK
<1> HIDE DEF c
<1>4. call' \in [Procs -> Call] /\ CallsOK' /\ OrdersOK'
  BY <1>1, <1>2, <1>3, Moves, SameOrdersUnchanged
<1>5. overrun' \in [Traders -> Nat] /\ refusals' \in Nat
  BY CountOverrunTyped DEF SubmitNoFunds, IInv, TypeOK
<1>6. TypeOK'
  BY <1>4, <1>5 DEF SubmitNoFunds, IInv, TypeOK, market, db
<1> QED
  BY <1>4, <1>6 DEF IInv

LEMMA CountRefusalInv ==
  ASSUME IInv, NEW p \in Traders, CountRefusal(p) PROVE IInv'
<1>1. p \in Procs /\ call[p] \in Call
  BY CallTyped DEF Procs
<1>2. call[p].pc = "count" /\ Go(p, Idle) /\ UNCHANGED <<exch, rows, lost>>
  BY DEF CountRefusal, market
<1>3. call' \in [Procs -> Call] /\ CallsOK' /\ OrdersOK'
  BY <1>1, <1>2, IdleTyped, IdleGood, Moves, SameOrdersUnchanged
<1>4. errorCount' \in Nat /\ blockNew' \in BOOLEAN /\ streak' \in Nat
  BY <1>1 DEF CountRefusal, IInv, TypeOK, Call
<1>5. TypeOK'
  BY <1>3, <1>4 DEF CountRefusal, IInv, TypeOK, market, bounds
<1> QED
  BY <1>3, <1>5 DEF IInv

LEMMA SubmitRefusedInv ==
  ASSUME IInv, NEW p \in Traders, SubmitRefused(p) PROVE IInv'
<1>1. p \in Procs /\ call[p].pc = "submit" /\ Go(p, Idle) /\ UNCHANGED <<exch, rows, lost>>
  BY DEF SubmitRefused, market, Procs
<1>2. call' \in [Procs -> Call] /\ CallsOK' /\ OrdersOK'
  BY <1>1, IdleTyped, IdleGood, Moves, SameOrdersUnchanged
<1>3. overrun' \in [Traders -> Nat] /\ refusals' \in Nat /\ errorCount' \in Nat /\ streak' \in Nat
  BY CountOverrunTyped, ResetErrorsTyped DEF SubmitRefused, IInv, TypeOK
<1>4. TypeOK'
  BY <1>2, <1>3 DEF SubmitRefused, IInv, TypeOK, market
<1> QED
  BY <1>2, <1>4 DEF IInv

\* The answers the exchange may give are reports.
LEMMA LookupReportsTyped == \A e : LookupReports(e) \subseteq Report
  BY ConstantsOK DEF LookupReports

LEMMA LookupInv ==
  ASSUME IInv, NEW p \in Traders, Lookup(p) PROVE IInv'
<1>1. p \in Procs /\ call[p] \in Call /\ GoodCall(call[p])
  BY CallTyped DEF Procs
<1>2. call[p].pc = "lookup" /\ UNCHANGED <<market, db, bounds, history>>
  BY DEF Lookup
<1>3. call[p].token \in Tokens /\ call[p].ext \in DOMAIN exch
  BY <1>1, <1>2 DEF GoodCall, Holding, Pc
<1>4. PICK report \in LookupReports(call[p].ext), after \in SellableBalance(call[p].token) :
       LET c       == call[p]
           payload == ReconcilePayload(report, c.resp)
           shares  == FillShares(payload, c.req, exch[c.ext].fill)
           kept    == IF c.action = "BUY" THEN BalanceCut(c.before, after, shares) ELSE shares
           status  == IF shares > 0 /\ kept = 0 THEN "unknown_fill"
                      ELSE ReconcileStatus(payload, kept, "submitted")
       IN  Go(p, [c EXCEPT !.pc = "update", !.fill = kept, !.status = status])
  BY DEF Lookup
<1> DEFINE payload == ReconcilePayload(report, call[p].resp)
           shares  == FillShares(payload, call[p].req, exch[call[p].ext].fill)
           kept    == IF call[p].action = "BUY"
                      THEN BalanceCut(call[p].before, after, shares) ELSE shares
           status  == IF shares > 0 /\ kept = 0 THEN "unknown_fill"
                      ELSE ReconcileStatus(payload, kept, "submitted")
           c       == [call[p] EXCEPT !.pc = "update", !.fill = kept, !.status = status]
<1>5. exch[call[p].ext].fill \in Nat /\ call[p].req \in Nat
  <2>1. exch[call[p].ext] \in ExchOrder
    BY <1>3 DEF IInv, TypeOK
  <2> QED
    BY <1>1, <2>1 DEF ExchOrder, Call
<1>6. shares \in Nat
  BY <1>5, FillSharesNat
<1>7. after \in Nat \cup {Absent} /\ call[p].before \in Nat \cup {Absent}
  BY <1>1, <1>3 DEF SellableBalance, IInv, TypeOK, Call
<1>8. kept \in Nat
  BY <1>6, <1>7, BalanceCutNat
<1>9. status \in Status
  <2>1. "submitted" \in Status /\ "unknown_fill" \in Status /\ report \in Report
    BY LookupReportsTyped DEF Status
  <2> HIDE DEF kept, shares
  <2>2. ReconcileStatus(payload, kept, "submitted") \in Status
    BY <1>8, <2>1, ReconcileStatusTyped
  <2> QED
    BY <2>1, <2>2
<1>10. Go(p, c)
  BY <1>4
<1> HIDE DEF kept, status
<1>11. c \in Call /\ GoodCall(c) /\ c.pc # "store"
  BY <1>1, <1>2, <1>3, <1>8, <1>9 DEF Call, Pc, GoodCall
<1> HIDE DEF c
<1> QED
  BY <1>1, <1>2, <1>10, <1>11, OnlyCall

\* After booking, a trader's call ends and a reconciler goes on with its list.
LEMMA AfterBookingGood ==
  ASSUME IInv, NEW p \in Procs
  PROVE  AfterBooking(p) \in Call /\ GoodCall(AfterBooking(p)) /\ AfterBooking(p).pc # "store"
<1>1. call[p] \in Call /\ GoodCall(call[p])
  BY CallTyped
<1>2. CASE p \in Traders
  BY <1>2, IdleTyped, IdleGood DEF AfterBooking, Idle
<1>3. CASE p \notin Traders
  BY <1>1, <1>3, IdleTyped DEF AfterBooking, GoodCall, Holding, Call, Pc, Idle
<1> QED
  BY <1>2, <1>3

LEMMA UpdateRowInv ==
  ASSUME IInv, NEW p \in Procs, UpdateRow(p) PROVE IInv'
<1>1. call[p] \in Call /\ GoodCall(call[p])
  BY CallTyped
<1> DEFINE c == IF call[p].fill > 0 THEN [call[p] EXCEPT !.pc = "read"] ELSE AfterBooking(p)
<1>2. call[p].pc = "update" /\ Go(p, c)
  BY DEF UpdateRow
<1>3. c \in Call /\ GoodCall(c) /\ c.pc # "store"
  <2>1. [call[p] EXCEPT !.pc = "read"] \in Call /\ GoodCall([call[p] EXCEPT !.pc = "read"])
    BY <1>1, <1>2 DEF Call, Pc, GoodCall, Holding
  <2>2. [call[p] EXCEPT !.pc = "read"].pc # "store"
    BY <1>1 DEF Call
  <2> QED
    BY <2>1, <2>2, AfterBookingGood
<1> HIDE DEF c
<1>4. rows' \in Seq(Row) /\ DOMAIN rows' = DOMAIN rows
      /\ \A i \in DOMAIN rows : rows'[i].ext = rows[i].ext
  <2>1. rows \in Seq(Row)
    BY DEF IInv, TypeOK
  <2>2. call[p].status \in Status /\ call[p].fill \in Nat
    BY <1>1 DEF Call
  <2> DEFINE i0 == call[p].row
  <2>3. rows' = [rows EXCEPT ![i0].status = call[p].status, ![i0].fill = call[p].fill]
    BY DEF UpdateRow
  <2>4. i0 \in DOMAIN rows
    BY <1>1, <1>2 DEF GoodCall
  <2> DEFINE r == [rows[i0] EXCEPT !.status = call[p].status, !.fill = call[p].fill]
  <2>5. rows[i0] \in Row
    BY <2>1, <2>4
  <2>6. r \in Row /\ r.ext = rows[i0].ext
    BY <2>2, <2>5 DEF Row
  <2>7. rows' = [rows EXCEPT ![i0] = r]
    BY <2>1, <2>3, <2>4
  <2> HIDE DEF r, i0
  <2> QED
    BY <2>1, <2>4, <2>6, <2>7, ExceptSeq
<1>5. SameOrders
  BY <1>4 DEF UpdateRow, SameOrders, market, history
<1>6. call' \in [Procs -> Call] /\ CallsOK' /\ OrdersOK'
  BY <1>1, <1>2, <1>3, <1>5, Moves
<1>7. TypeOK'
  BY <1>4, <1>6 DEF UpdateRow, IInv, TypeOK, market, bounds, history
<1> QED
  BY <1>6, <1>7 DEF IInv

LEMMA ReadPositionInv ==
  ASSUME IInv, NEW p \in Procs, ReadPosition(p) PROVE IInv'
<1>1. call[p] \in Call /\ GoodCall(call[p])
  BY CallTyped
<1> DEFINE c == [call[p] EXCEPT !.pc = "write", !.base = position[call[p].token]]
<1>2. call[p].pc = "read" /\ Go(p, c) /\ UNCHANGED <<market, db, bounds, history>>
  BY DEF ReadPosition
<1>3. call[p].token \in Tokens /\ position[call[p].token] \in Nat
  BY <1>1, <1>2 DEF GoodCall, Holding, Pc, IInv, TypeOK
<1>4. c \in Call /\ GoodCall(c) /\ c.pc # "store"
  BY <1>1, <1>2, <1>3 DEF Call, Pc, GoodCall
<1> HIDE DEF c
<1> QED
  BY <1>1, <1>2, <1>4, OnlyCall

LEMMA WritePositionInv ==
  ASSUME IInv, NEW p \in Procs, WritePosition(p) PROVE IInv'
<1>1. call[p] \in Call /\ GoodCall(call[p])
  BY CallTyped
<1>2. call[p].pc = "write" /\ Go(p, AfterBooking(p)) /\ UNCHANGED <<exch, rows, lost>>
  BY DEF WritePosition, market, history
<1>3. call' \in [Procs -> Call] /\ CallsOK' /\ OrdersOK'
  BY <1>1, <1>2, AfterBookingGood, Moves, SameOrdersUnchanged
<1>4. position' \in [Tokens -> Nat]
  <2>1. call[p].fill \in Nat /\ call[p].base \in Nat
    BY <1>1 DEF Call
  <2>2. position \in [Tokens -> Nat]
    BY DEF IInv, TypeOK
  <2> DEFINE v == IF call[p].action = "SELL" THEN Greatest(call[p].base - call[p].fill, 0)
                  ELSE call[p].base + call[p].fill
  <2>3. v \in Nat
    BY <2>1 DEF Greatest
  <2>4. position' = [position EXCEPT ![call[p].token] = v]
    BY DEF WritePosition, NewPosition
  <2> HIDE DEF v
  <2> QED
    BY <2>2, <2>3, <2>4
<1>5. TypeOK'
  BY <1>3, <1>4 DEF WritePosition, IInv, TypeOK, market, bounds, history
<1> QED
  BY <1>3, <1>5 DEF IInv

LEMMA ReconcileListInv ==
  ASSUME IInv, NEW p \in Reconcilers, ReconcileList(p) PROVE IInv'
<1> DEFINE c == [Idle EXCEPT !.pc = "next", !.todo = Listed]
<1>1. p \in Procs /\ call[p].pc # "store" /\ Go(p, c) /\ UNCHANGED <<market, db, bounds, history>>
  BY DEF ReconcileList, MayStart, Procs
<1>2. rows \in Seq(Row)
  BY DEF IInv, TypeOK
<1>3. Listed \in SUBSET [row : Nat, status : Status] /\ \A x \in Listed : x.row \in DOMAIN rows
  <2>1. \A i \in DOMAIN rows : i \in Nat /\ rows[i] \in Row
    BY <1>2
  <2>2. \A i \in DOMAIN rows : rows[i].status \in Status
    BY <2>1 DEF Row
  <2> QED
    BY <2>1, <2>2 DEF Listed
<1>4. c \in Call /\ GoodCall(c) /\ c.pc # "store"
  BY <1>3, IdleTyped DEF Call, Pc, GoodCall, Holding, Idle
<1> HIDE DEF c
<1> QED
  BY <1>1, <1>4, OnlyCall

LEMMA ReconcileLookupInv ==
  ASSUME IInv, NEW p \in Reconcilers, ReconcileLookup(p) PROVE IInv'
<1>1. p \in Procs /\ call[p] \in Call /\ GoodCall(call[p])
  BY CallTyped DEF Procs
<1>2. call[p].pc = "next" /\ UNCHANGED <<market, db, bounds, history>>
  BY DEF ReconcileLookup
<1>3. PICK x \in NextListed(p) :
        LET r      == rows[x.row]
            linked == r.ext # 0
            traded == linked /\ exch[r.ext].published /\ exch[r.ext].fill > 0
        IN \E report \in IF linked THEN LookupReports(r.ext) ELSE {"unknown"} :
             LET payload == IF traded THEN "exact" ELSE ReconcilePayload(report, r.resp)
                 default == IF r.action = "SELL" THEN r.req ELSE r.size
                 shares  == FillShares(payload, default, IF linked THEN exch[r.ext].fill ELSE 0)
             IN  Go(p, [Idle EXCEPT !.pc = "update", !.row = x.row, !.token = r.token,
                          !.action = r.action, !.fill = shares,
                          !.status = ReconcileStatus(payload, shares, x.status),
                          !.todo = call[p].todo \ {x}])
  BY DEF ReconcileLookup
<1>4. x \in call[p].todo /\ x.row \in DOMAIN rows /\ x.row \in Nat /\ x.status \in Status
  BY <1>1 DEF NextListed, GoodCall, Call
<1> DEFINE r == rows[x.row]
           linked == r.ext # 0
           traded == linked /\ exch[r.ext].published /\ exch[r.ext].fill > 0
           default == IF r.action = "SELL" THEN r.req ELSE r.size
           filled == IF linked THEN exch[r.ext].fill ELSE 0
<1>5. r \in Row
  BY <1>4 DEF IInv, TypeOK
<1>6. PICK report \in IF linked THEN LookupReports(r.ext) ELSE {"unknown"} :
        LET payload == IF traded THEN "exact" ELSE ReconcilePayload(report, r.resp)
            shares  == FillShares(payload, default, filled)
        IN  Go(p, [Idle EXCEPT !.pc = "update", !.row = x.row, !.token = r.token,
                     !.action = r.action, !.fill = shares,
                     !.status = ReconcileStatus(payload, shares, x.status),
                     !.todo = call[p].todo \ {x}])
  BY <1>3
<1> DEFINE payload == IF traded THEN "exact" ELSE ReconcilePayload(report, r.resp)
           shares  == FillShares(payload, default, filled)
           status  == ReconcileStatus(payload, shares, x.status)
           c == [Idle EXCEPT !.pc = "update", !.row = x.row, !.token = r.token,
                   !.action = r.action, !.fill = shares, !.status = status,
                   !.todo = call[p].todo \ {x}]
<1>7. default \in Nat /\ r.token \in Tokens /\ r.action \in {"BUY", "SELL"}
  BY <1>5 DEF Row
<1>8. filled \in Nat
  <2>1. CASE linked
    <3>1. r.ext \in DOMAIN exch
      BY <1>4, <2>1 DEF IInv, OrdersOK
    <3>2. exch[r.ext] \in ExchOrder
      BY <3>1 DEF IInv, TypeOK
    <3> QED
      BY <2>1, <3>2 DEF ExchOrder
  <2>2. CASE ~linked
    BY <2>2
  <2> QED
    BY <2>1, <2>2
<1>9. report \in Report
  BY LookupReportsTyped DEF Report
<1> HIDE DEF r, default, filled
<1>10. shares \in Nat
  BY <1>7, <1>8, FillSharesNat
<1> HIDE DEF shares, traded
<1>11. status \in Status
  BY <1>4, <1>9, <1>10, ReconcileStatusTyped, ExactStatusTyped
<1>12. call[p].todo \ {x} \in SUBSET [row : Nat, status : Status]
       /\ \A y \in call[p].todo \ {x} : y.row \in DOMAIN rows
  BY <1>1 DEF Call, GoodCall
<1>13. Go(p, c)
  BY <1>6 DEF shares, traded
<1> HIDE DEF status, payload
<1>14. c \in Call /\ GoodCall(c) /\ c.pc # "store"
  BY <1>4, <1>7, <1>10, <1>11, <1>12, IdleTyped DEF Call, Pc, GoodCall, Idle
<1> HIDE DEF c
<1> QED
  BY <1>1, <1>2, <1>13, <1>14, OnlyCall

LEMMA RebuildReadInv ==
  ASSUME IInv, NEW p \in Reconcilers, RebuildRead(p) PROVE IInv'
<1> DEFINE s == [t \in Tokens |-> IF HasFills(t) THEN Replay(t) ELSE Absent]
           c == [Idle EXCEPT !.pc = "save", !.saved = s]
<1>1. p \in Procs /\ call[p].pc # "store" /\ Go(p, c) /\ UNCHANGED <<market, db, bounds, history>>
  BY DEF RebuildRead, Procs
<1>2. \A t \in Tokens : Replay(t) \in 0..MaxPosition
  BY DEF RebuildRead
<1>3. \A t \in Tokens : Replay(t) \in Nat
  BY <1>2, ConstantsOK
<1>4. s \in [Tokens -> Nat \cup {Absent}]
  BY <1>3
<1> HIDE DEF s
<1>5. c \in Call /\ GoodCall(c) /\ c.pc # "store"
  BY <1>4, IdleTyped DEF Call, Pc, GoodCall, Holding, Idle
<1> HIDE DEF c
<1> QED
  BY <1>1, <1>5, OnlyCall

LEMMA RebuildSaveInv ==
  ASSUME IInv, NEW p \in Reconcilers, RebuildSave(p) PROVE IInv'
<1>1. p \in Procs /\ call[p] \in Call
  BY CallTyped DEF Procs
<1>2. call[p].pc = "save" /\ Go(p, Idle) /\ UNCHANGED <<exch, rows, lost>>
  BY DEF RebuildSave, market, history
<1>3. call' \in [Procs -> Call] /\ CallsOK' /\ OrdersOK'
  BY <1>1, <1>2, IdleTyped, IdleGood, Moves, SameOrdersUnchanged
<1>4. call[p].saved \in [Tokens -> Nat \cup {Absent}] /\ position \in [Tokens -> Nat]
  BY <1>1 DEF Call, IInv, TypeOK
<1>5. position' \in [Tokens -> Nat]
  BY <1>4 DEF RebuildSave
<1>6. TypeOK'
  BY <1>3, <1>5 DEF RebuildSave, IInv, TypeOK, market, bounds, history
<1> QED
  BY <1>3, <1>6 DEF IInv

LEMMA LookupRaisesInv ==
  ASSUME IInv, NEW p \in Procs, LookupRaises(p) PROVE IInv'
<1>1. call[p] \in Call /\ GoodCall(call[p])
  BY CallTyped
<1> DEFINE d == [call[p] EXCEPT !.todo = @ \ NextListed(p)]
<1>2. call[p].pc # "store" /\ UNCHANGED <<exch, rows, lost>>
      /\ (Go(p, Idle) \/ (call[p].pc = "next" /\ Go(p, d)))
  BY DEF LookupRaises, market, db, history
<1>3. call[p].pc = "next" => d \in Call /\ GoodCall(d) /\ d.pc # "store"
  BY <1>1 DEF Call, GoodCall, Holding
<1> HIDE DEF d
<1>4. call' \in [Procs -> Call] /\ CallsOK' /\ OrdersOK'
  BY <1>2, <1>3, IdleTyped, IdleGood, Moves, SameOrdersUnchanged
<1>5. faults' \in Nat
  BY DEF LookupRaises, IInv, TypeOK
<1>6. TypeOK'
  BY <1>4, <1>5 DEF LookupRaises, IInv, TypeOK, market, db, history
<1> QED
  BY <1>4, <1>6 DEF IInv

LEMMA SettleInv ==
  ASSUME IInv, NEW e \in DOMAIN exch, Settle(e) PROVE IInv'
<1>1. exch \in Seq(ExchOrder) /\ exch[e] \in ExchOrder /\ balance \in [Tokens -> Nat]
  BY DEF IInv, TypeOK
<1> DEFINE o == [exch[e] EXCEPT !.settled = TRUE]
<1>2. o \in ExchOrder /\ exch' = [exch EXCEPT ![e] = o]
  BY <1>1 DEF ExchOrder, Settle
<1> HIDE DEF o
<1>3. exch' \in Seq(ExchOrder) /\ DOMAIN exch' = DOMAIN exch
  BY <1>1, <1>2, ExceptSeq
<1>4. balance' \in [Tokens -> Nat]
  <2> DEFINE v == balance[exch[e].token] + exch[e].fill
  <2>1. exch[e].token \in Tokens /\ exch[e].fill \in Nat
    BY <1>1 DEF ExchOrder
  <2>2. v \in Nat
    BY <1>1, <2>1
  <2>3. balance' = [balance EXCEPT ![exch[e].token] = v]
    BY DEF Settle
  <2> HIDE DEF v
  <2> QED
    BY <1>1, <2>2, <2>3
<1>5. SameOrders /\ call' = call
  BY <1>3 DEF SameOrders, Settle, db, history
<1>6. call' \in [Procs -> Call] /\ CallsOK' /\ OrdersOK'
  BY <1>5, Stays
<1>7. TypeOK'
  BY <1>3, <1>4, <1>6 DEF Settle, IInv, TypeOK, db, bounds, history
<1> QED
  BY <1>6, <1>7 DEF IInv

LEMMA PublishInv ==
  ASSUME IInv, NEW e \in DOMAIN exch, Publish(e) PROVE IInv'
<1>1. exch \in Seq(ExchOrder) /\ exch[e] \in ExchOrder
  BY DEF IInv, TypeOK
<1> DEFINE o == [exch[e] EXCEPT !.published = TRUE]
<1>2. o \in ExchOrder /\ exch' = [exch EXCEPT ![e] = o]
  BY <1>1 DEF ExchOrder, Publish
<1> HIDE DEF o
<1>3. exch' \in Seq(ExchOrder) /\ DOMAIN exch' = DOMAIN exch
  BY <1>1, <1>2, ExceptSeq
<1>4. SameOrders /\ call' = call
  BY <1>3 DEF SameOrders, Publish, db, history
<1>5. call' \in [Procs -> Call] /\ CallsOK' /\ OrdersOK'
  BY <1>4, Stays
<1>6. TypeOK'
  BY <1>3, <1>5 DEF Publish, IInv, TypeOK, db, bounds, history
<1> QED
  BY <1>5, <1>6 DEF IInv

LEMMA SetSwitchInv ==
  ASSUME IInv, NEW block \in BOOLEAN, NEW file \in BOOLEAN, SetSwitch(block, file)
  PROVE  IInv'
<1>1. SameOrders /\ call' = call
  BY DEF SameOrders, SetSwitch, market
<1>2. call' \in [Procs -> Call] /\ CallsOK' /\ OrdersOK'
  BY <1>1, Stays
<1>3. overrun' \in [Traders -> Nat] /\ streak' \in Nat /\ ops' \in Nat
  BY DEF SetSwitch, IInv, TypeOK
<1>4. TypeOK'
  BY <1>2, <1>3 DEF SetSwitch, IInv, TypeOK, market
<1> QED
  BY <1>2, <1>4 DEF IInv
-----------------------------------------------------------------------------
(* Steps that accept an order or add a row                                 *)

\* An accepted order keeps the types of the exchange's state.
LEMMA AcceptTyped ==
  ASSUME IInv, NEW p \in Procs, call[p].pc = "submit", NEW f \in Fills(call[p]),
         Accept(call[p], f)
  PROVE  /\ exch' \in Seq(ExchOrder) /\ balance' \in [Tokens -> Nat]
         /\ Len(exch) \in Nat /\ DOMAIN exch = 1..Len(exch)
         /\ DOMAIN exch' = 1..(Len(exch) + 1)
<1>1. call[p] \in Call /\ GoodCall(call[p])
  BY CallTyped
<1>2. call[p].token \in Tokens /\ call[p].req \in Nat /\ call[p].action \in {"BUY", "SELL"}
  BY <1>1 DEF Call, GoodCall, Holding, Pc
<1>3. exch \in Seq(ExchOrder) /\ balance \in [Tokens -> Nat]
  BY DEF IInv, TypeOK
<1>4. f \in Nat /\ (call[p].action = "SELL" => f <= balance[call[p].token])
  BY <1>2, <1>3 DEF Fills, Least
<1> DEFINE o == [token |-> call[p].token, action |-> call[p].action, fill |-> f,
                 settled |-> (call[p].action = "SELL" \/ f = 0), published |-> FALSE]
<1>5. o \in ExchOrder
  BY <1>2, <1>4 DEF ExchOrder
<1>6. exch' = Append(exch, o)
  BY DEF Accept
<1> HIDE DEF o
<1>7. exch' \in Seq(ExchOrder) /\ Len(exch') = Len(exch) + 1
  BY <1>3, <1>5, <1>6, AppendProperties
<1>8. balance' \in [Tokens -> Nat]
  <2> DEFINE v == IF call[p].action = "SELL" THEN balance[call[p].token] - f
                  ELSE balance[call[p].token]
  <2>1. v \in Nat
    BY <1>2, <1>3, <1>4
  <2>2. balance' = [balance EXCEPT ![call[p].token] = v]
    BY DEF Accept
  <2> HIDE DEF v
  <2> QED
    BY <1>3, <2>1, <2>2
<1> QED
  BY <1>3, <1>7, <1>8, LenProperties

LEMMA SubmitAnsweredInv ==
  ASSUME IInv, NEW p \in Traders, SubmitAnswered(p) PROVE IInv'
<1>1. p \in Procs /\ call[p] \in Call /\ GoodCall(call[p]) /\ call \in [Procs -> Call]
  BY CallTyped DEF Procs, IInv, TypeOK
<1>2. call[p].pc = "submit" /\ rows' = rows /\ lost' = lost
  BY DEF SubmitAnswered
<1>3. PICK n \in Nat : n = Len(exch) + 1
  BY LenProperties DEF IInv, TypeOK
<1>4. PICK f \in Fills(call[p]), resp \in {"none", "bare", "exact"} :
        /\ Accept(call[p], f)
        /\ Go(p, [call[p] EXCEPT !.pc = "store", !.ext = n, !.resp = resp])
  BY <1>3 DEF SubmitAnswered
<1>5. PICK c : c = [call[p] EXCEPT !.pc = "store", !.ext = n, !.resp = resp]
  OBVIOUS
<1>6. /\ exch' \in Seq(ExchOrder) /\ balance' \in [Tokens -> Nat]
      /\ DOMAIN exch' = DOMAIN exch \cup {n} /\ n \notin DOMAIN exch /\ n # 0
  <2>1. /\ exch' \in Seq(ExchOrder) /\ balance' \in [Tokens -> Nat] /\ Len(exch) \in Nat
        /\ DOMAIN exch = 1..Len(exch) /\ DOMAIN exch' = 1..(Len(exch) + 1)
    BY <1>1, <1>2, <1>4, AcceptTyped
  <2> QED
    BY <1>3, <2>1
<1>7. c \in Call /\ c.pc = "store" /\ c.ext = n /\ c.token \in Tokens /\ c.todo = call[p].todo
  BY <1>1, <1>2, <1>3, <1>5 DEF Call, Pc, GoodCall, Holding
<1>8. call' \in [Procs -> Call] /\ \A q \in Procs : call'[q] = IF q = p THEN c ELSE call[q]
  BY <1>1, <1>4, <1>5, <1>7 DEF Go
<1>9. CallsOK'
  <2> SUFFICES ASSUME NEW q \in Procs
               PROVE  GoodCall(call[q])' /\ (call'[q].pc = "store" => q \in Traders)
    BY DEF CallsOK
  <2>1. CASE q = p
    BY <1>1, <1>2, <1>6, <1>7, <1>8, <2>1 DEF GoodCall
  <2>2. CASE q # p
    BY <1>2, <1>6, <1>8, <2>2 DEF IInv, CallsOK, GoodCall
  <2> QED
    BY <2>1, <2>2
<1>10. OrdersOK'
  <2>1. OrdersOK /\ CallsOK /\ Traders \subseteq Procs
    BY DEF IInv, Procs
  <2>2. \A e \in DOMAIN exch : HasRow(e)' <=> HasRow(e)
    BY <1>2 DEF HasRow
  <2>3. \A q \in Procs, e \in DOMAIN exch : InHand(q, e)' <=> InHand(q, e)
    BY <1>2, <1>6, <1>7, <1>8 DEF InHand
  <2>4. \A q \in Procs : InHand(q, n)' <=> q = p
    BY <1>1, <1>6, <1>7, <1>8, <2>1 DEF InHand, CallsOK, GoodCall
  <2>5. n \notin lost /\ ~HasRow(n)'
    BY <1>2, <1>6, <2>1 DEF OrdersOK, HasRow
  <2>6. (lost \subseteq DOMAIN exch)'
    BY <1>2, <1>6, <2>1 DEF OrdersOK
  <2>7. (\A i \in DOMAIN rows : rows[i].ext # 0 => rows[i].ext \in DOMAIN exch \ lost)'
    BY <1>2, <1>6, <2>1 DEF OrdersOK
  <2>8. (\A i, j \in DOMAIN rows : rows[i].ext # 0 /\ rows[i].ext = rows[j].ext => i = j)'
    BY <1>2, <2>1 DEF OrdersOK
  <2>9. (\A q \in Procs : \A e \in DOMAIN exch :
           InHand(q, e) => /\ e \notin lost /\ ~HasRow(e)
                           /\ \A r \in Procs : InHand(r, e) => r = q)'
    <3> SUFFICES ASSUME NEW q \in Procs, NEW e \in DOMAIN exch', InHand(q, e)'
                 PROVE  /\ e \notin lost' /\ ~HasRow(e)'
                        /\ \A r \in Procs : InHand(r, e)' => r = q
      OBVIOUS
    <3>1. CASE e = n
      BY <1>2, <2>4, <2>5, <3>1
    <3>2. CASE e \in DOMAIN exch
      BY <1>2, <2>1, <2>2, <2>3, <3>2 DEF OrdersOK
    <3> QED
      BY <1>6, <3>1, <3>2
  <2>10. (\A e \in DOMAIN exch : e \in lost \/ HasRow(e) \/ \E q \in Traders : InHand(q, e))'
    BY <1>2, <1>6, <2>1, <2>2, <2>3, <2>4 DEF OrdersOK
  <2> QED
    BY <2>6, <2>7, <2>8, <2>9, <2>10 DEF OrdersOK
<1>11. TypeOK'
  <2>1. overrun' \in [Traders -> Nat] /\ errorCount' \in Nat /\ streak' \in Nat
    BY CountOverrunTyped, ResetErrorsTyped DEF SubmitAnswered
  <2> QED
    BY <1>2, <1>6, <1>8, <2>1 DEF SubmitAnswered, IInv, TypeOK, bounds
<1> QED
  BY <1>9, <1>10, <1>11 DEF IInv

LEMMA SubmitAnswerLostInv ==
  ASSUME IInv, NEW p \in Traders, SubmitAnswerLost(p) PROVE IInv'
<1>1. p \in Procs /\ call[p] \in Call /\ call \in [Procs -> Call]
  BY CallTyped DEF Procs, IInv, TypeOK
<1>2. call[p].pc = "submit" /\ rows' = rows /\ Go(p, Idle)
  BY DEF SubmitAnswerLost
<1>3. PICK n \in Nat : n = Len(exch) + 1
  BY LenProperties DEF IInv, TypeOK
<1>4. lost' = lost \cup {n} /\ \E f \in Fills(call[p]) : Accept(call[p], f)
  BY <1>3 DEF SubmitAnswerLost
<1>5. /\ exch' \in Seq(ExchOrder) /\ balance' \in [Tokens -> Nat]
      /\ DOMAIN exch' = DOMAIN exch \cup {n} /\ n \notin DOMAIN exch /\ n # 0
  <2>1. /\ exch' \in Seq(ExchOrder) /\ balance' \in [Tokens -> Nat] /\ Len(exch) \in Nat
        /\ DOMAIN exch = 1..Len(exch) /\ DOMAIN exch' = 1..(Len(exch) + 1)
    BY <1>1, <1>2, <1>4, AcceptTyped
  <2> QED
    BY <1>3, <2>1
<1>6. call' \in [Procs -> Call] /\ \A q \in Procs : call'[q] = IF q = p THEN Idle ELSE call[q]
  BY <1>1, <1>2, IdleTyped DEF Go
<1>7. Idle.pc = "idle" /\ Idle.todo = {}
  BY DEF Idle
<1>8. CallsOK'
  <2> SUFFICES ASSUME NEW q \in Procs
               PROVE  GoodCall(call[q])' /\ (call'[q].pc = "store" => q \in Traders)
    BY DEF CallsOK
  <2>1. CASE q = p
    BY <1>6, <1>7, <2>1 DEF GoodCall, Holding
  <2>2. CASE q # p
    BY <1>2, <1>5, <1>6, <2>2 DEF IInv, CallsOK, GoodCall
  <2> QED
    BY <2>1, <2>2
<1>9. OrdersOK'
  <2>1. OrdersOK /\ CallsOK /\ Traders \subseteq Procs
    BY DEF IInv, Procs
  <2>2. \A e \in DOMAIN exch : HasRow(e)' <=> HasRow(e)
    BY <1>2 DEF HasRow
  <2>3. \A q \in Procs, e \in DOMAIN exch : InHand(q, e)' <=> InHand(q, e)
    BY <1>2, <1>6, <1>7 DEF InHand
  <2>4. \A q \in Procs : ~InHand(q, n)'
    BY <1>5, <1>6, <1>7, <2>1 DEF InHand, CallsOK, GoodCall
  <2>5. (lost \subseteq DOMAIN exch)'
    BY <1>4, <1>5, <2>1 DEF OrdersOK
  <2>6. (\A i \in DOMAIN rows : rows[i].ext # 0 => rows[i].ext \in DOMAIN exch \ lost)'
    BY <1>2, <1>4, <1>5, <2>1 DEF OrdersOK
  <2>7. (\A i, j \in DOMAIN rows : rows[i].ext # 0 /\ rows[i].ext = rows[j].ext => i = j)'
    BY <1>2, <2>1 DEF OrdersOK
  <2>8. (\A q \in Procs : \A e \in DOMAIN exch :
           InHand(q, e) => /\ e \notin lost /\ ~HasRow(e)
                           /\ \A r \in Procs : InHand(r, e) => r = q)'
    BY <1>4, <1>5, <2>1, <2>2, <2>3, <2>4 DEF OrdersOK
  <2>9. (\A e \in DOMAIN exch : e \in lost \/ HasRow(e) \/ \E q \in Traders : InHand(q, e))'
    BY <1>4, <1>5, <2>1, <2>2, <2>3 DEF OrdersOK
  <2> QED
    BY <2>5, <2>6, <2>7, <2>8, <2>9 DEF OrdersOK
<1>10. TypeOK'
  <2>1. overrun' \in [Traders -> Nat] /\ errorCount' \in Nat /\ streak' \in Nat
    BY CountOverrunTyped, ResetErrorsTyped DEF SubmitAnswerLost
  <2>2. lost' \subseteq Nat /\ faults' \in Nat
    <3>1. lost \subseteq Nat /\ faults \in Nat
      BY DEF IInv, TypeOK
    <3>2. lost' = lost \cup {n}
      BY <1>4
    <3>3. faults' = faults + 1
      BY DEF SubmitAnswerLost
    <3> QED
      BY <3>1, <3>2, <3>3, n \in Nat
  <2> QED
    BY <1>2, <1>5, <1>6, <2>1, <2>2 DEF SubmitAnswerLost, IInv, TypeOK
<1> QED
  BY <1>8, <1>9, <1>10 DEF IInv

\* Appending a row keeps the other rows where they are.
LEMMA RowsAppended ==
  ASSUME IInv, NEW r \in Row, rows' = Append(rows, r), NEW n, n = Len(rows) + 1
  PROVE  /\ rows' \in Seq(Row) /\ n \in Nat
         /\ DOMAIN rows' = DOMAIN rows \cup {n} /\ n \notin DOMAIN rows
         /\ rows'[n] = r /\ \A i \in DOMAIN rows : rows'[i] = rows[i]
<1>1. rows \in Seq(Row)
  BY DEF IInv, TypeOK
<1>2. /\ rows' \in Seq(Row) /\ Len(rows') = Len(rows) + 1
      /\ \A i \in 1..Len(rows) : rows'[i] = rows[i]
      /\ rows'[Len(rows) + 1] = r
  BY <1>1, AppendProperties
<1>3. Len(rows) \in Nat /\ DOMAIN rows = 1..Len(rows) /\ DOMAIN rows' = 1..Len(rows')
  BY <1>1, <1>2, LenProperties
<1> QED
  BY <1>2, <1>3

LEMMA StoreSubmittedInv ==
  ASSUME IInv, NEW p \in Traders, StoreSubmitted(p) PROVE IInv'
<1>1. p \in Procs /\ call[p] \in Call /\ GoodCall(call[p]) /\ call \in [Procs -> Call]
  BY CallTyped DEF Procs, IInv, TypeOK
<1>2. call[p].pc = "store" /\ exch' = exch /\ lost' = lost
  BY DEF StoreSubmitted, market, history
<1>3. PICK x : x = call[p].ext
  OBVIOUS
<1>4. call[p].token \in Tokens /\ x \in DOMAIN exch /\ x \in Nat /\ InHand(p, x)
  BY <1>1, <1>2, <1>3 DEF GoodCall, Holding, Pc, Call, InHand
<1>5. PICK r : r = [token |-> call[p].token, action |-> call[p].action,
                    size |-> call[p].size, req |-> call[p].req, ext |-> x,
                    resp |-> call[p].resp, status |-> "submitted", fill |-> 0]
  OBVIOUS
<1>6. r \in Row /\ r.ext = x
  BY <1>1, <1>4, <1>5 DEF Row, Call, Status
<1>7. PICK n : n = Len(rows) + 1
  OBVIOUS
<1>8. /\ rows' \in Seq(Row) /\ n \in Nat
      /\ DOMAIN rows' = DOMAIN rows \cup {n} /\ n \notin DOMAIN rows
      /\ rows'[n] = r /\ \A i \in DOMAIN rows : rows'[i] = rows[i]
  <2>1. rows' = Append(rows, r)
    BY <1>3, <1>5 DEF StoreSubmitted, SubmittedRow
  <2> QED
    BY <1>6, <1>7, <2>1, RowsAppended
<1>9. PICK c : c = [call[p] EXCEPT !.pc = "lookup", !.row = n]
  OBVIOUS
<1>10. c \in Call /\ c.pc = "lookup" /\ c.row = n /\ c.ext = x /\ c.token \in Tokens
       /\ c.todo = call[p].todo
  BY <1>1, <1>3, <1>4, <1>8, <1>9 DEF Call, Pc
<1>11. call' \in [Procs -> Call] /\ \A q \in Procs : call'[q] = IF q = p THEN c ELSE call[q]
  BY <1>1, <1>7, <1>9, <1>10 DEF StoreSubmitted, Go
<1>12. CallsOK'
  <2> SUFFICES ASSUME NEW q \in Procs
               PROVE  GoodCall(call[q])' /\ (call'[q].pc = "store" => q \in Traders)
    BY DEF CallsOK
  <2>1. CASE q = p
    BY <1>1, <1>2, <1>4, <1>8, <1>10, <1>11, <2>1 DEF GoodCall
  <2>2. CASE q # p
    BY <1>2, <1>8, <1>11, <2>2 DEF IInv, CallsOK, GoodCall
  <2> QED
    BY <2>1, <2>2
<1>13. OrdersOK'
  <2>1. OrdersOK /\ Traders \subseteq Procs
    BY DEF IInv, Procs
  <2>2. \A e \in DOMAIN exch : HasRow(e)' <=> (HasRow(e) \/ e = x)
    BY <1>6, <1>8 DEF HasRow
  <2>3. x \notin lost /\ ~HasRow(x) /\ \A q \in Procs : InHand(q, x) => q = p
    BY <1>1, <1>4, <2>1 DEF OrdersOK
  <2>4. \A q \in Procs, e \in DOMAIN exch : InHand(q, e)' <=> (InHand(q, e) /\ q # p)
    BY <1>2, <1>10, <1>11 DEF InHand
  <2>5. (lost \subseteq DOMAIN exch)'
    BY <1>2, <2>1 DEF OrdersOK
  <2>6. (\A i \in DOMAIN rows : rows[i].ext # 0 => rows[i].ext \in DOMAIN exch \ lost)'
    BY <1>2, <1>4, <1>6, <1>8, <2>1, <2>3 DEF OrdersOK
  <2>7. (\A i, j \in DOMAIN rows : rows[i].ext # 0 /\ rows[i].ext = rows[j].ext => i = j)'
    BY <1>6, <1>8, <2>1, <2>3 DEF OrdersOK, HasRow
  <2>8. (\A q \in Procs : \A e \in DOMAIN exch :
           InHand(q, e) => /\ e \notin lost /\ ~HasRow(e)
                           /\ \A s \in Procs : InHand(s, e) => s = q)'
    BY <1>2, <2>1, <2>2, <2>3, <2>4 DEF OrdersOK
  <2>9. (\A e \in DOMAIN exch : e \in lost \/ HasRow(e) \/ \E q \in Traders : InHand(q, e))'
    <3> SUFFICES ASSUME NEW e \in DOMAIN exch
                 PROVE  e \in lost \/ HasRow(e)' \/ \E q \in Traders : InHand(q, e)'
      BY <1>2
    <3>1. CASE e = x
      BY <2>2, <3>1
    <3>2. CASE e # x
      <4>1. \A q \in Procs : InHand(q, e)' <=> InHand(q, e)
        BY <1>3, <2>4, <3>2 DEF InHand
      <4> QED
        BY <2>1, <2>2, <4>1 DEF OrdersOK
    <3> QED
      BY <3>1, <3>2
  <2> QED
    BY <2>5, <2>6, <2>7, <2>8, <2>9 DEF OrdersOK
<1>14. TypeOK'
  BY <1>8, <1>11 DEF StoreSubmitted, IInv, TypeOK, market, bounds, history
<1> QED
  BY <1>12, <1>13, <1>14 DEF IInv

LEMMA AdjustRowInv ==
  ASSUME IInv, NEW p \in Traders, AdjustRow(p) PROVE IInv'
<1>1. p \in Procs /\ call[p] \in Call /\ GoodCall(call[p]) /\ call \in [Procs -> Call]
  BY CallTyped DEF Procs, IInv, TypeOK
<1>2. call[p].pc = "adjust_row" /\ exch' = exch /\ lost' = lost
  BY DEF AdjustRow, market, history
<1>3. call[p].token \in Tokens /\ call[p].fill \in Nat
  BY <1>1, <1>2 DEF GoodCall, Holding, Pc, Call
<1>4. PICK r : r = [token |-> call[p].token, action |-> "SELL", size |-> 0,
                    req |-> 0, ext |-> 0, resp |-> "none",
                    status |-> "filled", fill |-> call[p].fill]
  OBVIOUS
<1>5. r \in Row /\ r.ext = 0
  BY <1>3, <1>4 DEF Row, Status
<1>6. PICK n : n = Len(rows) + 1
  OBVIOUS
<1>7. /\ rows' \in Seq(Row) /\ n \in Nat
      /\ DOMAIN rows' = DOMAIN rows \cup {n} /\ n \notin DOMAIN rows
      /\ rows'[n] = r /\ \A i \in DOMAIN rows : rows'[i] = rows[i]
  <2>1. rows' = Append(rows, r)
    BY <1>4 DEF AdjustRow
  <2> QED
    BY <1>5, <1>6, <2>1, RowsAppended
<1>8. PICK c : c = IF call[p].req > 0 THEN [call[p] EXCEPT !.pc = "submit", !.fill = 0] ELSE Idle
  OBVIOUS
<1>9. c \in Call /\ GoodCall(c) /\ c.pc \in {"submit", "idle"}
  <2>1. CASE call[p].req > 0
    BY <1>1, <1>3, <1>8, <2>1 DEF Call, Pc, GoodCall
  <2>2. CASE ~(call[p].req > 0)
    BY <1>8, <2>2, IdleTyped, IdleGood DEF Idle
  <2> QED
    BY <2>1, <2>2
<1>10. call' \in [Procs -> Call] /\ \A q \in Procs : call'[q] = IF q = p THEN c ELSE call[q]
  BY <1>1, <1>8, <1>9 DEF AdjustRow, Go
<1>11. CallsOK'
  <2> SUFFICES ASSUME NEW q \in Procs
               PROVE  GoodCall(call[q])' /\ (call'[q].pc = "store" => q \in Traders)
    BY DEF CallsOK
  <2>1. CASE q = p
    BY <1>2, <1>7, <1>9, <1>10, <2>1 DEF GoodCall
  <2>2. CASE q # p
    BY <1>2, <1>7, <1>10, <2>2 DEF IInv, CallsOK, GoodCall
  <2> QED
    BY <2>1, <2>2
<1>12. OrdersOK'
  <2>1. OrdersOK /\ Traders \subseteq Procs /\ 0 \notin DOMAIN exch
    BY DEF IInv, Procs, TypeOK
  <2>2. \A e \in DOMAIN exch : HasRow(e)' <=> HasRow(e)
    BY <1>5, <1>7, <2>1 DEF HasRow
  <2>3. \A q \in Procs, e \in DOMAIN exch : InHand(q, e)' <=> InHand(q, e)
    BY <1>2, <1>9, <1>10 DEF InHand
  <2>4. (\A i \in DOMAIN rows : rows[i].ext # 0 => rows[i].ext \in DOMAIN exch \ lost)'
    BY <1>2, <1>5, <1>7, <2>1 DEF OrdersOK
  <2>5. (\A i, j \in DOMAIN rows : rows[i].ext # 0 /\ rows[i].ext = rows[j].ext => i = j)'
    BY <1>5, <1>7, <2>1 DEF OrdersOK
  <2> QED
    BY <1>2, <2>1, <2>2, <2>3, <2>4, <2>5 DEF OrdersOK
<1>13. TypeOK'
  BY <1>7, <1>10 DEF AdjustRow, IInv, TypeOK, market, bounds, history
<1> QED
  BY <1>11, <1>12, <1>13 DEF IInv

LEMMA CrashInv ==
  ASSUME IInv, NEW p \in Procs, Crash(p) PROVE IInv'
<1>1. call[p] \in Call /\ GoodCall(call[p]) /\ call \in [Procs -> Call]
  BY CallTyped DEF IInv, TypeOK
<1>2. Go(p, Idle) /\ exch' = exch /\ rows' = rows
      /\ lost' = IF call[p].pc = "store" THEN lost \cup {call[p].ext} ELSE lost
  BY DEF Crash, market, db
<1>3. CASE call[p].pc # "store"
  <2>1. call' \in [Procs -> Call] /\ CallsOK' /\ OrdersOK'
    BY <1>2, <1>3, IdleTyped, IdleGood, Moves, SameOrdersUnchanged
  <2>2. TypeOK'
    BY <1>2, <1>3, <2>1 DEF Crash, IInv, TypeOK, market, db
  <2> QED
    BY <2>1, <2>2 DEF IInv
<1>4. CASE call[p].pc = "store"
  <2>1. PICK x : x = call[p].ext
    OBVIOUS
  <2>2. x \in DOMAIN exch /\ x \in Nat /\ InHand(p, x) /\ lost' = lost \cup {x}
    BY <1>1, <1>2, <1>4, <2>1 DEF GoodCall, Call, InHand
  <2>3. call' \in [Procs -> Call] /\ \A q \in Procs : call'[q] = IF q = p THEN Idle ELSE call[q]
    BY <1>1, <1>2, IdleTyped DEF Go
  <2>4. CallsOK'
    BY <1>2, <2>3, IdleGood DEF IInv, CallsOK, GoodCall
  <2>5. OrdersOK'
    <3>1. OrdersOK /\ Traders \subseteq Procs
      BY DEF IInv, Procs
    <3>2. x \notin lost /\ ~HasRow(x) /\ \A q \in Procs : InHand(q, x) => q = p
      BY <2>2, <3>1 DEF OrdersOK
    <3>3. \A e \in DOMAIN exch : HasRow(e)' <=> HasRow(e)
      BY <1>2 DEF HasRow
    <3>4. \A q \in Procs, e \in DOMAIN exch : InHand(q, e)' <=> (InHand(q, e) /\ q # p)
      BY <2>3, IdleGood DEF InHand, Idle
    <3>5. (lost \subseteq DOMAIN exch)'
      BY <1>2, <2>2, <3>1 DEF OrdersOK
    <3>6. (\A i \in DOMAIN rows : rows[i].ext # 0 => rows[i].ext \in DOMAIN exch \ lost)'
      BY <1>2, <2>2, <3>1, <3>2 DEF OrdersOK, HasRow
    <3>7. (\A i, j \in DOMAIN rows : rows[i].ext # 0 /\ rows[i].ext = rows[j].ext => i = j)'
      BY <1>2, <3>1 DEF OrdersOK
    <3>8. (\A q \in Procs : \A e \in DOMAIN exch :
             InHand(q, e) => /\ e \notin lost /\ ~HasRow(e)
                             /\ \A s \in Procs : InHand(s, e) => s = q)'
      BY <1>2, <2>2, <3>1, <3>2, <3>3, <3>4 DEF OrdersOK
    <3>9. (\A e \in DOMAIN exch : e \in lost \/ HasRow(e) \/ \E q \in Traders : InHand(q, e))'
      <4> SUFFICES ASSUME NEW e \in DOMAIN exch, e # x
                   PROVE  e \in lost \/ HasRow(e)' \/ \E q \in Traders : InHand(q, e)'
        BY <1>2, <2>2
      <4>1. \A q \in Procs : InHand(q, e)' <=> InHand(q, e)
        BY <2>1, <3>4 DEF InHand
      <4> QED
        BY <3>1, <3>3, <4>1 DEF OrdersOK
    <3> QED
      BY <3>5, <3>6, <3>7, <3>8, <3>9 DEF OrdersOK
  <2>6. lost' \subseteq Nat /\ faults' \in Nat
    <3>1. lost \subseteq Nat /\ faults \in Nat
      BY DEF IInv, TypeOK
    <3>2. lost' = lost \cup {x} /\ x \in Nat
      BY <2>2
    <3>3. faults' = faults + 1
      BY DEF Crash
    <3> QED
      BY <3>1, <3>2, <3>3
  <2>7. TypeOK'
    BY <1>2, <2>3, <2>6 DEF Crash, IInv, TypeOK, market, db
  <2> QED
    BY <2>4, <2>5, <2>7 DEF IInv
<1> QED
  BY <1>3, <1>4
-----------------------------------------------------------------------------
(* The theorems                                                            *)

LEMMA InitInv == Init => IInv
<1> SUFFICES ASSUME Init PROVE IInv
  OBVIOUS
<1>1. exch = <<>> /\ rows = <<>> /\ lost = {} /\ call = [p \in Procs |-> Idle]
  BY DEF Init
<1>2. DOMAIN exch = {} /\ DOMAIN rows = {} /\ exch \in Seq(ExchOrder) /\ rows \in Seq(Row)
  BY <1>1
<1>3. TypeOK
  BY <1>1, <1>2, IdleTyped DEF Init, TypeOK
<1>4. CallsOK
  BY <1>1, IdleGood DEF CallsOK
<1>5. OrdersOK
  BY <1>1, <1>2 DEF OrdersOK
<1> QED
  BY <1>3, <1>4, <1>5 DEF IInv

LEMMA TraderInv == ASSUME IInv, NEW p \in Traders, TraderStart(p) \/ TraderStep(p) PROVE IInv'
<1>1. CASE \E t \in Tokens, q \in Quotes : BuyAdmit(p, t, q)
  BY <1>1, BuyAdmitInv
<1>2. CASE \E t \in Tokens : SellAdmit(p, t)
  BY <1>2, SellAdmitInv
<1>3. CASE BuyBalanceBefore(p)
  BY <1>3, BuyBalanceBeforeInv
<1>4. CASE SellBalance(p)
  BY <1>4, SellBalanceInv
<1>5. CASE AdjustPosition(p)
  BY <1>5, AdjustPositionInv
<1>6. CASE AdjustRow(p)
  BY <1>6, AdjustRowInv
<1>7. CASE Submit(p)
  BY <1>7, SubmitAnsweredInv, SubmitAnswerLostInv, SubmitNoFundsInv, SubmitRefusedInv DEF Submit
<1>8. CASE CountRefusal(p)
  BY <1>8, CountRefusalInv
<1>9. CASE StoreSubmitted(p)
  BY <1>9, StoreSubmittedInv
<1>10. CASE Lookup(p)
  BY <1>10, LookupInv
<1> QED
  BY <1>1, <1>2, <1>3, <1>4, <1>5, <1>6, <1>7, <1>8, <1>9, <1>10 DEF TraderStart, TraderStep

LEMMA ReconcilerInv ==
  ASSUME IInv, NEW p \in Reconcilers, ReconcileList(p) \/ ReconcilerStep(p) PROVE IInv'
  BY ReconcileListInv, ReconcileLookupInv, RebuildReadInv, RebuildSaveInv DEF ReconcilerStep

LEMMA NextInv == IInv /\ [Next]_vars => IInv'
<1> SUFFICES ASSUME IInv, [Next]_vars PROVE IInv'
  OBVIOUS
<1>1. CASE \E p \in Traders : TraderStart(p) \/ TraderStep(p)
  BY <1>1, TraderInv
<1>2. CASE \E p \in Reconcilers : ReconcileList(p) \/ ReconcilerStep(p)
  BY <1>2, ReconcilerInv
<1>3. CASE \E p \in Procs : Booking(p) \/ LookupRaises(p) \/ Crash(p)
  BY <1>3, UpdateRowInv, ReadPositionInv, WritePositionInv, LookupRaisesInv, CrashInv DEF Booking
<1>4. CASE Exchange
  BY <1>4, SettleInv, PublishInv DEF Exchange
<1>5. CASE \E block, file \in BOOLEAN : SetSwitch(block, file)
  BY <1>5, SetSwitchInv
<1>6. CASE UNCHANGED vars
  <2>1. SameOrders /\ call' = call
    BY <1>6, SameOrdersUnchanged DEF vars, market, db, history
  <2>2. CallsOK' /\ OrdersOK'
    BY <2>1, Stays
  <2>3. TypeOK'
    BY <1>6 DEF vars, market, db, bounds, history, IInv, TypeOK
  <2> QED
    BY <2>2, <2>3 DEF IInv
<1> QED
  BY <1>1, <1>2, <1>3, <1>4, <1>5, <1>6 DEF Next

LEMMA InvHolds == Spec => []IInv
<1> QED
  BY InitInv, NextInv, PTL DEF Spec

\* The tables, the exchange's state and every handler's locals have their
\* types in every reachable state of live.py's handlers and reconcilers,
\* whatever the faults and the interleaving.
THEOREM TypeCorrect == Spec => []TypeOK
<1>1. IInv => TypeOK
  BY DEF IInv
<1> QED
  BY <1>1, InvHolds, PTL

\* Every order the exchange accepted has exactly one live_orders row, or was
\* orphaned by a lost answer or a crash between answer and row, or is still in
\* the hands of the trader that submitted it (live.py 649-696).
THEOREM OrdersTracked == Spec => []EveryOrderTracked
<1>1. ASSUME IInv PROVE EveryOrderTracked
  <2> SUFFICES ASSUME NEW e \in DOMAIN exch
               PROVE  \/ e \in lost /\ RowsOf(e) = {}
                      \/ e \notin lost /\ \E i \in DOMAIN rows : RowsOf(e) = {i}
                      \/ /\ e \notin lost /\ RowsOf(e) = {}
                         /\ \E p \in Traders : call[p].pc = "store" /\ call[p].ext = e
    BY DEF EveryOrderTracked
  <2>1. OrdersOK /\ Traders \subseteq Procs /\ e # 0
    BY <1>1 DEF IInv, Procs, TypeOK
  <2>2. CASE HasRow(e)
    <3>1. PICK i \in DOMAIN rows : rows[i].ext = e
      BY <2>2 DEF HasRow
    <3>2. e \notin lost
      BY <2>1, <3>1 DEF OrdersOK
    <3>3. RowsOf(e) = {i}
      BY <2>1, <3>1 DEF OrdersOK, RowsOf
    <3> QED
      BY <3>2, <3>3
  <2>3. CASE ~HasRow(e)
    <3>1. RowsOf(e) = {}
      BY <2>3 DEF HasRow, RowsOf
    <3>2. e \in lost \/ (e \notin lost /\ \E p \in Traders : InHand(p, e))
      BY <2>1, <2>3 DEF OrdersOK
    <3> QED
      BY <3>1, <3>2 DEF InHand
  <2> QED
    BY <2>2, <2>3
<1> QED
  BY <1>1, InvHolds, PTL
-----------------------------------------------------------------------------
(* The kill switch.  A trader that has spent its one late submission is not *)
(* on its way to another, and entries stay blocked.                        *)

PendingBuy(c) ==
  c.pc \in {"before", "sellable", "adjust", "adjust_row", "submit"} /\ c.action = "BUY"

KInv == \A p \in Traders :
  /\ overrun[p] \in {0, 1}
  /\ overrun[p] = 1 => EntriesBlocked /\ ~PendingBuy(call[p])

\* A handler that moves without submitting gets no nearer to a submission,
\* unless entries are allowed, and no one lifts the block.
LEMMA KillMoves ==
  ASSUME IInv, KInv, NEW p \in Procs, NEW c, Go(p, c), overrun' = overrun,
         EntriesBlocked => EntriesBlocked',
         PendingBuy(c) => PendingBuy(call[p]) \/ ~EntriesBlocked
  PROVE  KInv'
<1>1. call \in [Procs -> Call] /\ Traders \subseteq Procs
  BY DEF IInv, TypeOK, Procs
<1>2. \A q \in Procs : call'[q] = IF q = p THEN c ELSE call[q]
  BY <1>1 DEF Go
<1>3. ASSUME NEW q \in Traders
      PROVE  /\ overrun'[q] \in {0, 1}
             /\ overrun'[q] = 1 => EntriesBlocked' /\ ~PendingBuy(call'[q])
  <2>1. overrun[q] \in {0, 1} /\ (overrun[q] = 1 => EntriesBlocked /\ ~PendingBuy(call[q]))
    BY DEF KInv
  <2> QED
    BY <1>1, <1>2, <2>1
<1> QED
  BY <1>3 DEF KInv, PendingBuy

\* Submitting ends the trader's way to a submission, and counts at most once.
LEMMA KillSubmit ==
  ASSUME IInv, KInv, NEW p \in Traders, call[p].pc = "submit", NEW c, Go(p, c),
         ~PendingBuy(c), CountOverrun(p), UNCHANGED <<killFile, blockNew>>
  PROVE  KInv'
<1>1. /\ call \in [Procs -> Call] /\ Traders \subseteq Procs
      /\ overrun \in [Traders -> Nat]
  BY DEF IInv, TypeOK, Procs
<1>2. \A q \in Procs : call'[q] = IF q = p THEN c ELSE call[q]
  BY <1>1 DEF Go
<1>3. EntriesBlocked' <=> EntriesBlocked
  BY DEF EntriesBlocked
<1>4. \A q \in Traders : overrun'[q] = IF q = p /\ call[p].action = "BUY" /\ EntriesBlocked
                                      THEN overrun[q] + 1 ELSE overrun[q]
  BY <1>1 DEF CountOverrun, EntriesBlocked
<1>5. ASSUME NEW q \in Traders
      PROVE  /\ overrun'[q] \in {0, 1}
             /\ overrun'[q] = 1 => EntriesBlocked' /\ ~PendingBuy(call'[q])
  <2>1. overrun[q] \in {0, 1} /\ (overrun[q] = 1 => EntriesBlocked /\ ~PendingBuy(call[q]))
    BY DEF KInv
  <2>2. CASE q = p /\ call[p].action = "BUY" /\ EntriesBlocked
    <3>1. PendingBuy(call[p])
      BY <2>2 DEF PendingBuy
    <3> QED
      BY <1>1, <1>2, <1>3, <1>4, <2>1, <2>2, <3>1
  <2>3. CASE ~(q = p /\ call[p].action = "BUY" /\ EntriesBlocked)
    BY <1>1, <1>2, <1>3, <1>4, <2>1, <2>3
  <2> QED
    BY <2>2, <2>3
<1> QED
  BY <1>5 DEF KInv, PendingBuy

\* The steps of a trader: only an admission, and so only while entries are
\* allowed, brings it on the way to a submission.
LEMMA TraderStartKill ==
  ASSUME IInv, KInv, NEW p \in Traders, TraderStart(p) PROVE KInv'
<1>1. p \in Procs
  BY DEF Procs
<1>2. CASE \E t \in Tokens, q \in Quotes : BuyAdmit(p, t, q)
  <2>1. PICK t \in Tokens, q \in Quotes : BuyAdmit(p, t, q)
    BY <1>2
  <2>2. PICK c : c = [Idle EXCEPT !.pc = "before", !.token = t, !.size = q.size, !.req = q.cost]
    OBVIOUS
  <2>3. Go(p, c) /\ overrun' = overrun /\ ~EntriesBlocked
    BY <2>1, <2>2 DEF BuyAdmit, history
  <2> QED
    BY <1>1, <2>3, KillMoves
<1>3. CASE \E t \in Tokens : SellAdmit(p, t)
  <2>1. PICK t \in Tokens : SellAdmit(p, t)
    BY <1>3
  <2>2. PICK c : c = [Idle EXCEPT !.pc = "sellable", !.token = t, !.action = "SELL",
                                  !.base = position[t]]
    OBVIOUS
  <2>3. Go(p, c) /\ UNCHANGED <<overrun, killFile, blockNew>> /\ c.action = "SELL"
    BY <2>1, <2>2 DEF SellAdmit, history, db, Idle
  <2> QED
    BY <1>1, <2>3, KillMoves DEF PendingBuy, EntriesBlocked
<1> QED
  BY <1>2, <1>3 DEF TraderStart

LEMMA SubmitKill ==
  ASSUME IInv, KInv, NEW p \in Traders, Submit(p) PROVE KInv'
<1>1. call[p] \in Call /\ ~PendingBuy(Idle)
  BY CallTyped DEF Procs, PendingBuy, Idle
<1>2. CASE SubmitAnswered(p)
  <2>1. PICK resp, c : c = [call[p] EXCEPT !.pc = "store", !.ext = Len(exch) + 1, !.resp = resp]
                       /\ Go(p, c)
    BY <1>2 DEF SubmitAnswered
  <2>2. c.pc = "store"
    BY <1>1, <2>1 DEF Call
  <2> QED
    BY <1>2, <2>1, <2>2, KillSubmit DEF SubmitAnswered, PendingBuy
<1>3. CASE SubmitNoFunds(p)
  <2>1. PICK c : c = [call[p] EXCEPT !.pc = "count", !.base = errorCount]
    OBVIOUS
  <2>2. c.pc = "count" /\ Go(p, c)
    BY <1>1, <1>3, <2>1 DEF Call, SubmitNoFunds
  <2> QED
    BY <1>3, <2>2, KillSubmit DEF SubmitNoFunds, PendingBuy, db
<1>4. CASE SubmitAnswerLost(p)
  BY <1>1, <1>4, KillSubmit DEF SubmitAnswerLost
<1>5. CASE SubmitRefused(p)
  BY <1>1, <1>5, KillSubmit DEF SubmitRefused
<1> QED
  BY <1>2, <1>3, <1>4, <1>5 DEF Submit

\* A handler on its way stays on the same side of the market.
LEMMA KeepsSide ==
  ASSUME IInv, KInv, NEW p \in Procs, NEW c, Go(p, c),
         UNCHANGED <<overrun, killFile>>, blockNew => blockNew', blockNew' \in BOOLEAN,
         c.pc \notin {"before", "sellable", "adjust", "adjust_row", "submit"}
           \/ /\ c.action = call[p].action
              /\ call[p].pc \in {"before", "sellable", "adjust", "adjust_row"}
  PROVE  KInv'
<1>1. PendingBuy(c) => PendingBuy(call[p])
  BY DEF PendingBuy
<1> QED
  BY <1>1, KillMoves DEF EntriesBlocked

LEMMA TraderStepKill ==
  ASSUME IInv, KInv, NEW p \in Traders, TraderStep(p) PROVE KInv'
<1>1. p \in Procs /\ call[p] \in Call /\ Idle.pc = "idle" /\ blockNew \in BOOLEAN
  BY CallTyped DEF Procs, Idle, IInv, TypeOK
<1>2. CASE BuyBalanceBefore(p)
  <2>1. PICK b, c : c = [call[p] EXCEPT !.pc = "submit", !.before = b] /\ Go(p, c)
    BY <1>2 DEF BuyBalanceBefore
  <2>2. c.action = call[p].action
    BY <1>1, <2>1 DEF Call
  <2> QED
    BY <1>1, <1>2, <2>1, <2>2, KeepsSide DEF BuyBalanceBefore, db, history
<1>3. CASE SellBalance(p)
  <2>1. PICK pc, n, f, c : Go(p, c) /\ \/ c = Idle
                                       \/ c = [call[p] EXCEPT !.pc = pc, !.req = n, !.size = n,
                                                              !.fill = f]
    BY <1>3 DEF SellBalance
  <2>2. c = Idle \/ c.action = call[p].action
    BY <1>1, <2>1 DEF Call
  <2> QED
    BY <1>1, <1>3, <2>1, <2>2, KeepsSide DEF SellBalance, db, history
<1>4. CASE AdjustPosition(p)
  <2>1. PICK c : c = [call[p] EXCEPT !.pc = "adjust_row"]
    OBVIOUS
  <2>2. Go(p, c) /\ c.action = call[p].action
    BY <1>1, <1>4, <2>1 DEF Call, AdjustPosition, Goto
  <2> QED
    BY <1>1, <1>4, <2>2, KeepsSide DEF AdjustPosition, history
<1>5. CASE AdjustRow(p)
  <2>1. PICK c : c = IF call[p].req > 0 THEN [call[p] EXCEPT !.pc = "submit", !.fill = 0] ELSE Idle
    OBVIOUS
  <2>2. Go(p, c) /\ (c = Idle \/ c.action = call[p].action)
    BY <1>1, <1>5, <2>1 DEF Call, AdjustRow
  <2> QED
    BY <1>1, <1>5, <2>2, KeepsSide DEF AdjustRow, history
<1>6. CASE CountRefusal(p)
  <2>1. (blockNew => blockNew') /\ blockNew' \in BOOLEAN
    BY <1>1, <1>6 DEF CountRefusal, Blocks
  <2> QED
    BY <1>1, <1>6, <2>1, KeepsSide DEF CountRefusal
<1>7. CASE StoreSubmitted(p)
  <2>1. PICK c : c = [call[p] EXCEPT !.pc = "lookup", !.row = Len(rows) + 1]
    OBVIOUS
  <2>2. Go(p, c) /\ c.pc = "lookup"
    BY <1>1, <1>7, <2>1 DEF Call, StoreSubmitted
  <2> QED
    BY <1>1, <1>7, <2>2, KeepsSide DEF StoreSubmitted, history
<1>8. CASE Lookup(p)
  <2>1. PICK n, s, c : c = [call[p] EXCEPT !.pc = "update", !.fill = n, !.status = s] /\ Go(p, c)
    BY <1>8 DEF Lookup
  <2>2. c.pc = "update"
    BY <1>1, <2>1 DEF Call
  <2> QED
    BY <1>1, <1>8, <2>1, <2>2, KeepsSide DEF Lookup, db, history
<1> QED
  BY <1>2, <1>3, <1>4, <1>5, <1>6, <1>7, <1>8, SubmitKill DEF TraderStep

\* Booking and reconciling submit nothing.
LEMMA BookingKill ==
  ASSUME IInv, KInv, NEW p \in Procs, Booking(p) PROVE KInv'
<1>1. call[p] \in Call /\ blockNew \in BOOLEAN
      /\ AfterBooking(p).pc \in {"idle", "next"}
  BY CallTyped DEF IInv, TypeOK, AfterBooking, Idle
<1>2. CASE UpdateRow(p)
  <2>1. PICK c : c = IF call[p].fill > 0 THEN [call[p] EXCEPT !.pc = "read"] ELSE AfterBooking(p)
    OBVIOUS
  <2>2. Go(p, c) /\ c.pc \in {"read", "idle", "next"}
    BY <1>1, <1>2, <2>1 DEF Call, UpdateRow
  <2> QED
    BY <1>1, <1>2, <2>2, KeepsSide DEF UpdateRow, history
<1>3. CASE ReadPosition(p)
  <2>1. PICK c : c = [call[p] EXCEPT !.pc = "write", !.base = position[call[p].token]]
    OBVIOUS
  <2>2. Go(p, c) /\ c.pc = "write"
    BY <1>1, <1>3, <2>1 DEF Call, ReadPosition
  <2> QED
    BY <1>1, <1>3, <2>2, KeepsSide DEF ReadPosition, db, history
<1>4. CASE WritePosition(p)
  BY <1>1, <1>4, KeepsSide DEF WritePosition, history
<1> QED
  BY <1>2, <1>3, <1>4 DEF Booking

LEMMA ReconcilerKill ==
  ASSUME IInv, KInv, NEW p \in Reconcilers, ReconcileList(p) \/ ReconcilerStep(p) PROVE KInv'
<1>1. p \in Procs /\ blockNew \in BOOLEAN /\ Idle.pc = "idle"
  BY DEF Procs, IInv, TypeOK, Idle
<1>2. \E c : Go(p, c) /\ c.pc \in {"next", "update", "save", "idle"}
  <2>1. CASE ReconcileList(p)
    <3>1. PICK c : c = [Idle EXCEPT !.pc = "next", !.todo = Listed]
      OBVIOUS
    <3>2. c.pc = "next"
      BY <3>1, IdleTyped DEF Call
    <3> QED
      BY <2>1, <3>1, <3>2 DEF ReconcileList
  <2>2. CASE ReconcileLookup(p)
    <3>1. PICK x, n, s :
            Go(p, [Idle EXCEPT !.pc = "update", !.row = x.row, !.token = rows[x.row].token,
                     !.action = rows[x.row].action, !.fill = n, !.status = s,
                     !.todo = call[p].todo \ {x}])
      BY <2>2 DEF ReconcileLookup
    <3>2. PICK c : c = [Idle EXCEPT !.pc = "update", !.row = x.row, !.token = rows[x.row].token,
                     !.action = rows[x.row].action, !.fill = n, !.status = s,
                     !.todo = call[p].todo \ {x}]
      OBVIOUS
    <3>3. c.pc = "update"
      BY <3>2, IdleTyped DEF Call
    <3> QED
      BY <3>1, <3>2, <3>3
  <2>3. CASE RebuildRead(p)
    <3>1. PICK saved, c : c = [Idle EXCEPT !.pc = "save", !.saved = saved] /\ Go(p, c)
      BY <2>3 DEF RebuildRead
    <3>2. c.pc = "save"
      BY <3>1, IdleTyped DEF Call
    <3> QED
      BY <3>1, <3>2
  <2>4. CASE RebuildSave(p)
    BY <1>1, <2>4 DEF RebuildSave
  <2> QED
    BY <2>1, <2>2, <2>3, <2>4 DEF ReconcilerStep
<1>3. UNCHANGED <<overrun, killFile, blockNew>>
  BY DEF ReconcilerStep, ReconcileList, ReconcileLookup, RebuildRead, RebuildSave, db, history
<1> QED
  BY <1>1, <1>2, <1>3, KeepsSide

LEMMA FaultKill ==
  ASSUME IInv, KInv, NEW p \in Procs, LookupRaises(p) \/ Crash(p) PROVE KInv'
<1>1. call[p] \in Call /\ blockNew \in BOOLEAN /\ Idle.pc = "idle"
  BY CallTyped DEF IInv, TypeOK, Idle
<1>2. PICK c : Go(p, c) /\ c.pc \in {"next", "idle"}
  <2>1. CASE LookupRaises(p) /\ call[p].pc = "next"
    <3>1. PICK d : d = [call[p] EXCEPT !.todo = @ \ NextListed(p)]
      OBVIOUS
    <3>2. d.pc = "next"
      BY <1>1, <2>1, <3>1 DEF Call
    <3> QED
      BY <1>1, <2>1, <3>1, <3>2 DEF LookupRaises
  <2>2. CASE LookupRaises(p) /\ call[p].pc # "next"
    BY <1>1, <2>2 DEF LookupRaises
  <2>3. CASE Crash(p)
    BY <1>1, <2>3 DEF Crash
  <2> QED
    BY <2>1, <2>2, <2>3
<1>3. UNCHANGED <<overrun, killFile, blockNew>>
  BY DEF LookupRaises, Crash, db, history
<1> QED
  BY <1>1, <1>2, <1>3, KeepsSide

\* The operator's command forgets the submissions only as it lifts the block.
LEMMA SwitchKill ==
  ASSUME IInv, KInv, NEW block \in BOOLEAN, NEW file \in BOOLEAN, SetSwitch(block, file)
  PROVE  KInv'
<1>1. call' = call
  BY DEF SetSwitch
<1>2. CASE block \/ file
  BY <1>1, <1>2 DEF SetSwitch, KInv, EntriesBlocked, PendingBuy
<1>3. CASE ~(block \/ file)
  <2>1. \A p \in Traders : overrun'[p] = 0
    BY <1>3 DEF SetSwitch
  <2> QED
    BY <2>1 DEF KInv
<1> QED
  BY <1>2, <1>3

LEMMA NextKill == IInv /\ KInv /\ [Next]_vars => KInv'
<1> SUFFICES ASSUME IInv, KInv, [Next]_vars PROVE KInv'
  OBVIOUS
<1>1. CASE \E p \in Traders : TraderStart(p) \/ TraderStep(p)
  BY <1>1, TraderStartKill, TraderStepKill
<1>2. CASE \E p \in Reconcilers : ReconcileList(p) \/ ReconcilerStep(p)
  BY <1>2, ReconcilerKill
<1>3. CASE \E p \in Procs : Booking(p) \/ LookupRaises(p) \/ Crash(p)
  BY <1>3, BookingKill, FaultKill
<1>4. CASE Exchange \/ UNCHANGED vars
  <2>1. UNCHANGED <<call, overrun, killFile, blockNew>>
    BY <1>4 DEF Exchange, Settle, Publish, vars, db, history
  <2> QED
    BY <2>1 DEF KInv, EntriesBlocked, PendingBuy
<1>5. CASE \E block, file \in BOOLEAN : SetSwitch(block, file)
  BY <1>5, SwitchKill
<1> QED
  BY <1>1, <1>2, <1>3, <1>4, <1>5 DEF Next

\* However the operator's commands, the threshold, crashes and other handlers
\* interleave with it, a trader submits at most one buy between the moment
\* entries are blocked and the moment they are allowed again (live.py 564,
\* 649; the switch is read once, before the order is prepared).
THEOREM KillSwitchWorks == Spec => []KillSwitchStopsEntries
<1>1. Init => KInv
  BY DEF Init, KInv
<1>2. KInv => KillSwitchStopsEntries
  BY DEF KInv, KillSwitchStopsEntries
<1> QED
  BY <1>1, <1>2, InitInv, NextInv, NextKill, PTL DEF Spec

-----------------------------------------------------------------------------
(* NoPhantomFill of LiveExecution holds whatever the handlers, the faults  *)
(* and the interleaving, as long as the exchange's order lookup gives the  *)
(* amounts of a match with it.  The run LivePhantom shows what happens     *)
(* when it does not.                                                       *)
(*                                                                         *)
(* NoPhantomFill speaks of the rows; FInv adds the fills that a handler    *)
(* has worked out for a row and not yet written.                           *)

\* A handler that looks an order up has the order's row in hand, and the fill
\* it goes on to write is one that was executed.
FillInHand(c) ==
  /\ c.pc = "lookup" => rows[c.row].ext = c.ext
  /\ c.pc = "update" /\ rows[c.row].ext # 0 => c.fill <= exch[rows[c.row].ext].fill

FInv == NoPhantomFill /\ \A p \in Procs : FillInHand(call[p])

\* What was executed of an order stays executed.
SameFills == \A e \in DOMAIN exch : exch'[e].fill = exch[e].fill

\* The orders and rows that a handler refers to exist.
LEMMA References ==
  ASSUME IInv
  PROVE  /\ call \in [Procs -> Call] /\ Traders \subseteq Procs /\ Reconcilers \subseteq Procs
         /\ \A i \in DOMAIN rows : rows[i] \in Row
         /\ \A e \in DOMAIN exch : exch[e] \in ExchOrder /\ exch[e].fill \in Nat
         /\ \A i \in DOMAIN rows : rows[i].ext # 0 => rows[i].ext \in DOMAIN exch
         /\ \A p \in Procs : call[p].pc \in {"lookup", "update"} => call[p].row \in DOMAIN rows
<1>1. TypeOK /\ CallsOK /\ OrdersOK
  BY DEF IInv
<1>2. \A e \in DOMAIN exch : exch[e] \in ExchOrder
  BY <1>1 DEF TypeOK
<1>3. \A e \in DOMAIN exch : exch[e].fill \in Nat
  BY <1>2 DEF ExchOrder
<1>4. \A i \in DOMAIN rows : rows[i] \in Row
  BY <1>1 DEF TypeOK
<1>5. \A p \in Procs : call[p].pc \in {"lookup", "update"} => call[p].row \in DOMAIN rows
  BY <1>1 DEF CallsOK, GoodCall
<1> QED  BY <1>1, <1>2, <1>3, <1>4, <1>5 DEF TypeOK, OrdersOK, Procs

\* A handler that moves on without a fill in hand, on the same rows.
LEMMA FillMoves ==
  ASSUME IInv, FInv, NEW p \in Procs, NEW c, Go(p, c), c.pc \notin {"lookup", "update"},
         rows' = rows, SameFills
  PROVE  FInv'
<1>1. \A i \in DOMAIN rows : rows[i].ext # 0 => exch'[rows[i].ext].fill = exch[rows[i].ext].fill
  BY References DEF SameFills
<1>2. NoPhantomFill'
  BY <1>1 DEF FInv, NoPhantomFill
<1>3. ASSUME NEW q \in Procs PROVE FillInHand(call[q])'
  <2>1. call'[q] = IF q = p THEN c ELSE call[q]
    BY References DEF Go
  <2> QED  BY <1>1, <2>1, References DEF FInv, FillInHand
<1> QED  BY <1>2, <1>3 DEF FInv

\* Nobody moves: the exchange and the operator.
LEMMA FillStays ==
  ASSUME IInv, FInv, call' = call, rows' = rows, SameFills
  PROVE  FInv'
<1>1. \A i \in DOMAIN rows : rows[i].ext # 0 => exch'[rows[i].ext].fill = exch[rows[i].ext].fill
  BY References DEF SameFills
<1> QED  BY <1>1, References DEF FInv, NoPhantomFill, FillInHand

\* A handler that works out a fill for a row.
LEMMA FillFound ==
  ASSUME IInv, FInv, NEW p \in Procs, NEW c, Go(p, c), c.pc = "update",
         c.row \in DOMAIN rows,
         rows[c.row].ext # 0 => c.fill <= exch[rows[c.row].ext].fill,
         rows' = rows, exch' = exch
  PROVE  FInv'
<1>1. NoPhantomFill'
  BY DEF FInv, NoPhantomFill
<1>2. ASSUME NEW q \in Procs PROVE FillInHand(call[q])'
  <2>1. call'[q] = IF q = p THEN c ELSE call[q]
    BY References DEF Go
  <2> QED  BY <2>1 DEF FInv, FillInHand
<1> QED  BY <1>1, <1>2 DEF FInv

\* A new row records no fill, or one of a balance adjustment.
LEMMA RowAdded ==
  ASSUME IInv, FInv, NEW p \in Procs, NEW c, Go(p, c), c.pc # "update",
         NEW r \in Row, rows' = Append(rows, r), exch' = exch,
         r.ext # 0 => r.fill = 0 /\ r.ext \in DOMAIN exch,
         c.pc = "lookup" => c.row = Len(rows) + 1 /\ c.ext = r.ext
  PROVE  FInv'
<1>1. PICK n : n = Len(rows) + 1
  OBVIOUS
<1>2. /\ DOMAIN rows' = DOMAIN rows \cup {n} /\ n \notin DOMAIN rows
      /\ rows'[n] = r /\ \A i \in DOMAIN rows : rows'[i] = rows[i]
  BY <1>1, RowsAppended
<1>3. NoPhantomFill'
  BY <1>2, References DEF FInv, NoPhantomFill
<1>4. ASSUME NEW q \in Procs PROVE FillInHand(call[q])'
  <2>1. call'[q] = IF q = p THEN c ELSE call[q]
    BY References DEF Go
  <2>2. CASE q = p
    BY <1>1, <1>2, <2>1, <2>2 DEF FillInHand
  <2>3. CASE q # p
    <3>1. call[q].pc \in {"lookup", "update"} => rows'[call[q].row] = rows[call[q].row]
      BY <1>2, References
    <3> QED  BY <2>1, <2>3, <3>1 DEF FInv, FillInHand
  <2> QED  BY <2>2, <2>3
<1> QED  BY <1>3, <1>4 DEF FInv
-----------------------------------------------------------------------------
(* The steps of traders                                                    *)

LEMMA TraderStartFill ==
  ASSUME IInv, FInv, NEW p \in Traders, TraderStart(p) PROVE FInv'
<1>1. rows' = rows /\ SameFills /\ p \in Procs
  BY References DEF TraderStart, BuyAdmit, SellAdmit, db, market, SameFills
<1>2. PICK c : Go(p, c) /\ c.pc \in {"before", "sellable"}
  <2>1. CASE \E t \in Tokens, q \in Quotes : BuyAdmit(p, t, q)
    <3>1. PICK t \in Tokens, q \in Quotes : BuyAdmit(p, t, q)
      BY <2>1
    <3>2. PICK c : c = [Idle EXCEPT !.pc = "before", !.token = t, !.size = q.size, !.req = q.cost]
      OBVIOUS
    <3>3. c.pc = "before"
      BY <3>2, IdleTyped DEF Call
    <3> QED  BY <3>1, <3>2, <3>3 DEF BuyAdmit
  <2>2. CASE \E t \in Tokens : SellAdmit(p, t)
    <3>1. PICK t \in Tokens : SellAdmit(p, t)
      BY <2>2
    <3>2. PICK c : c = [Idle EXCEPT !.pc = "sellable", !.token = t, !.action = "SELL",
                                    !.base = position[t]]
      OBVIOUS
    <3>3. c.pc = "sellable"
      BY <3>2, IdleTyped DEF Call
    <3> QED  BY <3>1, <3>2, <3>3 DEF SellAdmit
  <2> QED  BY <2>1, <2>2 DEF TraderStart
<1> QED  BY <1>1, <1>2, FillMoves

\* An accepted order is appended; what earlier orders executed stays.
LEMMA AcceptKeepsFills ==
  ASSUME IInv, NEW p \in Procs, NEW f, Accept(call[p], f) PROVE SameFills
<1>1. exch \in Seq(ExchOrder)
  BY DEF IInv, TypeOK
<1> DEFINE o == [token |-> call[p].token, action |-> call[p].action, fill |-> f,
                 settled |-> (call[p].action = "SELL" \/ f = 0), published |-> FALSE]
<1>2. exch' = Append(exch, o)
  BY DEF Accept
<1> HIDE DEF o
<1> QED  BY <1>1, <1>2 DEF SameFills

LEMMA SubmitFill ==
  ASSUME IInv, FInv, NEW p \in Traders, Submit(p) PROVE FInv'
<1>1. p \in Procs /\ call[p] \in Call /\ Idle.pc = "idle"
  BY References, CallTyped DEF Idle
<1>2. rows' = rows
  BY DEF Submit, SubmitAnswered, SubmitAnswerLost, SubmitNoFunds, SubmitRefused, db
<1>3. SameFills
  <2>1. CASE \E f : Accept(call[p], f)
    BY <1>1, <2>1, AcceptKeepsFills
  <2>2. CASE exch' = exch
    BY <2>2 DEF SameFills
  <2> QED  BY <2>1, <2>2
           DEF Submit, SubmitAnswered, SubmitAnswerLost, SubmitNoFunds, SubmitRefused, market
<1>4. PICK c : Go(p, c) /\ c.pc \in {"store", "count", "idle"}
  <2>1. CASE SubmitAnswered(p)
    <3>1. PICK resp, c : c = [call[p] EXCEPT !.pc = "store", !.ext = Len(exch) + 1, !.resp = resp]
                         /\ Go(p, c)
      BY <2>1 DEF SubmitAnswered
    <3>2. c.pc = "store"
      BY <1>1, <3>1 DEF Call
    <3> QED  BY <3>1, <3>2
  <2>2. CASE SubmitNoFunds(p)
    <3>1. PICK c : c = [call[p] EXCEPT !.pc = "count", !.base = errorCount]
      OBVIOUS
    <3>2. c.pc = "count"
      BY <1>1, <3>1 DEF Call
    <3> QED  BY <2>2, <3>1, <3>2 DEF SubmitNoFunds
  <2>3. CASE SubmitAnswerLost(p) \/ SubmitRefused(p)
    BY <1>1, <2>3 DEF SubmitAnswerLost, SubmitRefused
  <2> QED  BY <2>1, <2>2, <2>3 DEF Submit
<1> QED  BY <1>1, <1>2, <1>3, <1>4, FillMoves

LEMMA StoreSubmittedFill ==
  ASSUME IInv, FInv, NEW p \in Traders, StoreSubmitted(p) PROVE FInv'
<1>1. p \in Procs /\ call[p] \in Call /\ GoodCall(call[p]) /\ call[p].pc = "store"
  BY References, CallTyped DEF StoreSubmitted
<1>2. PICK x, t : x = call[p].ext /\ t = call[p].token
  OBVIOUS
<1>3. t \in Tokens /\ x \in DOMAIN exch /\ x \in Nat
  BY <1>1, <1>2 DEF GoodCall, Holding, Pc, Call
<1>4. PICK r : r = [token |-> t, action |-> call[p].action, size |-> call[p].size,
                    req |-> call[p].req, ext |-> x, resp |-> call[p].resp,
                    status |-> "submitted", fill |-> 0]
  OBVIOUS
<1>5. r \in Row /\ r.ext = x /\ r.fill = 0
  BY <1>1, <1>3, <1>4 DEF Row, Call, Status
<1>6. rows' = Append(rows, r) /\ exch' = exch
  BY <1>2, <1>4 DEF StoreSubmitted, SubmittedRow, market
<1>7. PICK n : n = Len(rows) + 1
  OBVIOUS
<1>8. PICK c : c = [call[p] EXCEPT !.pc = "lookup", !.row = n]
  OBVIOUS
<1>9. c.pc = "lookup" /\ c.row = n /\ c.ext = x
  BY <1>1, <1>2, <1>8 DEF Call
<1>10. Go(p, c)
  BY <1>7, <1>8 DEF StoreSubmitted
<1> QED  BY <1>1, <1>3, <1>5, <1>6, <1>7, <1>9, <1>10, RowAdded

LEMMA AdjustRowFill ==
  ASSUME IInv, FInv, NEW p \in Traders, AdjustRow(p) PROVE FInv'
<1>1. p \in Procs /\ call[p] \in Call /\ GoodCall(call[p]) /\ call[p].pc = "adjust_row"
  BY References, CallTyped DEF AdjustRow
<1>2. call[p].token \in Tokens /\ call[p].fill \in Nat
  BY <1>1 DEF GoodCall, Holding, Pc, Call
<1>3. PICK r : r = [token |-> call[p].token, action |-> "SELL", size |-> 0,
                    req |-> 0, ext |-> 0, resp |-> "none",
                    status |-> "filled", fill |-> call[p].fill]
  OBVIOUS
<1>4. r \in Row /\ r.ext = 0
  BY <1>2, <1>3 DEF Row, Status
<1>5. rows' = Append(rows, r) /\ exch' = exch
  BY <1>3 DEF AdjustRow, market
<1>6. PICK c : c = IF call[p].req > 0 THEN [call[p] EXCEPT !.pc = "submit", !.fill = 0] ELSE Idle
  OBVIOUS
<1>7. c.pc \in {"submit", "idle"}
  BY <1>1, <1>6, IdleGood DEF Call, Idle
<1>8. Go(p, c)
  BY <1>6 DEF AdjustRow
<1> QED  BY <1>1, <1>4, <1>5, <1>7, <1>8, RowAdded

\* Without amount-less matches, what is taken from an answer was executed.
LEMMA SharesExecuted ==
  ASSUME "bare" \notin LookupKinds, NEW n \in Nat, NEW m, NEW resp, NEW e,
         NEW report \in LookupReports(e) \cup {"unknown"}
  PROVE  /\ FillShares(ReconcilePayload(report, resp), m, n) \in {0, n}
         /\ FillShares("exact", m, n) = n
  BY DEF FillShares, ReconcilePayload, LookupReports

LEMMA LookupFill ==
  ASSUME IInv, FInv, "bare" \notin LookupKinds, NEW p \in Traders, Lookup(p) PROVE FInv'
<1>1. p \in Procs /\ call[p] \in Call /\ GoodCall(call[p]) /\ call[p].pc = "lookup"
  BY References, CallTyped DEF Lookup
<1>2. rows' = rows /\ exch' = exch
  BY DEF Lookup, market, db
<1>3. /\ call[p].token \in Tokens /\ call[p].row \in DOMAIN rows
      /\ rows[call[p].row].ext = call[p].ext
      /\ call[p].before \in Nat \cup {Absent}
  BY <1>1 DEF GoodCall, Holding, Pc, Call, FInv, FillInHand
<1>4. PICK report, after, shares, kept, status, c :
        /\ report \in LookupReports(call[p].ext)
        /\ after \in SellableBalance(call[p].token)
        /\ shares = FillShares(ReconcilePayload(report, call[p].resp), call[p].req,
                               exch[call[p].ext].fill)
        /\ kept = IF call[p].action = "BUY" THEN BalanceCut(call[p].before, after, shares)
                                            ELSE shares
        /\ c = [call[p] EXCEPT !.pc = "update", !.fill = kept, !.status = status]
        /\ Go(p, c)
  BY DEF Lookup
<1>5. PICK n : n = exch[call[p].ext].fill
  OBVIOUS
<1>6. n \in Nat
  BY <1>1, <1>5, References DEF GoodCall
<1>7. shares \in {0, n}
  BY <1>4, <1>5, <1>6, SharesExecuted
<1>8. after \in Nat \cup {Absent}
  BY <1>3, <1>4 DEF SellableBalance, IInv, TypeOK
<1>9. kept \in Nat /\ kept <= n
  <2>1. shares \in Nat /\ shares <= n
    BY <1>6, <1>7
  <2> QED  BY <1>3, <1>4, <1>6, <1>8, <2>1, BalanceCutNat
<1>10. c.pc = "update" /\ c.row = call[p].row /\ c.fill = kept
  BY <1>1, <1>4 DEF Call
<1> QED  BY <1>1, <1>2, <1>3, <1>4, <1>5, <1>9, <1>10, FillFound

LEMMA TraderStepFill ==
  ASSUME IInv, FInv, "bare" \notin LookupKinds, NEW p \in Traders, TraderStep(p) PROVE FInv'
<1>1. p \in Procs /\ call[p] \in Call /\ Idle.pc = "idle"
  BY References, CallTyped DEF Idle
<1>2. CASE BuyBalanceBefore(p)
  <2>1. PICK b, c : c = [call[p] EXCEPT !.pc = "submit", !.before = b] /\ Go(p, c)
    BY <1>2 DEF BuyBalanceBefore
  <2>2. c.pc = "submit" /\ rows' = rows /\ SameFills
    BY <1>1, <1>2, <2>1 DEF Call, BuyBalanceBefore, market, db, SameFills
  <2> QED  BY <1>1, <2>1, <2>2, FillMoves
<1>3. CASE SellBalance(p)
  <2>1. PICK pc, n, f, c : /\ Go(p, c) /\ pc \notin {"lookup", "update"}
                           /\ \/ c = Idle
                              \/ c = [call[p] EXCEPT !.pc = pc, !.req = n, !.size = n, !.fill = f]
    <3>1. PICK b \in SellableBalance(call[p].token) :
            LET held  == call[p].base
                short == b # Absent /\ b < held
                req   == FloorLot(IF short THEN b ELSE held)
                next  == CASE short -> "adjust"
                           [] ~short /\ req > 0 -> "submit"
                           [] ~short /\ req = 0 -> "idle"
            IN  Go(p, IF next = "idle" THEN Idle
                      ELSE [call[p] EXCEPT !.pc = next, !.req = req, !.size = req,
                                           !.fill = IF short THEN held - b ELSE 0])
      BY <1>3 DEF SellBalance
    <3> DEFINE held  == call[p].base
               short == b # Absent /\ b < held
               req   == FloorLot(IF short THEN b ELSE held)
               next  == CASE short -> "adjust"
                          [] ~short /\ req > 0 -> "submit"
                          [] ~short /\ req = 0 -> "idle"
    <3>2. next \in {"adjust", "submit", "idle"}
      <4>1. CASE short
        BY <4>1
      <4>2. CASE ~short
        <5>1. call[p].token \in Tokens /\ held \in Nat
          BY <1>1, <1>3, CallTyped DEF SellBalance, GoodCall, Holding, Pc, Call
        <5>2. req = FloorLot(held)
          BY <4>2
        <5>3. req \in Nat
          BY <5>1, <5>2, FloorLotNat
        <5> HIDE DEF req, short
        <5> QED  BY <4>2, <5>3
      <4> QED  BY <4>1, <4>2
    <3> HIDE DEF next
    <3> QED  BY <3>1, <3>2 DEF next
  <2>2. c.pc \notin {"lookup", "update"} /\ rows' = rows /\ SameFills
    BY <1>1, <1>3, <2>1 DEF Call, SellBalance, market, db, SameFills
  <2> QED  BY <1>1, <2>1, <2>2, FillMoves
<1>4. CASE AdjustPosition(p)
  <2>1. PICK c : c = [call[p] EXCEPT !.pc = "adjust_row"]
    OBVIOUS
  <2>2. Go(p, c) /\ c.pc = "adjust_row" /\ rows' = rows /\ SameFills
    BY <1>1, <1>4, <2>1 DEF Call, AdjustPosition, Goto, market, SameFills
  <2> QED  BY <1>1, <2>2, FillMoves
<1>5. CASE CountRefusal(p)
  <2>1. Go(p, Idle) /\ rows' = rows /\ SameFills
    BY <1>5 DEF CountRefusal, market, SameFills
  <2> QED  BY <1>1, <2>1, FillMoves
<1> QED
  BY <1>2, <1>3, <1>4, <1>5, SubmitFill, StoreSubmittedFill, AdjustRowFill, LookupFill
  DEF TraderStep
-----------------------------------------------------------------------------
(* Booking and reconciling                                                 *)

\* The row takes on the fill in hand; the other handlers' orders stay theirs.
LEMMA UpdateRowFill ==
  ASSUME IInv, FInv, NEW p \in Procs, UpdateRow(p) PROVE FInv'
<1>1. call[p] \in Call /\ call[p].pc = "update" /\ AfterBooking(p).pc \in {"idle", "next"}
  BY CallTyped DEF UpdateRow, AfterBooking, Idle
<1>2. PICK i, f, s : i = call[p].row /\ f = call[p].fill /\ s = call[p].status
  OBVIOUS
<1>3. /\ i \in DOMAIN rows /\ rows \in Seq(Row) /\ rows[i] \in Row /\ exch' = exch
      /\ rows[i].ext # 0 => f <= exch[rows[i].ext].fill
  BY <1>1, <1>2, References DEF FInv, FillInHand, UpdateRow, market, IInv, TypeOK
<1>4. PICK r : r = [rows[i] EXCEPT !.status = s, !.fill = f]
  OBVIOUS
<1>5. r.ext = rows[i].ext /\ r.fill = f
  BY <1>3, <1>4 DEF Row
<1>6. rows' = [rows EXCEPT ![i] = r]
  BY <1>2, <1>3, <1>4 DEF UpdateRow
<1>7. /\ DOMAIN rows' = DOMAIN rows /\ rows'[i] = r
      /\ \A j \in DOMAIN rows : j # i => rows'[j] = rows[j]
  BY <1>3, <1>6
<1>8. NoPhantomFill'
  BY <1>3, <1>5, <1>7 DEF FInv, NoPhantomFill
<1>9. PICK c : Go(p, c) /\ c.pc \in {"read", "idle", "next"}
  <2>1. PICK d : d = [call[p] EXCEPT !.pc = "read"]
    OBVIOUS
  <2>2. d.pc = "read"
    BY <1>1, <2>1 DEF Call
  <2> QED  BY <1>1, <2>1, <2>2 DEF UpdateRow
<1>10. ASSUME NEW q \in Procs PROVE FillInHand(call[q])'
  <2>1. call'[q] = IF q = p THEN c ELSE call[q]
    BY <1>9, References DEF Go
  <2>2. call[q].pc \in {"lookup", "update"} => rows'[call[q].row].ext = rows[call[q].row].ext
    BY <1>5, <1>7, References
  <2> QED  BY <1>3, <1>9, <2>1, <2>2 DEF FInv, FillInHand
<1> QED  BY <1>8, <1>10 DEF FInv

LEMMA BookingFill ==
  ASSUME IInv, FInv, NEW p \in Procs, Booking(p) PROVE FInv'
<1>1. call[p] \in Call /\ AfterBooking(p).pc \in {"idle", "next"}
  BY CallTyped DEF AfterBooking, Idle
<1>2. CASE ReadPosition(p)
  <2>1. PICK c : c = [call[p] EXCEPT !.pc = "write", !.base = position[call[p].token]]
    OBVIOUS
  <2>2. Go(p, c) /\ c.pc = "write" /\ rows' = rows /\ SameFills
    BY <1>1, <1>2, <2>1 DEF Call, ReadPosition, market, db, SameFills
  <2> QED  BY <2>2, FillMoves
<1>3. CASE WritePosition(p)
  <2>1. Go(p, AfterBooking(p)) /\ rows' = rows /\ SameFills
    BY <1>3 DEF WritePosition, market, SameFills
  <2> QED  BY <1>1, <2>1, FillMoves
<1> QED  BY <1>2, <1>3, UpdateRowFill DEF Booking

LEMMA ReconcileLookupFill ==
  ASSUME IInv, FInv, "bare" \notin LookupKinds, NEW p \in Reconcilers, ReconcileLookup(p)
  PROVE  FInv'
<1>1. p \in Procs /\ call[p] \in Call /\ GoodCall(call[p]) /\ call[p].pc = "next"
  BY References, CallTyped DEF ReconcileLookup
<1>2. rows' = rows /\ exch' = exch
  BY DEF ReconcileLookup, market, db
<1>3. PICK x \in NextListed(p) :
        LET r      == rows[x.row]
            linked == r.ext # 0
            traded == linked /\ exch[r.ext].published /\ exch[r.ext].fill > 0
        IN \E report \in IF linked THEN LookupReports(r.ext) ELSE {"unknown"} :
             LET payload == IF traded THEN "exact" ELSE ReconcilePayload(report, r.resp)
                 default == IF r.action = "SELL" THEN r.req ELSE r.size
                 shares  == FillShares(payload, default, IF linked THEN exch[r.ext].fill ELSE 0)
             IN  Go(p, [Idle EXCEPT !.pc = "update", !.row = x.row, !.token = r.token,
                          !.action = r.action, !.fill = shares,
                          !.status = ReconcileStatus(payload, shares, x.status),
                          !.todo = call[p].todo \ {x}])
  BY DEF ReconcileLookup
<1> DEFINE r == rows[x.row]
           linked == r.ext # 0
           traded == linked /\ exch[r.ext].published /\ exch[r.ext].fill > 0
           default == IF r.action = "SELL" THEN r.req ELSE r.size
           filled == IF linked THEN exch[r.ext].fill ELSE 0
<1>4. PICK report \in IF linked THEN LookupReports(r.ext) ELSE {"unknown"} :
        LET payload == IF traded THEN "exact" ELSE ReconcilePayload(report, r.resp)
            shares  == FillShares(payload, default, filled)
        IN  Go(p, [Idle EXCEPT !.pc = "update", !.row = x.row, !.token = r.token,
                     !.action = r.action, !.fill = shares,
                     !.status = ReconcileStatus(payload, shares, x.status),
                     !.todo = call[p].todo \ {x}])
  BY <1>3
<1> DEFINE payload == IF traded THEN "exact" ELSE ReconcilePayload(report, r.resp)
           shares == FillShares(payload, default, filled)
           c == [Idle EXCEPT !.pc = "update", !.row = x.row, !.token = r.token,
                   !.action = r.action, !.fill = shares,
                   !.status = ReconcileStatus(payload, shares, x.status),
                   !.todo = call[p].todo \ {x}]
<1>5. Go(p, c)
  BY <1>4
<1>6. x.row \in DOMAIN rows
  BY <1>1 DEF NextListed, GoodCall
<1>7. ASSUME linked PROVE shares <= exch[r.ext].fill
  <2>1. filled = exch[r.ext].fill /\ filled \in Nat
    BY <1>6, <1>7, References
  <2>2. report \in LookupReports(r.ext)
    BY <1>4, <1>7
  <2> HIDE DEF filled, default
  <2>3. shares \in {0, filled}
    BY <2>1, <2>2, SharesExecuted
  <2> QED  BY <2>1, <2>3
<1> HIDE DEF shares, payload
<1>8. c.pc = "update" /\ c.row = x.row /\ c.fill = shares
  BY IdleTyped DEF Call
<1> HIDE DEF c
<1> QED  BY <1>1, <1>2, <1>5, <1>6, <1>7, <1>8, FillFound

LEMMA ReconcilerFill ==
  ASSUME IInv, FInv, "bare" \notin LookupKinds, NEW p \in Reconcilers,
         ReconcileList(p) \/ ReconcilerStep(p)
  PROVE  FInv'
<1>1. p \in Procs /\ Idle.pc = "idle"
  BY References DEF Idle
<1>2. CASE ReconcileList(p)
  <2>1. PICK c : c = [Idle EXCEPT !.pc = "next", !.todo = Listed]
    OBVIOUS
  <2>2. c.pc = "next" /\ Go(p, c) /\ rows' = rows /\ SameFills
    BY <1>2, <2>1, IdleTyped DEF Call, ReconcileList, market, db, SameFills
  <2> QED  BY <1>1, <2>2, FillMoves
<1>3. CASE RebuildRead(p)
  <2>1. PICK saved, c : c = [Idle EXCEPT !.pc = "save", !.saved = saved] /\ Go(p, c)
    BY <1>3 DEF RebuildRead
  <2>2. c.pc = "save" /\ rows' = rows /\ SameFills
    BY <1>3, <2>1, IdleTyped DEF Call, RebuildRead, market, db, SameFills
  <2> QED  BY <1>1, <2>1, <2>2, FillMoves
<1>4. CASE RebuildSave(p)
  <2>1. Go(p, Idle) /\ rows' = rows /\ SameFills
    BY <1>4 DEF RebuildSave, market, SameFills
  <2> QED  BY <1>1, <2>1, FillMoves
<1> QED  BY <1>2, <1>3, <1>4, ReconcileLookupFill DEF ReconcilerStep

LEMMA FaultFill ==
  ASSUME IInv, FInv, NEW p \in Procs, LookupRaises(p) \/ Crash(p) PROVE FInv'
<1>1. call[p] \in Call /\ Idle.pc = "idle"
  BY CallTyped DEF Idle
<1>2. PICK c : Go(p, c) /\ c.pc \in {"next", "idle"}
  <2>1. CASE LookupRaises(p) /\ call[p].pc = "next"
    <3>1. PICK d : d = [call[p] EXCEPT !.todo = @ \ NextListed(p)]
      OBVIOUS
    <3>2. d.pc = "next"
      BY <1>1, <2>1, <3>1 DEF Call
    <3> QED  BY <1>1, <2>1, <3>1, <3>2 DEF LookupRaises
  <2>2. CASE LookupRaises(p) /\ call[p].pc # "next"
    BY <1>1, <2>2 DEF LookupRaises
  <2>3. CASE Crash(p)
    BY <1>1, <2>3 DEF Crash
  <2> QED  BY <2>1, <2>2, <2>3
<1>3. rows' = rows /\ SameFills
  BY DEF LookupRaises, Crash, market, db, SameFills
<1> QED  BY <1>2, <1>3, FillMoves

\* Settling and publishing leave the executed amounts alone.
LEMMA ExchangeFill ==
  ASSUME IInv, FInv, Exchange PROVE FInv'
<1>1. PICK e \in DOMAIN exch : Settle(e) \/ Publish(e)
  BY DEF Exchange
<1>2. exch \in Seq(ExchOrder) /\ exch[e] \in ExchOrder
  BY References DEF IInv, TypeOK
<1>3. PICK o : /\ exch' = [exch EXCEPT ![e] = o]
               /\ o \in {[exch[e] EXCEPT !.settled = TRUE], [exch[e] EXCEPT !.published = TRUE]}
  BY <1>1, <1>2 DEF Settle, Publish
<1>4. o.fill = exch[e].fill
  BY <1>2, <1>3 DEF ExchOrder
<1>5. SameFills
  BY <1>2, <1>3, <1>4 DEF SameFills
<1>6. call' = call /\ rows' = rows
  BY <1>1 DEF Settle, Publish, db
<1> QED  BY <1>5, <1>6, FillStays
-----------------------------------------------------------------------------
LEMMA NextFill ==
  ASSUME "bare" \notin LookupKinds PROVE IInv /\ FInv /\ [Next]_vars => FInv'
<1> SUFFICES ASSUME IInv, FInv, [Next]_vars PROVE FInv'
  OBVIOUS
<1>1. CASE \E p \in Traders : TraderStart(p) \/ TraderStep(p)
  BY <1>1, TraderStartFill, TraderStepFill
<1>2. CASE \E p \in Reconcilers : ReconcileList(p) \/ ReconcilerStep(p)
  BY <1>2, ReconcilerFill
<1>3. CASE \E p \in Procs : Booking(p) \/ LookupRaises(p) \/ Crash(p)
  BY <1>3, BookingFill, FaultFill
<1>4. CASE Exchange
  BY <1>4, ExchangeFill
<1>5. CASE (\E block, file \in BOOLEAN : SetSwitch(block, file)) \/ UNCHANGED vars
  <2>1. call' = call /\ rows' = rows /\ SameFills
    BY <1>5 DEF SetSwitch, vars, market, db, SameFills
  <2> QED  BY <2>1, FillStays
<1> QED  BY <1>1, <1>2, <1>3, <1>4, <1>5 DEF Next

\* When an order lookup that reports a match gives its amounts, no live_orders
\* row ever records more than the exchange executed, whatever is lost, delayed,
\* repeated or interrupted between the trader, live-reconcile and the dashboard
\* (live.py 697-760, 1171-1260).  Where it gives none, the lookup fills the
\* amount in from the request, and the run LivePhantom follows from that.
THEOREM FillsAreReal ==
  ASSUME "bare" \notin LookupKinds PROVE Spec => []NoPhantomFill
<1>1. Init => FInv
  BY DEF Init, FInv, NoPhantomFill, FillInHand, Idle
<1>2. FInv => NoPhantomFill
  BY DEF FInv
<1>3. IInv /\ FInv /\ [Next]_vars => FInv'
  BY NextFill
<1> QED
  BY <1>1, <1>2, <1>3, InitInv, NextInv, PTL DEF Spec
=============================================================================
