-------------------------- MODULE LiveSerial_proofs --------------------------
(***************************************************************************)
(* What holds of LiveExecution when handlers do not overlap (Serial), with *)
(* crashes, lost answers and failed lookups, for every number of tokens,   *)
(* processes, orders and rows.                                             *)
(*                                                                         *)
(* The first section says of each step which locals its process is left    *)
(* with and which rows it wrote; the proofs below use the steps through    *)
(* these lemmas only.                                                      *)
(***************************************************************************)
EXTENDS LiveExecution_proofs, FiniteSetTheorems, WellFoundedInduction

Only(p) == \A q \in Procs : q # p => call'[q] = call[q]

\* The handler's order and row, and its place in the list of rows, stay.
Keeps(p) ==
  /\ call'[p].token = call[p].token /\ call'[p].action = call[p].action
  /\ call'[p].req = call[p].req /\ call'[p].todo = call[p].todo

Books == <<rows, position, exch, lost>>
-----------------------------------------------------------------------------
(* The steps                                                               *)

LEMMA Went ==
  ASSUME IInv, NEW p \in Procs, NEW c, Go(p, c) PROVE call'[p] = c /\ Only(p)
  BY References DEF Go, Only

LEMMA BuyAdmitStep ==
  ASSUME IInv, NEW p \in Traders, NEW t \in Tokens, NEW q \in Quotes, BuyAdmit(p, t, q)
  PROVE  /\ MayStart(p) /\ Only(p) /\ UNCHANGED Books
         /\ call'[p].pc = "before" /\ call'[p].action = "BUY" /\ call'[p].token = t
         /\ call'[p].req = q.cost /\ call'[p].todo = {} /\ FitsExposure(q.cost)
<1>1. PICK c : c = [Idle EXCEPT !.pc = "before", !.token = t, !.size = q.size, !.req = q.cost]
  OBVIOUS
<1>2. Go(p, c) /\ MayStart(p) /\ UNCHANGED Books /\ FitsExposure(q.cost) /\ p \in Procs
  BY <1>1, References DEF BuyAdmit, market, db, history, Books
<1>3. c.pc = "before" /\ c.action = "BUY" /\ c.token = t /\ c.req = q.cost /\ c.todo = {}
  BY <1>1 DEF Idle
<1> QED  BY <1>2, <1>3, Went

LEMMA BuyBalanceBeforeStep ==
  ASSUME IInv, NEW p \in Traders, BuyBalanceBefore(p)
  PROVE  /\ call[p].pc = "before" /\ Only(p) /\ UNCHANGED Books
         /\ call'[p].pc = "submit" /\ Keeps(p)
<1>1. PICK b, c : c = [call[p] EXCEPT !.pc = "submit", !.before = b] /\ Go(p, c)
  BY DEF BuyBalanceBefore
<1>2. p \in Procs /\ call[p] \in Call /\ call[p].pc = "before" /\ UNCHANGED Books
  BY References, CallTyped DEF BuyBalanceBefore, market, db, history, Books
<1>3. /\ c.pc = "submit" /\ c.token = call[p].token /\ c.action = call[p].action
      /\ c.req = call[p].req /\ c.todo = call[p].todo
  BY <1>1, <1>2 DEF Call
<1> QED  BY <1>1, <1>2, <1>3, Went DEF Keeps

LEMMA SellAdmitStep ==
  ASSUME IInv, NEW p \in Traders, NEW t \in Tokens, SellAdmit(p, t)
  PROVE  /\ MayStart(p) /\ Only(p) /\ UNCHANGED Books /\ position[t] > 0
         /\ call'[p].pc = "sellable" /\ call'[p].action = "SELL" /\ call'[p].token = t
         /\ call'[p].todo = {} /\ call'[p].base = position[t]
<1>1. PICK c : c = [Idle EXCEPT !.pc = "sellable", !.token = t, !.action = "SELL",
                                !.base = position[t]]
  OBVIOUS
<1>2. Go(p, c) /\ MayStart(p) /\ UNCHANGED Books /\ position[t] > 0 /\ p \in Procs
  BY <1>1, References DEF SellAdmit, market, db, history, Books
<1>3. c.pc = "sellable" /\ c.action = "SELL" /\ c.token = t /\ c.todo = {} /\ c.base = position[t]
  BY <1>1 DEF Idle
<1> QED  BY <1>2, <1>3, Went

LEMMA IdleFields == Idle.pc = "idle" /\ Idle.todo = {}
  BY DEF Idle

LEMMA SellBalanceStep ==
  ASSUME IInv, NEW p \in Traders, SellBalance(p)
  PROVE  /\ call[p].pc = "sellable" /\ Only(p) /\ UNCHANGED Books
         /\ \/ call'[p].pc = "idle" /\ call'[p].todo = {}
            \/ /\ call'[p].pc \in {"adjust", "submit"}
               /\ call'[p].token = call[p].token /\ call'[p].action = call[p].action
               /\ call'[p].todo = call[p].todo
<1>1. PICK b \in SellableBalance(call[p].token) :
        LET held  == call[p].base
            short == b # Absent /\ b < held
            req   == FloorLot(IF short THEN b ELSE held)
            next  == CASE short -> "adjust"
                       [] ~short /\ req > 0 -> "submit"
                       [] ~short /\ req = 0 -> "idle"
        IN  Go(p, IF next = "idle" THEN Idle
                  ELSE [call[p] EXCEPT !.pc = next, !.req = req, !.size = req,
                                       !.fill = IF short THEN held - b ELSE 0])
  BY DEF SellBalance
<1> DEFINE held  == call[p].base
           short == b # Absent /\ b < held
           req   == FloorLot(IF short THEN b ELSE held)
           next  == CASE short -> "adjust"
                      [] ~short /\ req > 0 -> "submit"
                      [] ~short /\ req = 0 -> "idle"
           c     == [call[p] EXCEPT !.pc = next, !.req = req, !.size = req,
                                    !.fill = IF short THEN held - b ELSE 0]
<1>2. p \in Procs /\ call[p] \in Call /\ call[p].pc = "sellable" /\ UNCHANGED Books
  BY References, CallTyped DEF SellBalance, market, db, history, Books
<1>3. next \in {"adjust", "submit", "idle"}
  <2>1. CASE short
    BY <2>1
  <2>2. CASE ~short
    <3>1. held \in Nat
      BY <1>2 DEF Call
    <3>2. req = FloorLot(held)
      BY <2>2
    <3>3. req \in Nat
      BY <3>1, <3>2, FloorLotNat
    <3> HIDE DEF req, short
    <3> QED  BY <2>2, <3>3
  <2> QED  BY <2>1, <2>2
<1>4. Go(p, IF next = "idle" THEN Idle ELSE c)
  BY <1>1
<1> HIDE DEF next, req, short, held
<1>5. c.pc = next /\ c.token = call[p].token /\ c.action = call[p].action /\ c.todo = call[p].todo
  BY <1>2 DEF Call
<1> HIDE DEF c
<1> QED  BY <1>2, <1>3, <1>4, <1>5, Went, IdleFields

LEMMA AdjustPositionStep ==
  ASSUME IInv, NEW p \in Traders, AdjustPosition(p)
  PROVE  /\ call[p].pc = "adjust" /\ Only(p) /\ UNCHANGED <<rows, exch, lost>>
         /\ call'[p].pc = "adjust_row" /\ Keeps(p) /\ call'[p].fill = call[p].fill
         /\ position' = [position EXCEPT ![call[p].token] =
                           Greatest(position[call[p].token] - call[p].fill, 0)]
<1>1. PICK c : c = [call[p] EXCEPT !.pc = "adjust_row"]
  OBVIOUS
<1>2. /\ p \in Procs /\ call[p] \in Call /\ call[p].pc = "adjust" /\ Go(p, c)
      /\ UNCHANGED <<rows, exch, lost>>
  BY <1>1, References, CallTyped DEF AdjustPosition, Goto, market, history
<1>3. /\ c.pc = "adjust_row" /\ c.token = call[p].token /\ c.action = call[p].action
      /\ c.req = call[p].req /\ c.todo = call[p].todo /\ c.fill = call[p].fill
  BY <1>1, <1>2 DEF Call
<1>4. position' = [position EXCEPT ![call[p].token] =
                     Greatest(position[call[p].token] - call[p].fill, 0)]
  BY DEF AdjustPosition
<1> QED  BY <1>2, <1>3, <1>4, Went DEF Keeps

LEMMA AdjustRowStep ==
  ASSUME IInv, NEW p \in Traders, AdjustRow(p)
  PROVE  /\ call[p].pc = "adjust_row" /\ Only(p) /\ UNCHANGED <<position, exch, lost>>
         /\ call[p].token \in Tokens /\ call[p].fill \in Nat
         /\ \/ call'[p].pc = "idle" /\ call'[p].todo = {}
            \/ call'[p].pc = "submit" /\ Keeps(p)
         /\ \E r \in Row : /\ r.token = call[p].token /\ r.action = "SELL" /\ r.ext = 0
                           /\ r.status = "filled" /\ r.fill = call[p].fill
                           /\ rows' = Append(rows, r)
<1>1. /\ p \in Procs /\ call[p] \in Call /\ GoodCall(call[p]) /\ call[p].pc = "adjust_row"
      /\ UNCHANGED <<position, exch, lost>>
  BY References, CallTyped DEF AdjustRow, market, history
<1>2. call[p].token \in Tokens /\ call[p].fill \in Nat
  BY <1>1 DEF GoodCall, Holding, Pc, Call
<1>3. PICK r : r = [token |-> call[p].token, action |-> "SELL", size |-> 0, req |-> 0, ext |-> 0,
                    resp |-> "none", status |-> "filled", fill |-> call[p].fill]
  OBVIOUS
<1>4. /\ r \in Row /\ r.token = call[p].token /\ r.action = "SELL" /\ r.ext = 0
      /\ r.status = "filled" /\ r.fill = call[p].fill
  BY <1>2, <1>3 DEF Row, Status
<1>5. rows' = Append(rows, r)
  BY <1>3 DEF AdjustRow
<1>6. PICK d : d = [call[p] EXCEPT !.pc = "submit", !.fill = 0]
  OBVIOUS
<1>7. /\ d.pc = "submit" /\ d.token = call[p].token /\ d.action = call[p].action
      /\ d.req = call[p].req /\ d.todo = call[p].todo
  BY <1>1, <1>6 DEF Call
<1>8. Go(p, d) \/ Go(p, Idle)
  BY <1>6 DEF AdjustRow
<1>9. Only(p) /\ (call'[p] = d \/ call'[p] = Idle)
  BY <1>1, <1>8, Went
<1> QED  BY <1>1, <1>2, <1>4, <1>5, <1>7, <1>9, IdleFields DEF Keeps

\* The exchange takes order n, and fills no more of it than was asked for.
Accepted(n, req) ==
  /\ DOMAIN exch' = DOMAIN exch \cup {n} /\ n \notin DOMAIN exch /\ n \in Nat \ {0}
  /\ SameFills /\ exch'[n].fill \in Nat /\ exch'[n].fill <= req

LEMMA AcceptStep ==
  ASSUME IInv, NEW p \in Procs, call[p].pc = "submit", NEW f \in Fills(call[p]),
         Accept(call[p], f)
  PROVE  Accepted(Len(exch) + 1, call[p].req)
<1>1. call[p].token \in Tokens /\ call[p].req \in Nat /\ call[p].action \in {"BUY", "SELL"}
  BY CallTyped DEF Call, GoodCall, Holding, Pc
<1>2. exch \in Seq(ExchOrder) /\ balance \in [Tokens -> Nat]
  BY DEF IInv, TypeOK
<1>3. f \in Nat /\ f <= call[p].req
  BY <1>1, <1>2 DEF Fills, Least
<1>4. PICK o : o = [token |-> call[p].token, action |-> call[p].action, fill |-> f,
                    settled |-> (call[p].action = "SELL" \/ f = 0), published |-> FALSE]
  OBVIOUS
<1>5. o.fill = f /\ o \in ExchOrder /\ exch' = Append(exch, o)
  BY <1>1, <1>3, <1>4 DEF ExchOrder, Accept
<1>6. exch' \in Seq(ExchOrder) /\ Len(exch') = Len(exch) + 1 /\ exch'[Len(exch) + 1] = o
  BY <1>2, <1>5, AppendProperties
<1>7. /\ Len(exch) \in Nat /\ DOMAIN exch = 1..Len(exch)
      /\ DOMAIN exch' = 1..(Len(exch) + 1)
  BY <1>2, <1>6, LenProperties
<1>8. SameFills
  BY AcceptKeepsFills
<1> QED  BY <1>3, <1>5, <1>6, <1>7, <1>8 DEF Accepted

LEMMA SubmitStep ==
  ASSUME IInv, NEW p \in Traders, Submit(p)
  PROVE  /\ call[p].pc = "submit" /\ Only(p) /\ UNCHANGED <<rows, position>>
         /\ \E n : \/ /\ call'[p].pc = "store" /\ Keeps(p) /\ call'[p].ext = n
                      /\ Accepted(n, call[p].req) /\ lost' = lost
                   \/ /\ call'[p].pc = "idle" /\ call'[p].todo = {}
                      /\ Accepted(n, call[p].req) /\ lost' = lost \cup {n}
                   \/ call'[p].pc = "count" /\ Keeps(p) /\ UNCHANGED <<exch, lost>>
                   \/ call'[p].pc = "idle" /\ call'[p].todo = {} /\ UNCHANGED <<exch, lost>>
<1>1. p \in Procs /\ call[p] \in Call /\ call[p].pc = "submit"
  BY References, CallTyped DEF Submit, SubmitAnswered, SubmitAnswerLost, SubmitNoFunds, SubmitRefused
<1>2. UNCHANGED <<rows, position>>
  BY DEF Submit, SubmitAnswered, SubmitAnswerLost, SubmitNoFunds, SubmitRefused, db
<1>3. PICK n : n = Len(exch) + 1
  OBVIOUS
<1>4. CASE SubmitAnswered(p)
  <2>1. PICK f \in Fills(call[p]) :
          /\ Accept(call[p], f)
          /\ \E resp : Go(p, [call[p] EXCEPT !.pc = "store", !.ext = Len(exch) + 1, !.resp = resp])
    BY <1>4 DEF SubmitAnswered
  <2>2. PICK resp, c : /\ c = [call[p] EXCEPT !.pc = "store", !.ext = n, !.resp = resp]
                       /\ Go(p, c)
    BY <1>3, <2>1
  <2>3. /\ c.pc = "store" /\ c.token = call[p].token /\ c.action = call[p].action
        /\ c.req = call[p].req /\ c.todo = call[p].todo /\ c.ext = n
    BY <1>1, <2>2 DEF Call
  <2>4. Accepted(n, call[p].req) /\ lost' = lost
    BY <1>1, <1>3, <1>4, <2>1, AcceptStep DEF SubmitAnswered
  <2> QED  BY <1>1, <1>2, <2>2, <2>3, <2>4, Went DEF Keeps
<1>5. CASE SubmitAnswerLost(p)
  <2>1. PICK f \in Fills(call[p]) : Accept(call[p], f)
    BY <1>5 DEF SubmitAnswerLost
  <2>2. Accepted(n, call[p].req) /\ lost' = lost \cup {n} /\ Go(p, Idle)
    BY <1>1, <1>3, <1>5, <2>1, AcceptStep DEF SubmitAnswerLost
  <2> QED  BY <1>1, <1>2, <2>2, Went, IdleFields
<1>6. CASE SubmitNoFunds(p)
  <2>1. PICK c : c = [call[p] EXCEPT !.pc = "count", !.base = errorCount]
    OBVIOUS
  <2>2. Go(p, c) /\ UNCHANGED <<exch, lost>>
    BY <1>6, <2>1 DEF SubmitNoFunds, market
  <2>3. /\ c.pc = "count" /\ c.token = call[p].token /\ c.action = call[p].action
        /\ c.req = call[p].req /\ c.todo = call[p].todo
    BY <1>1, <2>1 DEF Call
  <2> QED  BY <1>1, <1>2, <2>2, <2>3, Went DEF Keeps
<1>7. CASE SubmitRefused(p)
  <2>1. Go(p, Idle) /\ UNCHANGED <<exch, lost>>
    BY <1>7 DEF SubmitRefused, market
  <2> QED  BY <1>1, <1>2, <2>1, Went, IdleFields
<1> QED  BY <1>4, <1>5, <1>6, <1>7 DEF Submit

LEMMA CountRefusalStep ==
  ASSUME IInv, NEW p \in Traders, CountRefusal(p)
  PROVE  /\ call[p].pc = "count" /\ Only(p) /\ UNCHANGED Books
         /\ call'[p].pc = "idle" /\ call'[p].todo = {}
<1>1. call[p].pc = "count" /\ Go(p, Idle) /\ UNCHANGED Books /\ p \in Procs
  BY References DEF CountRefusal, market, Books
<1> QED  BY <1>1, Went, IdleFields

LEMMA StoreSubmittedStep ==
  ASSUME IInv, NEW p \in Traders, StoreSubmitted(p)
  PROVE  /\ call[p].pc = "store" /\ Only(p) /\ UNCHANGED <<position, exch, lost>>
         /\ call'[p].pc = "lookup" /\ Keeps(p) /\ call'[p].row = Len(rows) + 1
         /\ call'[p].ext = call[p].ext /\ call[p].ext \in DOMAIN exch
         /\ \E r \in Row : /\ r.token = call[p].token /\ r.action = call[p].action
                           /\ r.ext = call[p].ext /\ r.status = "submitted" /\ r.fill = 0
                           /\ rows' = Append(rows, r)
<1>1. /\ p \in Procs /\ call[p] \in Call /\ GoodCall(call[p]) /\ call[p].pc = "store"
      /\ UNCHANGED <<position, exch, lost>>
  BY References, CallTyped DEF StoreSubmitted, market, history
<1>2. call[p].token \in Tokens /\ call[p].ext \in DOMAIN exch
  BY <1>1 DEF GoodCall, Holding, Pc
<1>3. PICK r : r = [token |-> call[p].token, action |-> call[p].action, size |-> call[p].size,
                    req |-> call[p].req, ext |-> call[p].ext, resp |-> call[p].resp,
                    status |-> "submitted", fill |-> 0]
  OBVIOUS
<1>4. /\ r \in Row /\ r.token = call[p].token /\ r.action = call[p].action
      /\ r.ext = call[p].ext /\ r.status = "submitted" /\ r.fill = 0
  BY <1>1, <1>2, <1>3 DEF Row, Call, Status
<1>5. rows' = Append(rows, r)
  BY <1>3 DEF StoreSubmitted, SubmittedRow
<1>6. PICK n, c : n = Len(rows) + 1 /\ c = [call[p] EXCEPT !.pc = "lookup", !.row = n]
  OBVIOUS
<1>7. /\ c.pc = "lookup" /\ c.token = call[p].token /\ c.action = call[p].action
      /\ c.req = call[p].req /\ c.todo = call[p].todo /\ c.row = n /\ c.ext = call[p].ext
  BY <1>1, <1>6 DEF Call
<1>8. Go(p, c)
  BY <1>6 DEF StoreSubmitted
<1> QED  BY <1>1, <1>2, <1>4, <1>5, <1>6, <1>7, <1>8, Went DEF Keeps

\* What a lookup makes of an answer: a fill within the request and what was
\* executed of it, and a status that says filled exactly when there is one.
LEMMA LookupStep ==
  ASSUME IInv, NEW p \in Traders, Lookup(p)
  PROVE  /\ call[p].pc = "lookup" /\ Only(p) /\ UNCHANGED Books
         /\ call[p].row \in DOMAIN rows
         /\ call'[p].pc = "update" /\ Keeps(p) /\ call'[p].row = call[p].row
         /\ call'[p].fill \in Nat
         /\ exch[call[p].ext].fill <= call[p].req => call'[p].fill <= call[p].req
         /\ call'[p].status = "filled" <=> call'[p].fill > 0
<1>1. /\ p \in Procs /\ call[p] \in Call /\ GoodCall(call[p]) /\ call[p].pc = "lookup"
      /\ UNCHANGED Books
  BY References, CallTyped DEF Lookup, market, db, history, Books
<1>2. /\ call[p].token \in Tokens /\ call[p].row \in DOMAIN rows /\ call[p].ext \in DOMAIN exch
      /\ call[p].before \in Nat \cup {Absent} /\ call[p].req \in Nat
  BY <1>1 DEF GoodCall, Holding, Pc, Call
<1>3. PICK report, after, payload, shares, kept, status, c :
        /\ report \in LookupReports(call[p].ext)
        /\ after \in SellableBalance(call[p].token)
        /\ payload = ReconcilePayload(report, call[p].resp)
        /\ shares = FillShares(payload, call[p].req, exch[call[p].ext].fill)
        /\ kept = IF call[p].action = "BUY" THEN BalanceCut(call[p].before, after, shares)
                                            ELSE shares
        /\ status = IF shares > 0 /\ kept = 0 THEN "unknown_fill"
                    ELSE ReconcileStatus(payload, kept, "submitted")
        /\ c = [call[p] EXCEPT !.pc = "update", !.fill = kept, !.status = status]
        /\ Go(p, c)
  BY DEF Lookup
<1>4. PICK n \in Nat : n = exch[call[p].ext].fill
  BY <1>2, References
<1>5. shares \in {0, n, call[p].req}
  BY <1>3, <1>4 DEF FillShares
<1>6. after \in Nat \cup {Absent}
  BY <1>2, <1>3 DEF SellableBalance, IInv, TypeOK
<1>7. kept \in Nat /\ kept <= shares /\ shares \in Nat
  BY <1>2, <1>3, <1>5, <1>6, BalanceCutNat
<1>8. n <= call[p].req => kept <= call[p].req
  BY <1>2, <1>5, <1>7
<1>9. report \in Report
  BY <1>3, LookupReportsTyped
<1>10. status = "filled" <=> kept > 0
  <2>1. payload # "filled"
    BY <1>3, <1>9 DEF ReconcilePayload, Report
  <2> QED  BY <1>3, <1>7, <2>1 DEF ReconcileStatus
<1>11. /\ c.pc = "update" /\ c.token = call[p].token /\ c.action = call[p].action
       /\ c.req = call[p].req /\ c.todo = call[p].todo /\ c.row = call[p].row
       /\ c.fill = kept /\ c.status = status
  BY <1>1, <1>3 DEF Call
<1> QED  BY <1>1, <1>2, <1>3, <1>4, <1>7, <1>8, <1>10, <1>11, Went DEF Keeps

\* The row takes on the status and the fill in hand; the others stay.
LEMMA UpdateRowStep ==
  ASSUME IInv, NEW p \in Procs, UpdateRow(p)
  PROVE  /\ call[p].pc = "update" /\ Only(p) /\ UNCHANGED <<position, exch, lost>>
         /\ call[p].row \in DOMAIN rows /\ call[p].fill \in Nat /\ call[p].status \in Status
         /\ \/ /\ call[p].fill > 0 /\ call'[p].pc = "read" /\ Keeps(p)
               /\ call'[p].row = call[p].row /\ call'[p].fill = call[p].fill
            \/ /\ call[p].fill = 0 /\ p \in Traders
               /\ call'[p].pc = "idle" /\ call'[p].todo = {}
            \/ /\ call[p].fill = 0 /\ p \in Reconcilers
               /\ call'[p].pc = "next" /\ call'[p].todo = call[p].todo
         /\ \E r \in Row :
              /\ r.token = rows[call[p].row].token /\ r.action = rows[call[p].row].action
              /\ r.ext = rows[call[p].row].ext
              /\ r.status = call[p].status /\ r.fill = call[p].fill
              /\ rows' = [rows EXCEPT ![call[p].row] = r]
<1>1. /\ p \in Procs /\ call[p] \in Call /\ call[p].pc = "update" /\ rows \in Seq(Row)
      /\ call[p].row \in DOMAIN rows /\ UNCHANGED <<position, exch, lost>>
      /\ p \in Traders \/ (p \in Reconcilers /\ p \notin Traders)
  BY References, CallTyped DEF UpdateRow, market, history, IInv, TypeOK, Procs
<1>2. PICK i, f, s : i = call[p].row /\ f = call[p].fill /\ s = call[p].status
  OBVIOUS
<1>3. f \in Nat /\ s \in Status
  BY <1>1, <1>2 DEF Call
<1>4. PICK r : r = [rows[i] EXCEPT !.status = s, !.fill = f]
  OBVIOUS
<1>5. rows[i] \in Row
  BY <1>1, <1>2
<1>6. /\ r \in Row /\ r.token = rows[i].token /\ r.action = rows[i].action
      /\ r.ext = rows[i].ext /\ r.status = s /\ r.fill = f
  BY <1>3, <1>4, <1>5 DEF Row
<1>7. rows' = [rows EXCEPT ![i] = r]
  BY <1>1, <1>2, <1>4 DEF UpdateRow
<1>8. PICK d : d = [call[p] EXCEPT !.pc = "read"]
  OBVIOUS
<1>9. /\ d.pc = "read" /\ d.token = call[p].token /\ d.action = call[p].action
      /\ d.req = call[p].req /\ d.todo = call[p].todo /\ d.row = i /\ d.fill = f
  BY <1>1, <1>2, <1>8 DEF Call
<1>10. PICK a : a = AfterBooking(p)
  OBVIOUS
<1>11. \/ p \in Traders /\ a.pc = "idle" /\ a.todo = {}
       \/ p \in Reconcilers /\ a.pc = "next" /\ a.todo = call[p].todo
  BY <1>1, <1>10, IdleFields DEF AfterBooking, Idle
<1>12. \/ f > 0 /\ Go(p, d)
       \/ f = 0 /\ Go(p, a)
  BY <1>2, <1>3, <1>8, <1>10 DEF UpdateRow
<1>13. \/ f > 0 /\ call'[p] = d /\ Only(p)
       \/ f = 0 /\ call'[p] = a /\ Only(p)
  BY <1>1, <1>12, Went
<1> QED  BY <1>1, <1>2, <1>3, <1>6, <1>7, <1>9, <1>11, <1>13 DEF Keeps

LEMMA ReadPositionStep ==
  ASSUME IInv, NEW p \in Procs, ReadPosition(p)
  PROVE  /\ call[p].pc = "read" /\ Only(p) /\ UNCHANGED Books
         /\ call'[p].pc = "write" /\ Keeps(p) /\ call'[p].row = call[p].row
         /\ call'[p].fill = call[p].fill /\ call'[p].base = position[call[p].token]
<1>1. PICK c : c = [call[p] EXCEPT !.pc = "write", !.base = position[call[p].token]]
  OBVIOUS
<1>2. call[p] \in Call /\ call[p].pc = "read" /\ Go(p, c) /\ UNCHANGED Books
  BY <1>1, CallTyped DEF ReadPosition, market, db, history, Books
<1>3. /\ c.pc = "write" /\ c.token = call[p].token /\ c.action = call[p].action
      /\ c.req = call[p].req /\ c.todo = call[p].todo /\ c.row = call[p].row
      /\ c.fill = call[p].fill /\ c.base = position[call[p].token]
  BY <1>1, <1>2 DEF Call
<1> QED  BY <1>2, <1>3, Went DEF Keeps

LEMMA WritePositionStep ==
  ASSUME IInv, NEW p \in Procs, WritePosition(p)
  PROVE  /\ call[p].pc = "write" /\ Only(p) /\ UNCHANGED <<rows, exch, lost>>
         /\ \/ p \in Traders /\ call'[p].pc = "idle" /\ call'[p].todo = {}
            \/ p \in Reconcilers /\ call'[p].pc = "next" /\ call'[p].todo = call[p].todo
         /\ position' = [position EXCEPT ![call[p].token] = NewPosition(call[p])]
<1>1. /\ call[p].pc = "write" /\ UNCHANGED <<rows, exch, lost>>
      /\ p \in Traders \/ (p \in Reconcilers /\ p \notin Traders)
      /\ position' = [position EXCEPT ![call[p].token] = NewPosition(call[p])]
  BY DEF WritePosition, market, history, Procs
<1>2. PICK a : a = AfterBooking(p)
  OBVIOUS
<1>3. \/ p \in Traders /\ a.pc = "idle" /\ a.todo = {}
      \/ p \in Reconcilers /\ a.pc = "next" /\ a.todo = call[p].todo
  BY <1>1, <1>2, IdleFields DEF AfterBooking, Idle
<1>4. call'[p] = a /\ Only(p)
  BY <1>2, Went DEF WritePosition
<1> QED  BY <1>1, <1>3, <1>4

LEMMA ReconcileListStep ==
  ASSUME IInv, NEW p \in Reconcilers, ReconcileList(p)
  PROVE  /\ MayStart(p) /\ Only(p) /\ UNCHANGED Books
         /\ call'[p].pc = "next" /\ call'[p].todo = Listed
<1>1. PICK c : c = [Idle EXCEPT !.pc = "next", !.todo = Listed]
  OBVIOUS
<1>2. Go(p, c) /\ MayStart(p) /\ UNCHANGED Books /\ p \in Procs
  BY <1>1, References DEF ReconcileList, market, db, history, Books
<1>3. c.pc = "next" /\ c.todo = Listed
  BY <1>1 DEF Idle
<1> QED  BY <1>2, <1>3, Went

\* The row looked up is struck off the list; an adjustment's row, of no order,
\* comes out with no fill and the status it was listed with.
LEMMA ReconcileLookupStep ==
  ASSUME IInv, NEW p \in Reconcilers, ReconcileLookup(p)
  PROVE  /\ call[p].pc = "next" /\ Only(p) /\ UNCHANGED Books
         /\ call'[p].pc = "update" /\ call'[p].row \in DOMAIN rows
         /\ call'[p].token = rows[call'[p].row].token
         /\ call'[p].action = rows[call'[p].row].action
         /\ call'[p].fill \in Nat
         /\ \E x \in call[p].todo :
              /\ call'[p].row = x.row /\ call'[p].todo = call[p].todo \ {x}
              /\ call'[p].fill > 0 => call'[p].status = "filled"
              /\ call'[p].status = "filled" => call'[p].fill > 0 \/ x.status = "filled"
<1>1. p \in Procs /\ call[p] \in Call /\ GoodCall(call[p]) /\ call[p].pc = "next"
  BY References, CallTyped DEF ReconcileLookup
<1>2. UNCHANGED Books
  BY DEF ReconcileLookup, market, db, history, Books
<1>3. PICK x \in NextListed(p) :
        LET r      == rows[x.row]
            linked == r.ext # 0
            traded == linked /\ exch[r.ext].published /\ exch[r.ext].fill > 0
        IN \E report \in IF linked THEN LookupReports(r.ext) ELSE {"unknown"} :
             LET payload == IF traded THEN "exact" ELSE ReconcilePayload(report, r.resp)
                 default == IF r.action = "SELL" THEN r.req ELSE r.size
                 shares  == FillShares(payload, default, IF linked THEN exch[r.ext].fill ELSE 0)
             IN  Go(p, [Idle EXCEPT !.pc = "update", !.row = x.row, !.token = r.token,
                          !.action = r.action, !.fill = shares,
                          !.status = ReconcileStatus(payload, shares, x.status),
                          !.todo = call[p].todo \ {x}])
  BY DEF ReconcileLookup
<1> DEFINE default == IF rows[x.row].action = "SELL" THEN rows[x.row].req ELSE rows[x.row].size
           filled == IF rows[x.row].ext # 0 THEN exch[rows[x.row].ext].fill ELSE 0
           Struck(payload) ==
             [Idle EXCEPT !.pc = "update", !.row = x.row, !.token = rows[x.row].token,
                !.action = rows[x.row].action, !.fill = FillShares(payload, default, filled),
                !.status = ReconcileStatus(payload, FillShares(payload, default, filled), x.status),
                !.todo = call[p].todo \ {x}]
<1>4. PICK report \in Report :
        \E payload \in {"exact", ReconcilePayload(report, rows[x.row].resp)} : Go(p, Struck(payload))
  BY <1>3, LookupReportsTyped DEF Report
<1>5. PICK payload \in {"exact", ReconcilePayload(report, rows[x.row].resp)} : Go(p, Struck(payload))
  BY <1>4
<1>6. PICK shares, status, c :
        /\ shares = FillShares(payload, default, filled)
        /\ status = ReconcileStatus(payload, shares, x.status)
        /\ c = [Idle EXCEPT !.pc = "update", !.row = x.row, !.token = rows[x.row].token,
                  !.action = rows[x.row].action, !.fill = shares, !.status = status,
                  !.todo = call[p].todo \ {x}]
        /\ Go(p, c)
  BY <1>5
<1>7. x \in call[p].todo /\ x.row \in DOMAIN rows /\ rows[x.row] \in Row
  BY <1>1, <1>3, References DEF NextListed, GoodCall
<1>8. default \in Nat /\ filled \in Nat
  BY <1>7, References DEF Row
<1> HIDE DEF default, filled, Struck
<1>9. shares \in Nat
  BY <1>6, <1>8, FillSharesNat
<1>10. payload # "filled"
  BY <1>5 DEF ReconcilePayload, Report
<1>11. (shares > 0 => status = "filled") /\ (status = "filled" => shares > 0 \/ x.status = "filled")
  BY <1>6, <1>9, <1>10 DEF ReconcileStatus
<1>12. /\ c.pc = "update" /\ c.row = x.row /\ c.token = rows[x.row].token
       /\ c.action = rows[x.row].action /\ c.fill = shares /\ c.status = status
       /\ c.todo = call[p].todo \ {x}
  BY <1>6, IdleTyped DEF Call
<1>13. call'[p] = c /\ Only(p)
  BY <1>1, <1>6, Went
<1> QED  BY <1>1, <1>2, <1>7, <1>9, <1>11, <1>12, <1>13

LEMMA RebuildReadStep ==
  ASSUME IInv, NEW p \in Reconcilers, RebuildRead(p)
  PROVE  /\ call[p].pc = "next" /\ call[p].todo = {} /\ Only(p) /\ UNCHANGED Books
         /\ call'[p].pc = "save" /\ call'[p].todo = {}
         /\ call'[p].saved = [t \in Tokens |-> IF HasFills(t) THEN Replay(t) ELSE Absent]
<1>1. PICK s : s = [t \in Tokens |-> IF HasFills(t) THEN Replay(t) ELSE Absent]
  OBVIOUS
<1>2. PICK c : c = [Idle EXCEPT !.pc = "save", !.saved = s]
  OBVIOUS
<1>3. /\ call[p].pc = "next" /\ call[p].todo = {} /\ Go(p, c) /\ UNCHANGED Books /\ p \in Procs
  BY <1>1, <1>2, References DEF RebuildRead, market, db, history, Books
<1>4. c.pc = "save" /\ c.todo = {} /\ c.saved = s
  BY <1>2 DEF Idle
<1> QED  BY <1>1, <1>3, <1>4, Went

LEMMA RebuildSaveStep ==
  ASSUME IInv, NEW p \in Reconcilers, RebuildSave(p)
  PROVE  /\ call[p].pc = "save" /\ Only(p) /\ UNCHANGED <<rows, exch, lost>>
         /\ call'[p].pc = "idle" /\ call'[p].todo = {}
         /\ position' = [t \in Tokens |-> IF call[p].saved[t] = Absent THEN position[t]
                                                                     ELSE call[p].saved[t]]
<1>1. /\ call[p].pc = "save" /\ Go(p, Idle) /\ UNCHANGED <<rows, exch, lost>> /\ p \in Procs
      /\ position' = [t \in Tokens |-> IF call[p].saved[t] = Absent THEN position[t]
                                                                  ELSE call[p].saved[t]]
  BY References DEF RebuildSave, market, history
<1> QED  BY <1>1, Went, IdleFields

LEMMA FaultStep ==
  ASSUME IInv, NEW p \in Procs, LookupRaises(p) \/ Crash(p)
  PROVE  /\ call[p].pc # "idle" /\ Only(p) /\ UNCHANGED <<rows, position, exch>>
         /\ faults < MaxFaults
         /\ \/ call'[p].pc = "idle" /\ call'[p].todo = {}
            \/ call[p].pc = "next" /\ call'[p].pc = "next" /\ call'[p].todo \subseteq call[p].todo
         /\ \/ lost' = lost
            \/ /\ call[p].pc = "store" /\ lost' = lost \cup {call[p].ext}
               /\ call'[p].pc = "idle"
<1>1. call[p] \in Call /\ UNCHANGED <<rows, position, exch>> /\ faults < MaxFaults
  BY CallTyped DEF LookupRaises, Crash, market, db
<1>2. PICK d : d = [call[p] EXCEPT !.todo = @ \ NextListed(p)]
  OBVIOUS
<1>3. d.pc = call[p].pc /\ d.todo \subseteq call[p].todo
  BY <1>1, <1>2 DEF Call
<1>4. call[p].pc # "idle" /\ (Go(p, Idle) \/ (call[p].pc = "next" /\ Go(p, d)))
  BY <1>2 DEF LookupRaises, Crash
<1>5. \/ lost' = lost
      \/ call[p].pc = "store" /\ lost' = lost \cup {call[p].ext} /\ Go(p, Idle)
  BY DEF LookupRaises, Crash, history
<1>6. Only(p) /\ (call'[p] = Idle \/ (call[p].pc = "next" /\ call'[p] = d))
  BY <1>4, Went
<1>7. lost' = lost \/ (call[p].pc = "store" /\ lost' = lost \cup {call[p].ext} /\ call'[p] = Idle)
  BY <1>5, Went
<1> QED  BY <1>1, <1>3, <1>4, <1>6, <1>7, IdleFields

LEMMA ExchangeStep ==
  ASSUME IInv, Exchange PROVE UNCHANGED <<call, rows, position, lost>> /\ SameFills
                              /\ DOMAIN exch' = DOMAIN exch
<1>1. PICK e \in DOMAIN exch : Settle(e) \/ Publish(e)
  BY DEF Exchange
<1>2. exch \in Seq(ExchOrder) /\ exch[e] \in ExchOrder
  BY References DEF IInv, TypeOK
<1>3. PICK o : /\ exch' = [exch EXCEPT ![e] = o]
               /\ o \in {[exch[e] EXCEPT !.settled = TRUE], [exch[e] EXCEPT !.published = TRUE]}
  BY <1>1, <1>2 DEF Settle, Publish
<1>4. o.fill = exch[e].fill
  BY <1>2, <1>3 DEF ExchOrder
<1>5. SameFills /\ DOMAIN exch' = DOMAIN exch
  BY <1>2, <1>3, <1>4 DEF SameFills
<1>6. UNCHANGED <<call, rows, position, lost>>
  BY <1>1 DEF Settle, Publish, db, history
<1> QED  BY <1>5, <1>6

LEMMA SwitchStep ==
  ASSUME NEW block, NEW file, SetSwitch(block, file) PROVE UNCHANGED <<Books, call>>
  BY DEF SetSwitch, market, Books
-----------------------------------------------------------------------------
(* One handler at a time.  A row that a handler has listed or in hand is    *)
(* then still as it was when it was listed: an order's row is unresolved.   *)

Busy(p) == call[p].pc # "idle"

OneBusy == \A p, q \in Procs : Busy(p) /\ Busy(q) => p = q

Unresolved(i) == rows[i].ext # 0 => rows[i].status \in {"submitted", "unknown_fill"}

\* An order's row says filled only with a fill.
FillsRecorded ==
  \A i \in DOMAIN rows : rows[i].ext # 0 /\ rows[i].status = "filled" => rows[i].fill > 0

\* What a handler knows of the rows on its list and of the row in hand.
Current(p) ==
  /\ call[p].todo # {} => p \in Reconcilers /\ Busy(p)
  /\ \A x \in call[p].todo : rows[x.row].status = x.status /\ Unresolved(x.row)
  /\ call[p].pc \in {"lookup", "update"} =>
       Unresolved(call[p].row) /\ \A x \in call[p].todo : x.row # call[p].row
  /\ call[p].pc = "update" /\ call[p].fill > 0 => call[p].status = "filled"
  /\ call[p].pc = "update" /\ rows[call[p].row].ext # 0 /\ call[p].status = "filled" =>
       call[p].fill > 0

SInv == OneBusy /\ FillsRecorded /\ \A p \in Procs : Current(p)

\* While one handler works the others are idle and list nothing.
LEMMA OthersIdle ==
  ASSUME Serial, IInv, SInv, NEW p \in Procs, Busy(p) \/ MayStart(p), NEW q \in Procs, q # p
  PROVE  call[q].pc = "idle" /\ call[q].todo = {}
<1>1. call[q].pc = "idle"
  BY DEF SInv, OneBusy, Busy, MayStart
<1>2. Current(q)
  BY DEF SInv
<1> QED  BY <1>1, <1>2 DEF Current, Busy

LEMMA SerialMoves ==
  ASSUME Serial, IInv, SInv, NEW p \in Procs, Busy(p) \/ MayStart(p), Only(p),
         Current(p)', FillsRecorded'
  PROVE  SInv'
<1>1. ASSUME NEW q \in Procs, q # p PROVE call'[q].pc = "idle" /\ call'[q].todo = {}
  BY <1>1, OthersIdle DEF Only
<1>2. OneBusy'
  BY <1>1 DEF OneBusy, Busy
<1>3. \A q \in Procs : Current(q)'
  BY <1>1 DEF Current, Busy
<1> QED  BY <1>2, <1>3 DEF SInv

\* A handler that ends up with no row, on the same rows.
LEMMA SerialEmpty ==
  ASSUME Serial, IInv, SInv, NEW p \in Procs, Busy(p) \/ MayStart(p), Only(p),
         call'[p].todo = {}, call'[p].pc \notin {"lookup", "update"}, rows' = rows
  PROVE  SInv'
<1>1. Current(p)'
  BY DEF Current
<1>2. FillsRecorded'
  BY DEF SInv, FillsRecorded
<1> QED  BY <1>1, <1>2, SerialMoves

LEMMA TraderListsNothing ==
  ASSUME SInv, NEW p \in Traders PROVE p \in Procs /\ call[p].todo = {}
<1>1. p \in Procs /\ p \notin Reconcilers
  BY ConstantsOK DEF Procs
<1> QED  BY <1>1 DEF SInv, Current

\* A trader adds a row; one of an order has no fill yet.
LEMMA SerialAppend ==
  ASSUME Serial, IInv, SInv, NEW p \in Traders, Busy(p), Only(p), call'[p].todo = {},
         NEW r \in Row, rows' = Append(rows, r), r.ext # 0 => r.status = "submitted",
         \/ call'[p].pc \notin {"lookup", "update"}
         \/ call'[p].pc = "lookup" /\ call'[p].row = Len(rows) + 1
  PROVE  SInv'
<1>1. PICK n : n = Len(rows) + 1
  OBVIOUS
<1>2. /\ DOMAIN rows' = DOMAIN rows \cup {n} /\ n \notin DOMAIN rows
      /\ rows'[n] = r /\ \A i \in DOMAIN rows : rows'[i] = rows[i]
  BY <1>1, RowsAppended
<1>3. FillsRecorded'
  BY <1>2 DEF SInv, FillsRecorded
<1>4. Unresolved(n)'
  BY <1>2 DEF Unresolved
<1>5. Current(p)'
  BY <1>1, <1>4 DEF Current
<1>6. p \in Procs
  BY TraderListsNothing
<1> QED  BY <1>3, <1>5, <1>6, SerialMoves

LEMMA TraderSerial ==
  ASSUME Serial, IInv, SInv, NEW p \in Traders, TraderStart(p) \/ TraderStep(p) PROVE SInv'
<1>1. p \in Procs /\ call[p].todo = {}
  BY TraderListsNothing
<1>2. CASE \E t \in Tokens, q \in Quotes : BuyAdmit(p, t, q)
  <2>1. PICK t \in Tokens, q \in Quotes : BuyAdmit(p, t, q)
    BY <1>2
  <2> QED  BY <1>1, <2>1, BuyAdmitStep, SerialEmpty DEF Books
<1>3. CASE \E t \in Tokens : SellAdmit(p, t)
  <2>1. PICK t \in Tokens : SellAdmit(p, t)
    BY <1>3
  <2> QED  BY <1>1, <2>1, SellAdmitStep, SerialEmpty DEF Books
<1>4. CASE BuyBalanceBefore(p)
  BY <1>1, <1>4, BuyBalanceBeforeStep, SerialEmpty DEF Busy, Books, Keeps
<1>5. CASE SellBalance(p)
  BY <1>1, <1>5, SellBalanceStep, SerialEmpty DEF Busy, Books
<1>6. CASE AdjustPosition(p)
  BY <1>1, <1>6, AdjustPositionStep, SerialEmpty DEF Busy, Keeps
<1>7. CASE Submit(p)
  BY <1>1, <1>7, SubmitStep, SerialEmpty DEF Busy, Keeps
<1>8. CASE CountRefusal(p)
  BY <1>1, <1>8, CountRefusalStep, SerialEmpty DEF Busy, Books
<1>9. CASE AdjustRow(p)
  BY <1>1, <1>9, AdjustRowStep, SerialAppend DEF Busy, Keeps
<1>10. CASE StoreSubmitted(p)
  BY <1>1, <1>10, StoreSubmittedStep, SerialAppend DEF Busy, Keeps
<1>11. CASE Lookup(p)
  <2>1. /\ call[p].pc = "lookup" /\ Only(p) /\ UNCHANGED Books
        /\ call'[p].pc = "update" /\ call'[p].todo = {} /\ call'[p].row = call[p].row
        /\ call'[p].fill \in Nat /\ (call'[p].status = "filled" <=> call'[p].fill > 0)
    BY <1>1, <1>11, LookupStep DEF Keeps
  <2>2. Current(p) /\ FillsRecorded
    BY <1>1 DEF SInv
  <2>3. Unresolved(call[p].row)' /\ FillsRecorded'
    BY <2>1, <2>2 DEF Current, Unresolved, FillsRecorded, Books
  <2>4. Current(p)'
    BY <2>1, <2>3 DEF Current
  <2> QED  BY <1>1, <2>1, <2>3, <2>4, SerialMoves DEF Busy
<1> QED
  BY <1>2, <1>3, <1>4, <1>5, <1>6, <1>7, <1>8, <1>9, <1>10, <1>11 DEF TraderStart, TraderStep

\* The row written is off the list, so what the list says still holds.
LEMMA BookingSerial ==
  ASSUME Serial, IInv, SInv, NEW p \in Procs, Booking(p) PROVE SInv'
<1>1. Current(p) /\ FillsRecorded
  BY DEF SInv
<1>2. CASE UpdateRow(p)
  <2>1. PICK i : i = call[p].row
    OBVIOUS
  <2>2. /\ call[p].pc = "update" /\ Only(p) /\ i \in DOMAIN rows /\ call[p].fill \in Nat
        /\ call'[p].pc \notin {"lookup", "update"}
        /\ call'[p].todo = call[p].todo \/ call'[p].todo = {}
        /\ call'[p].pc = "idle" => call'[p].todo = {}
    BY <1>2, <2>1, UpdateRowStep DEF Keeps
  <2>3. PICK r \in Row : /\ r.ext = rows[i].ext /\ r.status = call[p].status
                         /\ r.fill = call[p].fill /\ rows' = [rows EXCEPT ![i] = r]
    BY <1>2, <2>1, UpdateRowStep
  <2>4. /\ DOMAIN rows' = DOMAIN rows /\ rows'[i] = r
        /\ \A j \in DOMAIN rows : j # i => rows'[j] = rows[j]
    BY <2>2, <2>3 DEF IInv, TypeOK
  <2>5. FillsRecorded'
    BY <1>1, <2>1, <2>2, <2>3, <2>4 DEF FillsRecorded, Current
  <2>6. \A x \in call[p].todo : x.row \in DOMAIN rows /\ x.row # i
    BY <1>1, <2>1, <2>2, CallTyped DEF Current, GoodCall
  <2>7. Current(p)'
    BY <1>1, <2>2, <2>4, <2>6 DEF Current, Busy, Unresolved
  <2> QED  BY <2>2, <2>5, <2>7, SerialMoves DEF Busy
<1>3. CASE ReadPosition(p)
  <2>1. Current(p)' /\ FillsRecorded'
    BY <1>1, <1>3, ReadPositionStep DEF Current, FillsRecorded, Unresolved, Busy, Keeps, Books
  <2> QED  BY <1>3, <2>1, ReadPositionStep, SerialMoves DEF Busy
<1>4. CASE WritePosition(p)
  <2>1. Current(p)' /\ FillsRecorded'
    BY <1>1, <1>4, WritePositionStep DEF Current, FillsRecorded, Unresolved, Busy
  <2> QED  BY <1>4, <2>1, WritePositionStep, SerialMoves DEF Busy
<1> QED  BY <1>2, <1>3, <1>4 DEF Booking

LEMMA ReconcilerSerial ==
  ASSUME Serial, IInv, SInv, NEW p \in Reconcilers, ReconcileList(p) \/ ReconcilerStep(p)
  PROVE  SInv'
<1>1. p \in Procs /\ Current(p) /\ FillsRecorded
  BY References DEF SInv
<1>2. CASE ReconcileList(p)
  <2>1. MayStart(p) /\ Only(p) /\ rows' = rows /\ call'[p].pc = "next" /\ call'[p].todo = Listed
    BY <1>2, ReconcileListStep DEF Books
  <2>2. \A x \in Listed : rows[x.row].status = x.status /\ Unresolved(x.row)
    <3> SUFFICES ASSUME NEW x \in Listed PROVE rows[x.row].status = x.status /\ Unresolved(x.row)
      OBVIOUS
    <3>1. PICK i \in DOMAIN rows : ForReconcile(rows[i]) /\ x = [row |-> i, status |-> rows[i].status]
      BY DEF Listed
    <3>2. rows[i].fill \in Nat
      BY References DEF Row
    <3> QED  BY <1>1, <3>1, <3>2 DEF FillsRecorded, ForReconcile, Unresolved
  <2>3. Current(p)' /\ FillsRecorded'
    BY <1>1, <2>1, <2>2 DEF Current, Busy, Unresolved, FillsRecorded
  <2> QED  BY <1>1, <2>1, <2>3, SerialMoves
<1>3. CASE ReconcileLookup(p)
  <2>1. /\ call[p].pc = "next" /\ Only(p) /\ rows' = rows
        /\ call'[p].pc = "update" /\ call'[p].fill \in Nat
    BY <1>3, ReconcileLookupStep DEF Books
  <2>2. PICK x \in call[p].todo :
          /\ call'[p].row = x.row /\ call'[p].todo = call[p].todo \ {x}
          /\ call'[p].fill > 0 => call'[p].status = "filled"
          /\ call'[p].status = "filled" => call'[p].fill > 0 \/ x.status = "filled"
    BY <1>3, ReconcileLookupStep
  <2>3. rows[x.row].status = x.status /\ Unresolved(x.row)
    BY <1>1 DEF Current
  <2>4. \A y \in call[p].todo \ {x} : y.row # x.row
    <3>1. \A y \in call[p].todo : y \in [row : Nat, status : Status]
      BY <1>1, CallTyped DEF Call
    <3> QED  BY <1>1, <3>1 DEF Current
  <2>5. FillsRecorded'
    BY <1>1, <2>1 DEF FillsRecorded
  <2>6. Current(p)'
    BY <1>1, <2>1, <2>2, <2>3, <2>4 DEF Current, Busy, Unresolved
  <2> QED  BY <1>1, <2>1, <2>5, <2>6, SerialMoves DEF Busy
<1>4. CASE RebuildRead(p)
  BY <1>1, <1>4, RebuildReadStep, SerialEmpty DEF Busy, Books
<1>5. CASE RebuildSave(p)
  BY <1>1, <1>5, RebuildSaveStep, SerialEmpty DEF Busy
<1> QED  BY <1>2, <1>3, <1>4, <1>5 DEF ReconcilerStep

LEMMA FaultSerial ==
  ASSUME Serial, IInv, SInv, NEW p \in Procs, LookupRaises(p) \/ Crash(p) PROVE SInv'
<1>1. Current(p) /\ FillsRecorded
  BY DEF SInv
<1>2. Busy(p) /\ Only(p) /\ rows' = rows
  BY FaultStep DEF Busy
<1>3. CASE call'[p].pc = "idle" /\ call'[p].todo = {}
  BY <1>2, <1>3, SerialEmpty
<1>4. CASE call[p].pc = "next" /\ call'[p].pc = "next" /\ call'[p].todo \subseteq call[p].todo
  <2>1. Current(p)' /\ FillsRecorded'
    BY <1>1, <1>2, <1>4 DEF Current, FillsRecorded, Unresolved, Busy
  <2> QED  BY <1>2, <2>1, SerialMoves
<1> QED  BY <1>3, <1>4, FaultStep

\* Nobody moves.
LEMMA SerialStays ==
  ASSUME SInv, UNCHANGED <<call, rows>> PROVE SInv'
  BY DEF SInv, OneBusy, Busy, FillsRecorded, Current, Unresolved

LEMMA NextSerial == ASSUME Serial PROVE IInv /\ SInv /\ [Next]_vars => SInv'
<1> SUFFICES ASSUME IInv, SInv, [Next]_vars PROVE SInv'
  OBVIOUS
<1>1. CASE \E p \in Traders : TraderStart(p) \/ TraderStep(p)
  BY <1>1, TraderSerial
<1>2. CASE \E p \in Reconcilers : ReconcileList(p) \/ ReconcilerStep(p)
  BY <1>2, ReconcilerSerial
<1>3. CASE \E p \in Procs : Booking(p) \/ LookupRaises(p) \/ Crash(p)
  BY <1>3, BookingSerial, FaultSerial
<1>4. CASE Exchange
  BY <1>4, ExchangeStep, SerialStays
<1>5. CASE (\E block, file \in BOOLEAN : SetSwitch(block, file)) \/ UNCHANGED vars
  <2>1. UNCHANGED <<call, rows>>
    BY <1>5, SwitchStep DEF vars, db, Books
  <2> QED  BY <2>1, SerialStays
<1> QED  BY <1>1, <1>2, <1>3, <1>4, <1>5 DEF Next

LEMMA InitSerial == Init => SInv
<1> SUFFICES ASSUME Init PROVE SInv
  OBVIOUS
<1>1. \A p \in Procs : call[p].pc = "idle" /\ call[p].todo = {}
  BY IdleFields DEF Init
<1>2. DOMAIN rows = {}
  BY DEF Init
<1> QED  BY <1>1, <1>2 DEF SInv, OneBusy, Busy, FillsRecorded, Current
-----------------------------------------------------------------------------
(* Recorded fills                                                          *)

\* A step leaves the rows, adds one, or is a handler's update of one.
LEMMA RowsStep ==
  ASSUME IInv, [Next]_vars
  PROVE  \/ rows' = rows
         \/ \E r \in Row : rows' = Append(rows, r)
         \/ \E p \in Procs : UpdateRow(p)
<1>1. CASE \E p \in Traders : TraderStart(p) \/ TraderStep(p)
  <2>1. PICK p \in Traders : TraderStart(p) \/ TraderStep(p)
    BY <1>1
  <2>2. CASE AdjustRow(p)
    BY <2>2, AdjustRowStep
  <2>3. CASE StoreSubmitted(p)
    BY <2>3, StoreSubmittedStep
  <2>4. CASE Submit(p)
    BY <2>4, SubmitStep
  <2>5. CASE AdjustPosition(p) \/ CountRefusal(p)
    BY <2>5 DEF AdjustPosition, CountRefusal
  <2> QED  BY <2>1, <2>2, <2>3, <2>4, <2>5
           DEF TraderStart, TraderStep, BuyAdmit, SellAdmit, BuyBalanceBefore, SellBalance,
               Lookup, db
<1>2. CASE \E p \in Reconcilers : ReconcileList(p) \/ ReconcilerStep(p)
  BY <1>2 DEF ReconcileList, ReconcilerStep, ReconcileLookup, RebuildRead, RebuildSave, db
<1>3. CASE \E p \in Procs : Booking(p) \/ LookupRaises(p) \/ Crash(p)
  BY <1>3 DEF Booking, ReadPosition, WritePosition, LookupRaises, Crash, db
<1>4. CASE Exchange \/ UNCHANGED vars \/ \E block, file \in BOOLEAN : SetSwitch(block, file)
  BY <1>4 DEF Exchange, Settle, Publish, SetSwitch, vars, db
<1> QED  BY <1>1, <1>2, <1>3, <1>4 DEF Next

\* A handler updates a row that was listed or added unresolved.
LEMMA FillsStayStep ==
  ASSUME IInv, SInv, [Next]_vars,
         NEW i \in DOMAIN rows, rows[i].ext # 0, rows[i].status = "filled"
  PROVE  rows'[i] = rows[i]
<1>1. CASE \E r \in Row : rows' = Append(rows, r)
  BY <1>1, RowsAppended
<1>2. CASE \E p \in Procs : UpdateRow(p)
  <2>1. PICK p \in Procs : UpdateRow(p)
    BY <1>2
  <2>2. Current(p) /\ call[p].pc = "update" /\ call[p].row \in DOMAIN rows
    BY <2>1, UpdateRowStep DEF SInv
  <2>3. PICK r \in Row : rows' = [rows EXCEPT ![call[p].row] = r]
    BY <2>1, UpdateRowStep
  <2>4. call[p].row # i
    BY <2>2 DEF Current, Unresolved
  <2> QED  BY <2>3, <2>4
<1> QED  BY <1>1, <1>2, RowsStep

\* While handlers do not overlap, a fill that a live_orders row records is
\* never revised: neither the trader's own update nor live-reconcile or the
\* dashboard, nor any of them after a crash or a failed lookup, writes a row of
\* an order whose fill is known (live.py 697-760, 1081-1160).
THEOREM RecordedFillsStay == ASSUME Serial PROVE Spec => FillsStay
<1>1. IInv /\ SInv /\ [Next]_vars =>
        [\A i \in DOMAIN rows :
           rows[i].ext # 0 /\ rows[i].status = "filled" => rows'[i] = rows[i]]_vars
  BY FillsStayStep
<1> QED
  BY <1>1, InitInv, NextInv, InitSerial, NextSerial, PTL DEF Spec, FillsStay
-----------------------------------------------------------------------------
(* The life of an order.  Stages and Shares are the abstract state that a   *)
(* state of LiveExecution stands for.                                       *)

Stages == [e \in 1..MaxOrders |-> OrderStage(e)]
Shares == [e \in 1..MaxOrders |-> BookedShares(e)]

TheRow(e) == CHOOSE i \in RowsOf(e) : TRUE

LEMMA BookedOf ==
  ASSUME NEW e
  PROVE  BookedShares(e) = IF OrderStage(e) = "resolved" THEN rows[TheRow(e)].fill ELSE 0
  BY Zenon DEF BookedShares, TheRow

\* The stage and the amount follow from the order's entry, row and history.
LEMMA StageOf ==
  ASSUME IInv, NEW e
  PROVE  /\ e \notin DOMAIN exch => OrderStage(e) = "new" /\ BookedShares(e) = 0
         /\ e \in DOMAIN exch /\ e \in lost => OrderStage(e) = "orphan" /\ BookedShares(e) = 0
         /\ e \in DOMAIN exch \ lost /\ ~HasRow(e) =>
              OrderStage(e) = "placed" /\ BookedShares(e) = 0
<1>1. ~HasRow(e) => RowsOf(e) = {}
  BY DEF HasRow, RowsOf
<1> QED  BY <1>1 DEF OrderStage, BookedShares

LEMMA StageOfRow ==
  ASSUME IInv, NEW i \in DOMAIN rows, rows[i].ext # 0
  PROVE  LET e == rows[i].ext
         IN  /\ RowsOf(e) = {i} /\ e \in DOMAIN exch \ lost
             /\ rows[i].status \in {"submitted", "unknown_fill"} =>
                  OrderStage(e) = "tracked" /\ BookedShares(e) = 0
             /\ rows[i].status = "filled" =>
                  OrderStage(e) = "resolved" /\ BookedShares(e) = rows[i].fill
             /\ rows[i].status \in {"open", "unmatched"} =>
                  OrderStage(e) = "dropped" /\ BookedShares(e) = 0
<1>1. PICK e : e = rows[i].ext
  OBVIOUS
<1>2. e \in DOMAIN exch \ lost /\ \A j \in DOMAIN rows : rows[j].ext = e => j = i
  BY <1>1 DEF IInv, OrdersOK
<1>3. RowsOf(e) = {i}
  BY <1>1, <1>2 DEF RowsOf
<1>4. TheRow(e) = i
  BY <1>3 DEF TheRow
<1>5. OrderStage(e) = CASE rows[i].status \in {"submitted", "unknown_fill"} -> "tracked"
                        [] rows[i].status = "filled" -> "resolved"
                        [] OTHER -> "dropped"
  BY <1>2, <1>3, <1>4 DEF OrderStage, TheRow
<1>6. BookedShares(e) = IF OrderStage(e) = "resolved" THEN rows[i].fill ELSE 0
  BY <1>4, BookedOf
<1> QED  BY <1>1, <1>2, <1>3, <1>5, <1>6

\* An order whose entry, row and history a step leaves alone stays where it is.
StaysPut(e) ==
  /\ e \in DOMAIN exch' <=> e \in DOMAIN exch
  /\ e \in lost' <=> e \in lost
  /\ RowsOf(e)' = RowsOf(e) /\ \A i \in RowsOf(e) : rows'[i] = rows[i]

LEMMA StagePut ==
  ASSUME NEW e, StaysPut(e)
  PROVE  OrderStage(e)' = OrderStage(e) /\ BookedShares(e)' = BookedShares(e)
<1>1. TheRow(e)' = TheRow(e)
  BY DEF StaysPut, TheRow
<1>2. RowsOf(e) # {} => TheRow(e) \in RowsOf(e)
  BY DEF TheRow
<1>3. RowsOf(e) # {} => rows'[TheRow(e)] = rows[TheRow(e)]
  BY <1>2 DEF StaysPut
<1>4. OrderStage(e)' = OrderStage(e)
  BY <1>1, <1>3 DEF OrderStage, StaysPut, TheRow
<1>5. OrderStage(e) = "resolved" => RowsOf(e) # {}
  BY DEF OrderStage
<1>6. BookedShares(e)' = IF OrderStage(e)' = "resolved" THEN rows'[TheRow(e)'].fill ELSE 0
  BY Zenon DEF BookedShares, TheRow
<1>7. BookedShares(e) = IF OrderStage(e) = "resolved" THEN rows[TheRow(e)].fill ELSE 0
  BY BookedOf
<1> QED  BY <1>1, <1>3, <1>4, <1>5, <1>6, <1>7

LifeStep == Lifecycle!Next \/ UNCHANGED <<Stages, Shares>>

LEMMA AllPut == ASSUME \A e \in 1..MaxOrders : StaysPut(e) PROVE LifeStep
<1>1. \A e \in 1..MaxOrders : OrderStage(e)' = OrderStage(e) /\ BookedShares(e)' = BookedShares(e)
  BY StagePut
<1> QED  BY <1>1 DEF LifeStep, Stages, Shares

\* The moves that the abstract specification allows one order.
LEMMA OneMoves ==
  ASSUME NEW o, \A e \in 1..MaxOrders : e # o => StaysPut(e),
         \/ /\ <<OrderStage(o), OrderStage(o)'>> \in
                 {<<"new", "placed">>, <<"new", "orphan">>, <<"placed", "tracked">>,
                  <<"placed", "orphan">>, <<"tracked", "dropped">>, <<"tracked", "tracked">>}
            /\ BookedShares(o)' = BookedShares(o)
         \/ /\ OrderStage(o) = "tracked" /\ OrderStage(o)' = "resolved"
            /\ BookedShares(o)' \in Nat \ {0}
  PROVE  LifeStep
<1>1. \A e \in 1..MaxOrders : e # o => /\ OrderStage(e)' = OrderStage(e)
                                       /\ BookedShares(e)' = BookedShares(e)
  BY StagePut
<1>2. CASE o \notin 1..MaxOrders
  BY <1>1, <1>2 DEF LifeStep, Stages, Shares
<1>3. ASSUME o \in 1..MaxOrders
      PROVE  /\ Stages' = [Stages EXCEPT ![o] = OrderStage(o)'] /\ Stages[o] = OrderStage(o)
             /\ Shares' = [Shares EXCEPT ![o] = BookedShares(o)']
             /\ Shares'[o] = BookedShares(o)'
             /\ BookedShares(o)' = BookedShares(o) => Shares' = Shares
             /\ OrderStage(o)' = OrderStage(o) => Stages' = Stages
  BY <1>1, <1>3 DEF Stages, Shares
<1>4. CASE o \in 1..MaxOrders
  <2>1. CASE OrderStage(o)' = OrderStage(o) /\ BookedShares(o)' = BookedShares(o)
    BY <1>3, <1>4, <2>1 DEF LifeStep
  <2>2. CASE OrderStage(o) = "tracked" /\ OrderStage(o)' = "resolved" /\ BookedShares(o)' \in Nat \ {0}
    <3>1. Lifecycle!Resolve(o)
      BY <1>3, <1>4, <2>2 DEF Lifecycle!Resolve, Lifecycle!Move, Stages, Shares
    <3> QED  BY <1>4, <3>1 DEF LifeStep, Lifecycle!Next
  <2>3. CASE /\ <<OrderStage(o), OrderStage(o)'>> \in
                  {<<"new", "placed">>, <<"new", "orphan">>, <<"placed", "tracked">>,
                   <<"placed", "orphan">>, <<"tracked", "dropped">>}
             /\ BookedShares(o)' = BookedShares(o)
    <3>1. Lifecycle!Place(o) \/ Lifecycle!Track(o) \/ Lifecycle!Orphan(o) \/ Lifecycle!Drop(o)
      BY <1>3, <1>4, <2>3
      DEF Lifecycle!Place, Lifecycle!Track, Lifecycle!Orphan, Lifecycle!Drop, Lifecycle!Move,
          Stages, Shares
    <3> QED  BY <1>4, <3>1 DEF LifeStep, Lifecycle!Next
  <2> QED  BY <2>1, <2>2, <2>3
<1> QED  BY <1>2, <1>4

\* Steps that only move handlers, positions and settings.
LEMMA LifeSame ==
  ASSUME rows' = rows, lost' = lost, DOMAIN exch' = DOMAIN exch PROVE LifeStep
<1>1. \A e \in 1..MaxOrders : StaysPut(e)
  BY DEF StaysPut, RowsOf
<1> QED  BY <1>1, AllPut

\* The exchange accepts an order: it is placed, or lost at once.
LEMMA LifeSubmit ==
  ASSUME IInv, IInv', NEW p \in Traders, Submit(p) PROVE LifeStep
<1>1. rows' = rows
  BY SubmitStep
<1>2. PICK n : \/ Accepted(n, call[p].req) /\ (lost' = lost \/ lost' = lost \cup {n})
               \/ UNCHANGED <<exch, lost>>
  BY SubmitStep
<1>3. CASE UNCHANGED <<exch, lost>>
  BY <1>1, <1>3, LifeSame
<1>4. CASE Accepted(n, call[p].req) /\ (lost' = lost \/ lost' = lost \cup {n})
  <2>1. /\ DOMAIN exch' = DOMAIN exch \cup {n} /\ n \notin DOMAIN exch /\ n # 0
        /\ n \notin lost /\ ~HasRow(n)
    BY <1>4 DEF Accepted, IInv, OrdersOK, HasRow
  <2>2. \A e : e # n => StaysPut(e)
    BY <1>1, <1>4, <2>1 DEF StaysPut, RowsOf
  <2>3. OrderStage(n) = "new" /\ BookedShares(n) = 0
    BY <2>1, StageOf
  <2>4. RowsOf(n)' = {}
    BY <1>1, <2>1 DEF HasRow, RowsOf
  <2>5. OrderStage(n)' \in {"placed", "orphan"}
    BY <1>4, <2>1, <2>4 DEF OrderStage
  <2>6. BookedShares(n)' = 0
    BY <2>5 DEF BookedShares
  <2> QED  BY <2>2, <2>3, <2>5, <2>6, OneMoves
<1> QED  BY <1>2, <1>3, <1>4

\* The row of an order is stored: the order is tracked.  The row of a balance
\* adjustment belongs to no order.
LEMMA LifeAppend ==
  ASSUME IInv, NEW r \in Row, rows' = Append(rows, r), UNCHANGED <<exch, lost>>,
         r.ext # 0 => /\ r.status = "submitted" /\ r.ext \in DOMAIN exch \ lost
                      /\ ~HasRow(r.ext)
  PROVE  LifeStep
<1>1. PICK n : n = Len(rows) + 1
  OBVIOUS
<1>2. /\ DOMAIN rows' = DOMAIN rows \cup {n} /\ n \notin DOMAIN rows
      /\ rows'[n] = r /\ \A i \in DOMAIN rows : rows'[i] = rows[i]
  BY <1>1, RowsAppended
<1>3. \A e \in 1..MaxOrders : e # r.ext => StaysPut(e)
  BY <1>2 DEF StaysPut, RowsOf
<1>4. CASE r.ext = 0
  BY <1>3, <1>4, AllPut
<1>5. CASE r.ext # 0
  <2>1. OrderStage(r.ext) = "placed" /\ BookedShares(r.ext) = 0
    BY <1>5, StageOf
  <2>2. RowsOf(r.ext)' = {n}
    BY <1>2, <1>5 DEF RowsOf, HasRow
  <2>3. OrderStage(r.ext)' = "tracked"
    BY <1>2, <1>5, <2>2 DEF OrderStage
  <2>4. BookedShares(r.ext)' = 0
    BY <2>3 DEF BookedShares
  <2> QED  BY <1>3, <2>1, <2>3, <2>4, OneMoves
<1> QED  BY <1>4, <1>5

\* An update resolves a tracked order, drops it or leaves it tracked.
LEMMA LifeUpdate ==
  ASSUME Serial, IInv, SInv, IInv', NEW p \in Procs, UpdateRow(p) PROVE LifeStep
<1>1. PICK i : i = call[p].row
  OBVIOUS
<1>2. /\ i \in DOMAIN rows /\ call[p].pc = "update" /\ UNCHANGED <<exch, lost>> /\ Current(p)
      /\ call[p].fill \in Nat /\ call[p].status \in Status
  BY <1>1, UpdateRowStep DEF SInv
<1>3. PICK r \in Row : /\ r.ext = rows[i].ext /\ r.status = call[p].status
                       /\ r.fill = call[p].fill /\ rows' = [rows EXCEPT ![i] = r]
  BY <1>1, UpdateRowStep
<1>4. /\ DOMAIN rows' = DOMAIN rows /\ rows'[i] = r
      /\ \A j \in DOMAIN rows : j # i => rows'[j] = rows[j]
  BY <1>2, <1>3 DEF IInv, TypeOK
<1>5. \A e \in 1..MaxOrders : e # r.ext => StaysPut(e)
  BY <1>2, <1>3, <1>4 DEF StaysPut, RowsOf
<1>6. CASE r.ext = 0
  BY <1>5, <1>6, AllPut
<1>7. CASE r.ext # 0
  <2>1. rows[i].status \in {"submitted", "unknown_fill"}
    BY <1>1, <1>2, <1>3, <1>7 DEF Current, Unresolved
  <2>2. OrderStage(r.ext) = "tracked" /\ BookedShares(r.ext) = 0 /\ RowsOf(r.ext) = {i}
        /\ r.ext \in DOMAIN exch \ lost
    BY <1>2, <1>3, <1>7, <2>1, StageOfRow
  <2>3. RowsOf(r.ext)' = {i}
    BY <1>3, <1>4, <2>2 DEF RowsOf
  <2>4. TheRow(r.ext)' = i
    BY <2>3 DEF TheRow
  <2>5. OrderStage(r.ext)' = CASE r.status \in {"submitted", "unknown_fill"} -> "tracked"
                               [] r.status = "filled" -> "resolved"
                               [] OTHER -> "dropped"
    BY <1>2, <1>4, <2>2, <2>3, <2>4 DEF OrderStage, TheRow
  <2>6. BookedShares(r.ext)' = IF OrderStage(r.ext)' = "resolved"
                               THEN rows'[TheRow(r.ext)'].fill ELSE 0
    BY Zenon DEF BookedShares, TheRow
  <2>7. r.status = "filled" => r.fill \in Nat \ {0}
    BY <1>1, <1>2, <1>3, <1>7 DEF Current
  <2>8. CASE r.status = "filled"
    <3>1. OrderStage(r.ext)' = "resolved" /\ BookedShares(r.ext)' \in Nat \ {0}
      BY <1>4, <2>4, <2>5, <2>6, <2>7, <2>8
    <3> QED  BY <1>5, <2>2, <3>1, OneMoves
  <2>9. CASE r.status # "filled"
    <3>1. OrderStage(r.ext)' \in {"tracked", "dropped"} /\ BookedShares(r.ext)' = 0
      BY <2>5, <2>6, <2>9
    <3> QED  BY <1>5, <2>2, <3>1, OneMoves
  <2> QED  BY <2>8, <2>9
<1> QED  BY <1>6, <1>7

\* A crash between the answer and the row orphans the order.
LEMMA LifeFault ==
  ASSUME IInv, NEW p \in Procs, LookupRaises(p) \/ Crash(p) PROVE LifeStep
<1>1. UNCHANGED <<rows, exch>>
  BY FaultStep
<1>2. CASE lost' = lost
  BY <1>1, <1>2, LifeSame
<1>3. CASE call[p].pc = "store" /\ lost' = lost \cup {call[p].ext}
  <2>1. PICK e : e = call[p].ext
    OBVIOUS
  <2>2. e \in DOMAIN exch /\ InHand(p, e)
    BY <1>3, <2>1, CallTyped DEF GoodCall, InHand
  <2>3. e \notin lost /\ ~HasRow(e)
    BY <2>2 DEF IInv, OrdersOK
  <2>4. OrderStage(e) = "placed" /\ BookedShares(e) = 0
    BY <2>2, <2>3, StageOf
  <2>5. OrderStage(e)' = "orphan"
    BY <1>1, <1>3, <2>1, <2>2 DEF OrderStage
  <2>6. BookedShares(e)' = 0
    BY <2>5 DEF BookedShares
  <2>7. \A d : d # e => StaysPut(d)
    BY <1>1, <1>3, <2>1 DEF StaysPut, RowsOf
  <2> QED  BY <2>4, <2>5, <2>6, <2>7, OneMoves
<1> QED  BY <1>2, <1>3, FaultStep

LEMMA NextLife ==
  ASSUME Serial, IInv, SInv, IInv', [Next]_vars PROVE LifeStep
<1>1. CASE \E p \in Traders : TraderStart(p) \/ TraderStep(p)
  <2>1. PICK p \in Traders : TraderStart(p) \/ TraderStep(p)
    BY <1>1
  <2>2. CASE Submit(p)
    BY <2>2, LifeSubmit
  <2>3. CASE AdjustRow(p)
    BY <2>3, AdjustRowStep, LifeAppend
  <2>4. CASE StoreSubmitted(p)
    <3>1. PICK e : e = call[p].ext
      OBVIOUS
    <3>2. e \in DOMAIN exch /\ InHand(p, e) /\ UNCHANGED <<exch, lost>> /\ p \in Procs
      BY <2>4, <3>1, StoreSubmittedStep, References DEF InHand
    <3>3. e \notin lost /\ ~HasRow(e)
      BY <3>2 DEF IInv, OrdersOK
    <3>4. PICK r \in Row : r.ext = e /\ r.status = "submitted" /\ rows' = Append(rows, r)
      BY <2>4, <3>1, StoreSubmittedStep
    <3> QED  BY <3>2, <3>3, <3>4, LifeAppend
  <2>5. CASE AdjustPosition(p) \/ CountRefusal(p)
    BY <2>5, AdjustPositionStep, CountRefusalStep, LifeSame DEF Books
  <2>6. CASE TraderStart(p) \/ BuyBalanceBefore(p) \/ SellBalance(p) \/ Lookup(p)
    <3>1. UNCHANGED <<rows, exch, lost>>
      BY <2>6 DEF TraderStart, BuyAdmit, SellAdmit, BuyBalanceBefore, SellBalance, Lookup,
                  market, db, history
    <3> QED  BY <3>1, LifeSame
  <2> QED  BY <2>1, <2>2, <2>3, <2>4, <2>5, <2>6 DEF TraderStep
<1>2. CASE \E p \in Reconcilers : ReconcileList(p) \/ ReconcilerStep(p)
  <2>1. UNCHANGED <<rows, exch, lost>>
    BY <1>2 DEF ReconcileList, ReconcilerStep, ReconcileLookup, RebuildRead, RebuildSave,
                market, db, history
  <2> QED  BY <2>1, LifeSame
<1>3. CASE \E p \in Procs : Booking(p) \/ LookupRaises(p) \/ Crash(p)
  <2>1. PICK p \in Procs : Booking(p) \/ LookupRaises(p) \/ Crash(p)
    BY <1>3
  <2>2. CASE UpdateRow(p)
    BY <2>2, LifeUpdate
  <2>3. CASE ReadPosition(p) \/ WritePosition(p)
    BY <2>3, ReadPositionStep, WritePositionStep, LifeSame DEF Books
  <2> QED  BY <2>1, <2>2, <2>3, LifeFault DEF Booking
<1>4. CASE Exchange
  BY <1>4, ExchangeStep, LifeSame
<1>5. CASE (\E block, file \in BOOLEAN : SetSwitch(block, file)) \/ UNCHANGED vars
  <2>1. UNCHANGED <<rows, exch, lost>>
    BY <1>5, SwitchStep DEF vars, db, market, history, Books
  <2> QED  BY <2>1, LifeSame
<1> QED  BY <1>1, <1>2, <1>3, <1>4, <1>5 DEF Next

\* Without overlapping handlers, live order tracking implements the abstract
\* life of an order (OrderLifecycle): every order that the exchange accepts is
\* placed, then tracked by its row or orphaned, and a tracked order is resolved
\* or dropped once, whatever crashes, lost answers and repeated reconciliation
\* runs come in between (live.py 649-760, 1081-1260).
THEOREM TrackingImplementsLifecycle == ASSUME Serial PROVE Spec => ImplementsLifecycle
<1>1. Init => Lifecycle!Init
  <2> SUFFICES ASSUME Init PROVE Lifecycle!Init
    OBVIOUS
  <2>1. \A e \in 1..MaxOrders : OrderStage(e) = "new" /\ BookedShares(e) = 0
    BY DEF Init, OrderStage, BookedShares
  <2> QED  BY <2>1 DEF Lifecycle!Init
<1>2. IInv /\ SInv /\ IInv' /\ [Next]_vars =>
        [Lifecycle!Next]_<<[e \in 1..MaxOrders |-> OrderStage(e)],
                           [e \in 1..MaxOrders |-> BookedShares(e)]>>
  BY NextLife DEF LifeStep, Stages, Shares
<1> QED
  BY <1>1, <1>2, InitInv, NextInv, InitSerial, NextSerial, PTL
  DEF Spec, ImplementsLifecycle, Lifecycle!Spec
-----------------------------------------------------------------------------
(* Refusals for lack of funds.  The count is read before it is written      *)
(* back; a second trader's answer in between would be lost, so the theorem  *)
(* is about one trader, or traders that do not overlap.                     *)

TradersApart == \A p, q \in Traders : Busy(p) /\ Busy(q) => p = q

\* The stored count is at least the refusals in a row, and a trader that
\* counts has the stored count in hand.
CountInv ==
  /\ streak <= errorCount /\ RefusalsBlock
  /\ \A p \in Traders : call[p].pc = "count" => call[p].base = errorCount

\* A step that leaves the count alone.
LEMMA CountMoves ==
  ASSUME CountInv, NEW p \in Procs, Only(p), call'[p].pc # "count",
         UNCHANGED <<errorCount, streak, blockNew>>
  PROVE  CountInv'
<1>1. \A q \in Traders : call'[q].pc = "count" => call'[q] = call[q]
  BY DEF Only, Procs
<1> QED  BY <1>1 DEF CountInv, RefusalsBlock

\* An answer other than a refusal for lack of funds.
LEMMA CountReset ==
  ASSUME CountInv, TradersApart, NEW p \in Traders, call[p].pc = "submit", Only(p),
         call'[p].pc # "count", ResetErrors(call[p]), UNCHANGED blockNew
  PROVE  CountInv'
<1>1. p \in Procs /\ Traders \subseteq Procs
  BY DEF Procs
<1>2. CASE call[p].action = "BUY"
  <2>1. errorCount' = 0 /\ streak' = 0
    BY <1>2 DEF ResetErrors
  <2>2. \A q \in Traders : call'[q].pc # "count"
    BY <1>1 DEF Only, TradersApart, Busy
  <2> QED  BY <2>1, <2>2, ConstantsOK DEF CountInv, RefusalsBlock
<1>3. CASE call[p].action # "BUY"
  BY <1>1, <1>3, CountMoves DEF ResetErrors
<1> QED  BY <1>2, <1>3

LEMMA SubmitCount ==
  ASSUME IInv, CountInv, TradersApart, NEW p \in Traders, Submit(p) PROVE CountInv'
<1>1. p \in Procs /\ call[p] \in Call /\ call[p].pc = "submit" /\ Only(p)
  BY References, CallTyped, SubmitStep
<1>2. CASE SubmitAnswered(p)
  <2>1. PICK resp, c : c = [call[p] EXCEPT !.pc = "store", !.ext = Len(exch) + 1, !.resp = resp]
                       /\ Go(p, c)
    BY <1>2 DEF SubmitAnswered
  <2>2. c.pc = "store"
    BY <1>1, <2>1 DEF Call
  <2> QED  BY <1>1, <1>2, <2>1, <2>2, Went, CountReset DEF SubmitAnswered
<1>3. CASE SubmitAnswerLost(p) \/ SubmitRefused(p)
  <2>1. Go(p, Idle) /\ ResetErrors(call[p]) /\ UNCHANGED blockNew
    BY <1>3 DEF SubmitAnswerLost, SubmitRefused
  <2> QED  BY <1>1, <2>1, Went, IdleFields, CountReset
<1>4. CASE SubmitNoFunds(p)
  <2>1. PICK c : c = [call[p] EXCEPT !.pc = "count", !.base = errorCount]
    OBVIOUS
  <2>2. c.base = errorCount
    BY <1>1, <2>1 DEF Call
  <2>3. Go(p, c) /\ UNCHANGED <<errorCount, streak, blockNew>>
    BY <1>4, <2>1 DEF SubmitNoFunds, db
  <2>4. \A q \in Traders : call'[q].pc = "count" => call'[q].base = errorCount
    BY <1>1, <2>2, <2>3, Went DEF Only, Procs, CountInv
  <2> QED  BY <2>3, <2>4 DEF CountInv, RefusalsBlock
<1> QED  BY <1>2, <1>3, <1>4 DEF Submit

\* The refusal is counted on top of the count in hand.
LEMMA CountRefusalCount ==
  ASSUME IInv, CountInv, TradersApart, NEW p \in Traders, CountRefusal(p) PROVE CountInv'
<1>1. /\ call[p].pc = "count" /\ Only(p) /\ call'[p].pc = "idle" /\ Traders \subseteq Procs
      /\ call[p].base = errorCount /\ errorCount \in Nat /\ streak \in Nat
  BY CountRefusalStep DEF CountInv, Procs, IInv, TypeOK
<1>2. errorCount' = errorCount + 1 /\ streak' = streak + 1
      /\ blockNew' = (blockNew \/ Blocks(errorCount + 1))
  BY <1>1 DEF CountRefusal
<1>3. streak' >= BlockThreshold => blockNew'
  <2>1. streak' >= BlockThreshold => Blocks(errorCount + 1)
    BY <1>1, <1>2, ConstantsOK DEF Blocks, CountInv
  <2> QED  BY <1>2, <2>1
<1>4. \A q \in Traders : call'[q].pc # "count"
  BY <1>1 DEF Only, TradersApart, Busy
<1> QED  BY <1>1, <1>2, <1>3, <1>4 DEF CountInv, RefusalsBlock

LEMMA NextCount == IInv /\ CountInv /\ TradersApart /\ [Next]_vars => CountInv'
<1> SUFFICES ASSUME IInv, CountInv, TradersApart, [Next]_vars PROVE CountInv'
  OBVIOUS
<1>1. CASE \E p \in Traders : TraderStart(p) \/ TraderStep(p)
  <2>1. PICK p \in Traders : TraderStart(p) \/ TraderStep(p)
    BY <1>1
  <2>2. p \in Procs
    BY DEF Procs
  <2>3. CASE Submit(p) \/ CountRefusal(p)
    BY <2>3, SubmitCount, CountRefusalCount
  <2>4. CASE TraderStart(p) \/ (TraderStep(p) /\ ~Submit(p) /\ ~CountRefusal(p))
    <3>1. UNCHANGED <<errorCount, streak, blockNew>>
      BY <2>4 DEF TraderStart, TraderStep, BuyAdmit, SellAdmit, BuyBalanceBefore, SellBalance,
                  AdjustPosition, AdjustRow, StoreSubmitted, Lookup, db, history
    <3>2. Only(p) /\ call'[p].pc # "count"
      <4>1. CASE TraderStart(p)
        BY <4>1, BuyAdmitStep, SellAdmitStep DEF TraderStart
      <4>2. CASE TraderStep(p) /\ ~Submit(p) /\ ~CountRefusal(p)
        BY <4>2, BuyBalanceBeforeStep, SellBalanceStep, AdjustPositionStep, AdjustRowStep,
           StoreSubmittedStep, LookupStep DEF TraderStep
      <4> QED  BY <2>4, <4>1, <4>2
    <3> QED  BY <2>2, <3>1, <3>2, CountMoves
  <2> QED  BY <2>1, <2>3, <2>4
<1>2. CASE \E p \in Reconcilers : ReconcileList(p) \/ ReconcilerStep(p)
  <2>1. PICK p \in Reconcilers : ReconcileList(p) \/ ReconcilerStep(p)
    BY <1>2
  <2>2. p \in Procs /\ UNCHANGED <<errorCount, streak, blockNew>>
    BY <2>1 DEF ReconcileList, ReconcilerStep, ReconcileLookup, RebuildRead, RebuildSave,
                db, history, Procs
  <2>3. Only(p) /\ call'[p].pc # "count"
    BY <2>1, ReconcileListStep, ReconcileLookupStep, RebuildReadStep, RebuildSaveStep
    DEF ReconcilerStep
  <2> QED  BY <2>2, <2>3, CountMoves
<1>3. CASE \E p \in Procs : Booking(p) \/ LookupRaises(p) \/ Crash(p)
  <2>1. PICK p \in Procs : Booking(p) \/ LookupRaises(p) \/ Crash(p)
    BY <1>3
  <2>2. UNCHANGED <<errorCount, streak, blockNew>>
    BY <2>1 DEF Booking, UpdateRow, ReadPosition, WritePosition, LookupRaises, Crash,
                db, history
  <2>3. Only(p) /\ call'[p].pc # "count"
    BY <2>1, UpdateRowStep, ReadPositionStep, WritePositionStep, FaultStep DEF Booking
  <2> QED  BY <2>2, <2>3, CountMoves
<1>4. CASE Exchange \/ UNCHANGED vars
  <2>1. UNCHANGED <<call, errorCount, streak, blockNew>>
    BY <1>4 DEF Exchange, Settle, Publish, vars, db, history
  <2> QED  BY <2>1 DEF CountInv, RefusalsBlock
<1>5. CASE \E block, file \in BOOLEAN : SetSwitch(block, file)
  <2>1. PICK block \in BOOLEAN, file \in BOOLEAN : SetSwitch(block, file)
    BY <1>5
  <2>2. /\ blockNew' = block /\ UNCHANGED <<call, errorCount>> /\ errorCount \in Nat
        /\ blockNew \in BOOLEAN
        /\ streak' = (IF blockNew /\ ~block THEN 0 ELSE streak) /\ streak \in Nat
    BY <2>1 DEF SetSwitch, IInv, TypeOK
  <2>3. streak' <= errorCount' /\ (streak' >= BlockThreshold => blockNew')
    BY <2>2, ConstantsOK DEF CountInv, RefusalsBlock
  <2> QED  BY <2>2, <2>3 DEF CountInv, RefusalsBlock
<1> QED  BY <1>1, <1>2, <1>3, <1>4, <1>5 DEF Next

\* Insufficient-balance refusals in a row, as many as the threshold says, leave
\* new entries blocked, whatever else is refused, reset, unblocked or crashes in
\* between (live.py 649-678, 1408-1425), when one trader runs or handlers do not
\* overlap.
THEOREM RefusalsBlockEntries ==
  ASSUME Serial \/ \A p, q \in Traders : p = q PROVE Spec => []RefusalsBlock
<1>1. Init => CountInv /\ (Serial => SInv)
  <2> SUFFICES ASSUME Init PROVE CountInv
    BY InitSerial
  <2>1. \A p \in Traders : call[p].pc = "idle"
    BY IdleFields DEF Init, Procs
  <2> QED  BY <2>1, ConstantsOK DEF Init, CountInv, RefusalsBlock
<1>2. (Serial => SInv) => TradersApart
  BY DEF TradersApart, SInv, OneBusy, Procs
<1>3. IInv /\ (Serial => SInv) /\ [Next]_vars => (Serial => SInv)'
  BY NextSerial
<1>4. CountInv => RefusalsBlock
  BY DEF CountInv
<1> QED
  BY <1>1, <1>2, <1>3, <1>4, InitInv, NextInv, NextCount, PTL DEF Spec

-----------------------------------------------------------------------------
(* The positions of LiveExecution when handlers do not overlap: they agree *)
(* with the recorded fills whenever nobody is at work, as long as nothing  *)
(* fails half way, and no entry takes the total above the exposure cap.    *)
(*                                                                         *)
(* Both are about what a computation over data returns: Replay(t) folds    *)
(* the rows, Exposure sums the positions.  The library's induction         *)
(* theorems take an operator as parameter, which the provers cannot        *)
(* instantiate; the induction used here is therefore stated for sets, and  *)
(* rests on the well-foundedness of strict inclusion.                      *)

\* Among finite sets there is always one that contains no other.
LEMMA SubsetMin ==
  ASSUME NEW U, U # {}, \A s \in U : IsFiniteSet(s)
  PROVE  \E s \in U : \A t \in U : t \subseteq s => t = s
<1> DEFINE R == StrictSubsetOrdering(UNION U)
<1>1. IsWellFoundedOn(R, FiniteSubsetsOf(UNION U))
  BY FS_StrictSubsetOrderingWellFounded
<1>2. U \subseteq FiniteSubsetsOf(UNION U)
  BY DEF FiniteSubsetsOf
<1> HIDE DEF R
<1>3. \E x \in U : \A y \in U : ~ (<<y, x>> \in R)
  BY <1>1, <1>2, WFMin
<1> QED  BY <1>3 DEF R, StrictSubsetOrdering

\* A set of numbers with 0 and every successor holds them all: otherwise one
\* of the intervals up to a missing number would contain no other.
LEMMA NatInd ==
  ASSUME NEW S, 0 \in S, \A n \in Nat : n \in S => n + 1 \in S
  PROVE  Nat \subseteq S
<1> SUFFICES ASSUME NEW m \in Nat, m \notin S PROVE FALSE
  OBVIOUS
<1> DEFINE U == {0..n : n \in Nat \ S}
<1>1. \A n \in Nat : IsFiniteSet(0..n)
  <2> TAKE n \in Nat
  <2>1. n \in Int /\ 0 \in Int
    OBVIOUS
  <2> QED  BY <2>1, FS_Interval
<1>2. U # {} /\ \A s \in U : IsFiniteSet(s)
  BY <1>1
<1>3. PICK s \in U : \A t \in U : t \subseteq s => t = s
  <2> HIDE DEF U
  <2> QED  BY <1>2, SubsetMin
<1>4. PICK x \in Nat \ S : s = 0..x
  BY <1>3
<1>5. x # 0 /\ x - 1 \in Nat /\ (x - 1) + 1 = x
  BY <1>4
<1>6. x - 1 \notin S
  BY <1>4, <1>5
<1>7. 0..(x - 1) \in U /\ 0..(x - 1) \subseteq s
  BY <1>4, <1>5, <1>6
<1>8. 0..(x - 1) = 0..x
  BY <1>3, <1>4, <1>7
<1>9. x \in 0..x /\ x \notin 0..(x - 1)
  BY <1>4
<1> QED  BY <1>8, <1>9
-----------------------------------------------------------------------------
(* Replay                                                                  *)

\* What one row makes of the shares held before it.
Booked(r, t, held) ==
  IF r.token # t \/ r.status # "filled" THEN held
  ELSE IF r.action = "SELL" THEN Greatest(held - r.fill, 0) ELSE held + r.fill

\* f lists the shares held after each of the first n rows of s.
Holds(f, s, t, n) ==
  f = [i \in 0..n |-> IF i = 0 THEN 0 ELSE Booked(s[i], t, f[i - 1])]

Held(s, t, n) == (CHOOSE f : Holds(f, s, t, n))[n]

LEMMA HoldsAt ==
  ASSUME NEW f, NEW s, NEW t, NEW n \in Nat, Holds(f, s, t, n)
  PROVE  f[0] = 0 /\ \A i \in 1..n : f[i] = Booked(s[i], t, f[i - 1])
<1> DEFINE g(i) == IF i = 0 THEN 0 ELSE Booked(s[i], t, f[i - 1])
<1>1. f = [i \in 0..n |-> g(i)]
  BY DEF Holds
<1> HIDE DEF g
<1>2. \A i \in 0..n : f[i] = g(i)
  BY <1>1
<1>3. 0 \in 0..n /\ \A i \in 1..n : i \in 0..n /\ i # 0
  OBVIOUS
<1> QED  BY <1>2, <1>3 DEF g

\* The list exists, one row at a time.
LEMMA HoldsExists ==
  ASSUME NEW s, NEW t PROVE \A n \in Nat : \E f : Holds(f, s, t, n)
<1> DEFINE S == {n \in Nat : \E f : Holds(f, s, t, n)}
<1>1. 0 \in S
  <2>1. PICK f : f = [i \in 0..0 |-> 0]
    OBVIOUS
  <2>2. Holds(f, s, t, 0)
    BY <2>1 DEF Holds
  <2> QED  BY <2>2
<1>2. ASSUME NEW n \in Nat, n \in S PROVE n + 1 \in S
  <2>1. PICK f : Holds(f, s, t, n)
    BY <1>2
  <2>2. f[0] = 0 /\ \A i \in 1..n : f[i] = Booked(s[i], t, f[i - 1])
    BY <2>1, HoldsAt
  <2> DEFINE g == [i \in 0..(n + 1) |-> IF i <= n THEN f[i] ELSE Booked(s[i], t, f[n])]
  <2>3. \A i \in 0..(n + 1) : g[i] = IF i = 0 THEN 0 ELSE Booked(s[i], t, g[i - 1])
    <3> SUFFICES ASSUME NEW i \in 0..(n + 1)
                 PROVE  g[i] = IF i = 0 THEN 0 ELSE Booked(s[i], t, g[i - 1])
      OBVIOUS
    <3>1. CASE i = 0
      BY <2>2, <3>1
    <3>2. CASE i \in 1..n
      BY <2>2, <3>2
    <3>3. CASE i = n + 1
      BY <3>3
    <3> QED  BY <3>1, <3>2, <3>3
  <2>4. g = [i \in 0..(n + 1) |-> g[i]]
    OBVIOUS
  <2>5. Holds(g, s, t, n + 1)
    <3> HIDE DEF g
    <3> QED  BY <2>3, <2>4 DEF Holds
  <2> QED  BY <2>5
<1> HIDE DEF S
<1>3. Nat \subseteq S
  BY <1>1, <1>2, NatInd
<1> QED  BY <1>3 DEF S

\* Two such lists agree as long as the rows do.
LEMMA HoldsAgree ==
  ASSUME NEW f, NEW g, NEW s, NEW u, NEW t, NEW n \in Nat, NEW m \in Nat, NEW k \in Nat,
         Holds(f, s, t, n), Holds(g, u, t, m), k <= n, k <= m, \A i \in 1..k : s[i] = u[i]
  PROVE  f[k] = g[k]
<1> DEFINE S == {j \in Nat : j <= k => f[j] = g[j]}
<1>1. /\ f[0] = 0 /\ \A i \in 1..n : f[i] = Booked(s[i], t, f[i - 1])
      /\ g[0] = 0 /\ \A i \in 1..m : g[i] = Booked(u[i], t, g[i - 1])
  BY HoldsAt
<1>2. 0 \in S
  BY <1>1
<1>3. ASSUME NEW j \in Nat, j \in S PROVE j + 1 \in S
  <2> SUFFICES ASSUME j + 1 <= k PROVE f[j + 1] = g[j + 1]
    OBVIOUS
  <2>1. j + 1 \in 1..n /\ j + 1 \in 1..m /\ j + 1 \in 1..k /\ (j + 1) - 1 = j /\ f[j] = g[j]
    BY <1>3
  <2>2. f[j + 1] = Booked(s[j + 1], t, f[j]) /\ g[j + 1] = Booked(u[j + 1], t, g[j])
    BY <1>1, <2>1
  <2> QED  BY <2>1, <2>2
<1> HIDE DEF S
<1>4. Nat \subseteq S
  BY <1>2, <1>3, NatInd
<1> QED  BY <1>4 DEF S

LEMMA HeldIs ==
  ASSUME NEW s, NEW t, NEW n \in Nat
  PROVE  \E f : Holds(f, s, t, n) /\ Held(s, t, n) = f[n]
  BY HoldsExists DEF Held

\* The recursion that Held satisfies.
LEMMA HeldZero == ASSUME NEW s, NEW t PROVE Held(s, t, 0) = 0
<1>1. PICK f : Holds(f, s, t, 0) /\ Held(s, t, 0) = f[0]
  BY HeldIs
<1> QED  BY <1>1, HoldsAt

LEMMA HeldSame ==
  ASSUME NEW s, NEW u, NEW t, NEW n \in Nat, \A i \in 1..n : s[i] = u[i]
  PROVE  Held(s, t, n) = Held(u, t, n)
<1>1. PICK f : Holds(f, s, t, n) /\ Held(s, t, n) = f[n]
  BY HeldIs
<1>2. PICK g : Holds(g, u, t, n) /\ Held(u, t, n) = g[n]
  BY HeldIs
<1> QED  BY <1>1, <1>2, HoldsAgree

LEMMA HeldNext ==
  ASSUME NEW s, NEW t, NEW n \in Nat
  PROVE  Held(s, t, n + 1) = Booked(s[n + 1], t, Held(s, t, n))
<1>1. PICK f : Holds(f, s, t, n + 1) /\ Held(s, t, n + 1) = f[n + 1]
  BY HeldIs
<1>2. PICK g : Holds(g, s, t, n) /\ Held(s, t, n) = g[n]
  BY HeldIs
<1>3. f[n] = g[n]
  BY <1>1, <1>2, HoldsAgree
<1>4. n + 1 \in 1..(n + 1) /\ (n + 1) - 1 = n
  OBVIOUS
<1>5. f[n + 1] = Booked(s[n + 1], t, f[n])
  BY <1>1, <1>4, HoldsAt
<1> QED  BY <1>1, <1>2, <1>3, <1>5

\* The specification's Replay is Held of all the rows.
LEMMA ReplayIs == ASSUME NEW t PROVE Replay(t) = Held(rows, t, Len(rows))
  BY Zenon DEF Replay, Held, Holds, Booked

LEMMA ReplayIsNext == ASSUME NEW t PROVE Replay(t)' = Held(rows', t, Len(rows'))
  BY Zenon DEF Replay, Held, Holds, Booked

BoughtIn(s, t, n) ==
  \E i \in 1..n : s[i].token = t /\ s[i].action = "BUY" /\ s[i].status = "filled" /\ s[i].fill > 0

\* Rows add up to a number of shares, and to some only if one of them is a buy.
LEMMA HeldBought ==
  ASSUME NEW s \in Seq(Row), NEW t
  PROVE  \A n \in 0..Len(s) : Held(s, t, n) \in Nat /\ (Held(s, t, n) > 0 => BoughtIn(s, t, n))
<1> DEFINE S == {n \in Nat : n <= Len(s) => Held(s, t, n) \in Nat
                                            /\ (Held(s, t, n) > 0 => BoughtIn(s, t, n))}
<1>1. Len(s) \in Nat /\ DOMAIN s = 1..Len(s)
  BY LenProperties
<1>2. 0 \in S
  BY HeldZero
<1>3. ASSUME NEW n \in Nat, n \in S PROVE n + 1 \in S
  <2> SUFFICES ASSUME n + 1 <= Len(s)
               PROVE  /\ Held(s, t, n + 1) \in Nat
                      /\ Held(s, t, n + 1) > 0 => BoughtIn(s, t, n + 1)
    OBVIOUS
  <2>1. Held(s, t, n) \in Nat /\ (Held(s, t, n) > 0 => BoughtIn(s, t, n))
    BY <1>1, <1>3
  <2>2. s[n + 1] \in Row
    BY <1>1
  <2>3. s[n + 1].fill \in Nat /\ s[n + 1].action \in {"BUY", "SELL"}
    BY <2>2 DEF Row
  <2>4. Held(s, t, n + 1) = Booked(s[n + 1], t, Held(s, t, n))
    BY HeldNext
  <2>5. Held(s, t, n + 1) \in Nat
    BY <2>1, <2>3, <2>4 DEF Booked, Greatest
  <2>6. BoughtIn(s, t, n) => BoughtIn(s, t, n + 1)
    BY DEF BoughtIn
  <2>7. ASSUME Held(s, t, n + 1) > 0, ~(Held(s, t, n) > 0)
        PROVE  /\ s[n + 1].token = t /\ s[n + 1].action = "BUY" /\ s[n + 1].status = "filled"
               /\ s[n + 1].fill > 0
    BY <2>1, <2>3, <2>4, <2>7 DEF Booked, Greatest
  <2>8. n + 1 \in 1..(n + 1)
    OBVIOUS
  <2>9. Held(s, t, n + 1) > 0 => BoughtIn(s, t, n + 1)
    BY <2>1, <2>6, <2>7, <2>8 DEF BoughtIn
  <2> QED  BY <2>5, <2>9
<1> HIDE DEF S
<1>4. Nat \subseteq S
  BY <1>2, <1>3, NatInd
<1> QED  BY <1>1, <1>4 DEF S

Bought(t) == BoughtIn(rows, t, Len(rows))

LEMMA ReplayTyped ==
  ASSUME IInv, NEW t PROVE Replay(t) \in Nat /\ (Replay(t) > 0 => Bought(t))
<1>1. rows \in Seq(Row) /\ Len(rows) \in 0..Len(rows)
  BY LenProperties DEF IInv, TypeOK
<1> QED  BY <1>1, HeldBought, ReplayIs DEF Bought

LEMMA ReplaySame == ASSUME rows' = rows, NEW t PROVE Replay(t)' = Replay(t)
  BY ReplayIs, ReplayIsNext

\* A row added at the end is booked last.
LEMMA ReplayAppend ==
  ASSUME IInv, NEW r \in Row, rows' = Append(rows, r), NEW t
  PROVE  Replay(t)' = Booked(r, t, Replay(t))
<1>1. rows \in Seq(Row) /\ Len(rows) \in Nat
  BY LenProperties DEF IInv, TypeOK
<1>2. Len(rows') = Len(rows) + 1 /\ rows'[Len(rows) + 1] = r
      /\ \A i \in 1..Len(rows) : rows'[i] = rows[i]
  BY <1>1, AppendProperties
<1>3. Held(rows', t, Len(rows)) = Held(rows, t, Len(rows))
  BY <1>1, <1>2, HeldSame
<1>4. Held(rows', t, Len(rows) + 1) = Booked(rows'[Len(rows) + 1], t, Held(rows', t, Len(rows)))
  BY <1>1, HeldNext
<1> QED  BY <1>2, <1>3, <1>4, ReplayIs, ReplayIsNext

\* Revising the last row, when it had no fill, books what it then says.
LEMMA ReplayLast ==
  ASSUME IInv, NEW r \in Row, NEW i \in DOMAIN rows, i = Len(rows),
         rows[i].status # "filled", rows' = [rows EXCEPT ![i] = r], NEW t
  PROVE  Replay(t)' = Booked(r, t, Replay(t))
<1>1. rows \in Seq(Row) /\ Len(rows) \in Nat /\ DOMAIN rows = 1..Len(rows)
  BY LenProperties DEF IInv, TypeOK
<1>2. PICK n \in Nat : i = n + 1
  <2>1. i - 1 \in Nat /\ i = (i - 1) + 1
    BY <1>1
  <2> QED  BY <2>1
<1>3. DOMAIN rows' = 1..Len(rows) /\ rows' \in Seq(Row)
  BY <1>1, ExceptSeq
<1>4. Len(rows') = n + 1 /\ rows'[n + 1] = r /\ \A j \in 1..n : rows'[j] = rows[j]
  <2>1. Len(rows') = Len(rows)
    BY <1>1, <1>3, LenProperties
  <2> QED  BY <1>1, <1>2, <2>1
<1>5. Held(rows', t, n) = Held(rows, t, n)
  <2>1. PICK u, v : u = rows' /\ v = rows
    OBVIOUS
  <2>2. \A j \in 1..n : u[j] = v[j]
    BY <1>4, <2>1
  <2>3. Held(u, t, n) = Held(v, t, n)
    BY <2>2, HeldSame
  <2> QED  BY <2>1, <2>3
<1>6. Held(rows', t, n + 1) = Booked(rows'[n + 1], t, Held(rows', t, n))
  BY HeldNext
<1>7. Held(rows, t, n + 1) = Booked(rows[n + 1], t, Held(rows, t, n))
  BY HeldNext
<1>8. Booked(rows[n + 1], t, Held(rows, t, n)) = Held(rows, t, n)
  BY <1>2 DEF Booked
<1> QED  BY <1>2, <1>4, <1>5, <1>6, <1>7, <1>8, ReplayIs, ReplayIsNext
-----------------------------------------------------------------------------
(* Positions and rows.  A trader at work leaves the positions in agreement  *)
(* except between the two commits of an adjustment and of a booking;        *)
(* reconciliation books late fills out of order and repairs that at its     *)
(* end, so all that holds in between is that a held position was bought.    *)

Agree == \A t \in Tokens : position[t] = Replay(t)

Backed == \A t \in Tokens : position[t] > 0 => Bought(t)

BuysOfOrders == \A i \in DOMAIN rows : rows[i].action = "BUY" => rows[i].ext # 0

\* The row of a handler that is about to write the position.
RowBooked(c) ==
  /\ c.row \in DOMAIN rows /\ rows[c.row].token = c.token /\ rows[c.row].action = c.action
  /\ rows[c.row].status = "filled" /\ rows[c.row].fill = c.fill /\ c.fill > 0

\* What booking c makes of n shares of token t.
After(c, t, n) == Booked([token |-> c.token, action |-> c.action, status |-> "filled",
                          fill |-> c.fill], t, n)

InStep(p) ==
  LET c == call[p]
  IN  /\ c.pc \in {"before", "sellable", "adjust", "submit", "count", "store"} => Agree
      /\ c.pc = "adjust_row" =>
           \A t \in Tokens : position[t] = IF t = c.token THEN Greatest(Replay(t) - c.fill, 0)
                                                          ELSE Replay(t)
      /\ c.pc \in {"lookup", "update"} =>
           /\ p \in Reconcilers \/ (/\ Agree /\ c.row = Len(rows) /\ rows[c.row].ext # 0
                                    /\ rows[c.row].status = "submitted")
           /\ rows[c.row].token = c.token /\ rows[c.row].action = c.action
      /\ c.pc \in {"read", "write"} =>
           /\ RowBooked(c)
           /\ p \in Reconcilers \/ \A t \in Tokens : Replay(t) = After(c, t, position[t])
      /\ c.pc = "write" => c.base = position[c.token]
      /\ c.pc = "save" =>
           c.saved = [t \in Tokens |-> IF HasFills(t) THEN Replay(t) ELSE Absent]

PInv == /\ AllIdle => Agree
        /\ Backed /\ BuysOfOrders
        /\ \A p \in Procs : InStep(p)

\* A handler starts from, or works in, a state in which the others are idle.
LEMMA PositionMoves ==
  ASSUME Serial, IInv, SInv, PInv, NEW p \in Procs, Busy(p) \/ MayStart(p), Only(p),
         call'[p].pc = "idle" => Agree', Backed', BuysOfOrders', InStep(p)'
  PROVE  PInv'
<1>1. ASSUME NEW q \in Procs, q # p PROVE call'[q].pc = "idle"
  BY <1>1, OthersIdle DEF Only
<1>2. \A q \in Procs : InStep(q)'
  BY <1>1 DEF InStep
<1>3. AllIdle' => Agree'
  BY DEF AllIdle
<1> QED  BY <1>2, <1>3 DEF PInv

LEMMA StartsAgree ==
  ASSUME Serial, IInv, SInv, PInv, NEW p \in Procs, MayStart(p) PROVE Agree
<1>1. \A q \in Procs : call[q].pc = "idle"
  BY OthersIdle DEF MayStart
<1> QED  BY <1>1 DEF PInv, AllIdle

LEMMA BooksSame ==
  ASSUME UNCHANGED <<rows, position>>
  PROVE  /\ Agree => Agree'
         /\ Backed => Backed'
         /\ BuysOfOrders => BuysOfOrders'
         /\ \A t : Replay(t)' = Replay(t)
<1>1. \A t : Replay(t)' = Replay(t)
  BY ReplaySame
<1> QED  BY <1>1 DEF Agree, Backed, BuysOfOrders, Bought

\* A trader moves between points at which the books agree.
LEMMA TraderQuiet ==
  ASSUME Serial, IInv, SInv, PInv, NEW p \in Traders, Busy(p) \/ MayStart(p), Only(p), Agree,
         UNCHANGED <<rows, position>>,
         call'[p].pc \in {"idle", "before", "sellable", "adjust", "submit", "count", "store"}
  PROVE  PInv'
<1>1. p \in Procs
  BY DEF Procs
<1>2. Agree' /\ Backed' /\ BuysOfOrders'
  BY BooksSame DEF PInv
<1>3. InStep(p)'
  BY <1>2 DEF InStep
<1> QED  BY <1>1, <1>2, <1>3, PositionMoves

\* What the buys of a longer table, or of one whose unfilled rows change, say.
LEMMA BoughtKept ==
  ASSUME IInv, IInv', DOMAIN rows \subseteq DOMAIN rows',
         \A i \in DOMAIN rows : rows[i].action = "BUY" /\ rows[i].status = "filled" =>
                                  rows'[i] = rows[i],
         NEW t, Bought(t)
  PROVE  Bought(t)'
<1>1. DOMAIN rows = 1..Len(rows) /\ DOMAIN rows' = 1..Len(rows')
  BY LenProperties DEF IInv, TypeOK
<1> QED  BY <1>1 DEF Bought, BoughtIn

LEMMA TraderAppends ==
  ASSUME Serial, IInv, SInv, PInv, IInv', NEW p \in Traders, Busy(p), Only(p),
         UNCHANGED position, NEW r \in Row, rows' = Append(rows, r), r.action = "BUY" => r.ext # 0,
         Agree', InStep(p)'
  PROVE  PInv'
<1>1. p \in Procs
  BY DEF Procs
<1>2. PICK n : n = Len(rows) + 1
  OBVIOUS
<1>3. /\ DOMAIN rows' = DOMAIN rows \cup {n} /\ n \notin DOMAIN rows
      /\ rows'[n] = r /\ \A i \in DOMAIN rows : rows'[i] = rows[i]
  BY <1>2, RowsAppended
<1>4. Backed'
  BY <1>3, BoughtKept DEF PInv, Backed
<1>5. BuysOfOrders'
  BY <1>3 DEF PInv, BuysOfOrders
<1> QED  BY <1>1, <1>4, <1>5, PositionMoves

LEMMA AdjustPositionBooks ==
  ASSUME Serial, IInv, SInv, PInv, NEW p \in Traders, AdjustPosition(p) PROVE PInv'
<1>1. /\ p \in Procs /\ Busy(p) /\ Only(p) /\ rows' = rows /\ call[p].pc = "adjust"
      /\ call'[p].pc = "adjust_row" /\ call'[p].token = call[p].token
      /\ call'[p].fill = call[p].fill
  BY AdjustPositionStep DEF Busy, Keeps, Procs
<1>2. call[p].token \in Tokens /\ call[p].fill \in Nat /\ position \in [Tokens -> Nat]
  BY <1>1, CallTyped DEF GoodCall, Holding, Pc, Call, IInv, TypeOK
<1>3. \A t \in Tokens : position'[t] = IF t = call[p].token
                                       THEN Greatest(position[t] - call[p].fill, 0)
                                       ELSE position[t]
  BY <1>2, AdjustPositionStep
<1>4. Agree /\ Backed /\ BuysOfOrders
  BY <1>1 DEF PInv, InStep
<1>5. \A t : Replay(t)' = Replay(t)
  BY <1>1, ReplaySame
<1>6. InStep(p)'
  BY <1>1, <1>3, <1>4, <1>5 DEF InStep, Agree
<1>7. Backed'
  BY <1>1, <1>2, <1>3, <1>4 DEF Backed, Bought, Greatest
<1>8. BuysOfOrders'
  BY <1>1, <1>4 DEF BuysOfOrders
<1> QED  BY <1>1, <1>6, <1>7, <1>8, PositionMoves

LEMMA AdjustRowBooks ==
  ASSUME Serial, IInv, SInv, PInv, IInv', NEW p \in Traders, AdjustRow(p) PROVE PInv'
<1>1. /\ p \in Procs /\ Busy(p) /\ Only(p) /\ position' = position /\ call[p].pc = "adjust_row"
      /\ call[p].token \in Tokens /\ call[p].fill \in Nat
      /\ call'[p].pc \in {"idle", "submit"}
  BY AdjustRowStep DEF Busy, Procs
<1>2. PICK r \in Row : /\ r.token = call[p].token /\ r.action = "SELL"
                       /\ r.status = "filled" /\ r.fill = call[p].fill
                       /\ rows' = Append(rows, r)
  BY AdjustRowStep
<1>3. \A t \in Tokens : position[t] = IF t = call[p].token THEN Greatest(Replay(t) - call[p].fill, 0)
                                                           ELSE Replay(t)
  BY <1>1 DEF PInv, InStep
<1>4. \A t \in Tokens : Replay(t)' = Booked(r, t, Replay(t))
  BY <1>2, ReplayAppend
<1>5. Agree'
  BY <1>1, <1>2, <1>3, <1>4 DEF Agree, Booked
<1>6. InStep(p)'
  BY <1>1, <1>5 DEF InStep
<1> QED  BY <1>1, <1>2, <1>5, <1>6, TraderAppends

LEMMA StoreSubmittedBooks ==
  ASSUME Serial, IInv, SInv, PInv, IInv', NEW p \in Traders, StoreSubmitted(p) PROVE PInv'
<1>1. /\ p \in Procs /\ Busy(p) /\ Only(p) /\ position' = position /\ call[p].pc = "store"
      /\ call[p].ext \in DOMAIN exch /\ call'[p].pc = "lookup"
      /\ call'[p].token = call[p].token /\ call'[p].action = call[p].action
      /\ call'[p].row = Len(rows) + 1
  BY StoreSubmittedStep DEF Busy, Keeps, Procs
<1>2. PICK r \in Row : /\ r.token = call[p].token /\ r.action = call[p].action
                       /\ r.ext = call[p].ext /\ r.status = "submitted"
                       /\ rows' = Append(rows, r)
  BY StoreSubmittedStep
<1>3. rows \in Seq(Row) /\ exch \in Seq(ExchOrder)
  BY DEF IInv, TypeOK
<1>4. r.ext # 0
  BY <1>1, <1>2, <1>3
<1>5. Agree
  BY <1>1 DEF PInv, InStep
<1>6. \A t : Replay(t)' = Booked(r, t, Replay(t))
  BY <1>2, ReplayAppend
<1>7. Agree'
  BY <1>1, <1>2, <1>5, <1>6 DEF Agree, Booked
<1>8. Len(rows') = Len(rows) + 1 /\ rows'[Len(rows) + 1] = r
  BY <1>2, <1>3, AppendProperties
<1>9. InStep(p)'
  BY <1>1, <1>2, <1>4, <1>7, <1>8 DEF InStep
<1> QED  BY <1>1, <1>2, <1>4, <1>7, <1>9, TraderAppends

LEMMA LookupBooks ==
  ASSUME Serial, IInv, SInv, PInv, NEW p \in Traders, Lookup(p) PROVE PInv'
<1>1. /\ p \in Procs /\ Busy(p) /\ Only(p) /\ UNCHANGED <<rows, position>>
      /\ call[p].pc = "lookup" /\ call'[p].pc = "update"
      /\ call'[p].token = call[p].token /\ call'[p].action = call[p].action
      /\ call'[p].row = call[p].row
  BY LookupStep DEF Busy, Keeps, Procs, Books
<1>2. InStep(p) /\ Backed /\ BuysOfOrders /\ p \notin Reconcilers
  BY <1>1, ConstantsOK DEF PInv
<1>3. Agree' /\ Backed' /\ BuysOfOrders'
  BY <1>1, <1>2, BooksSame DEF InStep
<1>4. InStep(p)'
  BY <1>1, <1>2, <1>3 DEF InStep
<1> QED  BY <1>1, <1>3, <1>4, PositionMoves

LEMMA TraderBooks ==
  ASSUME Serial, IInv, SInv, PInv, IInv', NEW p \in Traders, TraderStart(p) \/ TraderStep(p)
  PROVE  PInv'
<1>1. p \in Procs /\ InStep(p)
  BY DEF Procs, PInv
<1>2. CASE \E t \in Tokens, q \in Quotes : BuyAdmit(p, t, q)
  BY <1>1, <1>2, BuyAdmitStep, StartsAgree, TraderQuiet DEF Books
<1>3. CASE \E t \in Tokens : SellAdmit(p, t)
  BY <1>1, <1>3, SellAdmitStep, StartsAgree, TraderQuiet DEF Books
<1>4. CASE BuyBalanceBefore(p)
  BY <1>1, <1>4, BuyBalanceBeforeStep, TraderQuiet DEF Books, Busy, InStep
<1>5. CASE SellBalance(p)
  BY <1>1, <1>5, SellBalanceStep, TraderQuiet DEF Books, Busy, InStep
<1>6. CASE Submit(p)
  BY <1>1, <1>6, SubmitStep, TraderQuiet DEF Busy, InStep
<1>7. CASE CountRefusal(p)
  BY <1>1, <1>7, CountRefusalStep, TraderQuiet DEF Books, Busy, InStep
<1> QED
  BY <1>2, <1>3, <1>4, <1>5, <1>6, <1>7, AdjustPositionBooks, AdjustRowBooks,
     StoreSubmittedBooks, LookupBooks
  DEF TraderStart, TraderStep

\* A trader's row is the last one and had no fill, so its booking comes last;
\* a reconciler's row was unresolved, so no recorded buy is withdrawn.
LEMMA UpdateRowBooks ==
  ASSUME Serial, IInv, SInv, PInv, IInv', NEW p \in Procs, UpdateRow(p) PROVE PInv'
<1>1. PICK i : i = call[p].row
  OBVIOUS
<1>2. /\ Busy(p) /\ Only(p) /\ position' = position /\ call[p].pc = "update"
      /\ i \in DOMAIN rows /\ call[p].fill \in Nat
  BY <1>1, UpdateRowStep DEF Busy
<1>3. PICK r \in Row : /\ r.token = rows[i].token /\ r.action = rows[i].action
                       /\ r.ext = rows[i].ext /\ r.status = call[p].status
                       /\ r.fill = call[p].fill /\ rows' = [rows EXCEPT ![i] = r]
  BY <1>1, UpdateRowStep
<1>4. /\ DOMAIN rows' = DOMAIN rows /\ rows'[i] = r
      /\ \A j \in DOMAIN rows : j # i => rows'[j] = rows[j]
  BY <1>2, <1>3 DEF IInv, TypeOK
<1>5. Current(p) /\ InStep(p) /\ Backed /\ BuysOfOrders
  BY DEF SInv, PInv
<1>6. r.token = call[p].token /\ r.action = call[p].action
  BY <1>1, <1>2, <1>3, <1>5 DEF InStep
<1>7. rows[i].action = "BUY" => rows[i].status # "filled"
  BY <1>1, <1>2, <1>5 DEF Current, Unresolved, BuysOfOrders
<1>8. Backed'
  BY <1>2, <1>4, <1>5, <1>7, BoughtKept DEF Backed
<1>9. BuysOfOrders'
  BY <1>3, <1>4, <1>5 DEF BuysOfOrders
<1>10. call[p].fill > 0 => r.status = "filled"
  BY <1>2, <1>3, <1>5 DEF Current
<1>11. CASE p \in Traders
  <2>1. Agree /\ i = Len(rows) /\ rows[i].status # "filled" /\ rows[i].ext # 0
    BY <1>1, <1>2, <1>5, <1>11, ConstantsOK DEF InStep
  <2>2. \A t : Replay(t)' = Booked(r, t, Replay(t))
    BY <1>2, <1>3, <2>1, ReplayLast
  <2>3. CASE call[p].fill > 0
    <3>1. /\ call'[p].pc = "read" /\ call'[p].token = r.token /\ call'[p].action = r.action
          /\ call'[p].row = i /\ call'[p].fill = r.fill
      BY <1>1, <1>3, <1>6, <2>3, UpdateRowStep DEF Keeps
    <3>2. RowBooked(call[p])'
      BY <1>2, <1>3, <1>4, <1>10, <2>3, <3>1 DEF RowBooked
    <3>3. \A t \in Tokens : After(call[p], t, position[t])' = Booked(r, t, position[t])
      BY <1>2, <1>10, <2>3, <3>1 DEF After, Booked
    <3>4. InStep(p)'
      BY <2>1, <2>2, <3>1, <3>2, <3>3 DEF InStep, Agree
    <3> QED  BY <1>2, <1>8, <1>9, <3>1, <3>4, PositionMoves
  <2>4. CASE call[p].fill = 0
    <3>1. r.status # "filled"
      BY <1>1, <1>2, <1>3, <1>5, <2>1, <2>4 DEF Current
    <3>2. Agree'
      BY <1>2, <2>1, <2>2, <3>1 DEF Agree, Booked
    <3>3. call'[p].pc = "idle"
      BY <1>11, <2>4, ConstantsOK, UpdateRowStep
    <3>4. InStep(p)'
      BY <3>3 DEF InStep
    <3> QED  BY <1>2, <1>8, <1>9, <3>2, <3>4, PositionMoves
  <2> QED  BY <1>2, <2>3, <2>4
<1>12. CASE p \in Reconcilers
  <2>1. CASE call[p].fill > 0
    <3>1. /\ call'[p].pc = "read" /\ call'[p].token = r.token /\ call'[p].action = r.action
          /\ call'[p].row = i /\ call'[p].fill = r.fill
      BY <1>1, <1>3, <1>6, <2>1, UpdateRowStep DEF Keeps
    <3>2. RowBooked(call[p])'
      BY <1>2, <1>3, <1>4, <1>10, <2>1, <3>1 DEF RowBooked
    <3>3. InStep(p)'
      BY <1>12, <3>1, <3>2 DEF InStep
    <3> QED  BY <1>2, <1>8, <1>9, <3>1, <3>3, PositionMoves
  <2>2. CASE call[p].fill = 0
    <3>1. call'[p].pc = "next"
      BY <1>12, <2>2, ConstantsOK, UpdateRowStep
    <3>2. InStep(p)'
      BY <3>1 DEF InStep
    <3> QED  BY <1>2, <1>8, <1>9, <3>1, <3>2, PositionMoves
  <2> QED  BY <1>2, <2>1, <2>2
<1> QED  BY <1>11, <1>12 DEF Procs

LEMMA ReadPositionBooks ==
  ASSUME Serial, IInv, SInv, PInv, NEW p \in Procs, ReadPosition(p) PROVE PInv'
<1>1. /\ Busy(p) /\ Only(p) /\ UNCHANGED <<rows, position>> /\ call[p].pc = "read"
      /\ call'[p].pc = "write" /\ call'[p].token = call[p].token
      /\ call'[p].action = call[p].action /\ call'[p].row = call[p].row
      /\ call'[p].fill = call[p].fill /\ call'[p].base = position[call[p].token]
  BY ReadPositionStep DEF Busy, Keeps, Books
<1>2. InStep(p) /\ Backed /\ BuysOfOrders
  BY DEF PInv
<1>3. Backed' /\ BuysOfOrders' /\ \A t : Replay(t)' = Replay(t)
  BY <1>1, <1>2, BooksSame
<1>4. RowBooked(call[p])'
  BY <1>1, <1>2 DEF InStep, RowBooked
<1>5. \A t \in Tokens : After(call[p], t, position[t])' = After(call[p], t, position[t])
  BY <1>1 DEF After
<1>6. InStep(p)'
  BY <1>1, <1>2, <1>3, <1>4, <1>5 DEF InStep
<1> QED  BY <1>1, <1>3, <1>6, PositionMoves

LEMMA WritePositionBooks ==
  ASSUME Serial, IInv, SInv, PInv, NEW p \in Procs, WritePosition(p) PROVE PInv'
<1>1. /\ Busy(p) /\ Only(p) /\ rows' = rows /\ call[p].pc = "write"
      /\ \/ p \in Traders /\ call'[p].pc = "idle"
         \/ p \in Reconcilers /\ call'[p].pc = "next"
  BY WritePositionStep DEF Busy
<1>2. InStep(p) /\ Backed /\ BuysOfOrders
  BY DEF PInv
<1>3. PICK c, u : c = call[p] /\ u = c.token
  OBVIOUS
<1>4. /\ u \in Tokens /\ c.fill \in Nat /\ c.action \in {"BUY", "SELL"}
      /\ position \in [Tokens -> Nat] /\ c.base = position[u] /\ RowBooked(c)
  BY <1>1, <1>2, <1>3, CallTyped DEF GoodCall, Holding, Pc, Call, IInv, TypeOK, InStep
<1>5. position' = [position EXCEPT ![u] = NewPosition(c)]
  BY <1>3, WritePositionStep
<1>6. \A t \in Tokens : position'[t] = After(c, t, position[t])
  BY <1>3, <1>4, <1>5 DEF After, Booked, NewPosition
<1>7. \A t : Replay(t)' = Replay(t)
  BY <1>1, ReplaySame
<1>8. p \in Traders => Agree'
  BY <1>1, <1>2, <1>3, <1>6, <1>7, ConstantsOK DEF InStep, Agree
<1>9. Backed'
  <2> SUFFICES ASSUME NEW t \in Tokens, position'[t] > 0 PROVE Bought(t)'
    BY DEF Backed
  <2>1. position[t] > 0 \/ (t = u /\ c.action = "BUY")
    BY <1>3, <1>4, <1>6 DEF After, Booked, Greatest
  <2>2. CASE position[t] > 0
    BY <1>1, <1>2, <2>2 DEF Backed, Bought
  <2>3. CASE t = u /\ c.action = "BUY"
    <3>1. DOMAIN rows = 1..Len(rows)
      BY LenProperties DEF IInv, TypeOK
    <3> QED  BY <1>1, <1>3, <1>4, <2>3, <3>1 DEF RowBooked, Bought, BoughtIn
  <2> QED  BY <2>1, <2>2, <2>3
<1>10. BuysOfOrders'
  BY <1>1, <1>2 DEF BuysOfOrders
<1>11. InStep(p)'
  BY <1>1 DEF InStep
<1> QED  BY <1>1, <1>8, <1>9, <1>10, <1>11, PositionMoves

\* A token with no recorded fill is held by nobody, before and after a rebuild.
LEMMA NoFillsNoShares ==
  ASSUME IInv, Backed, NEW t \in Tokens, ~HasFills(t)
  PROVE  Replay(t) = 0 /\ position[t] = 0
<1>1. DOMAIN rows = 1..Len(rows) /\ position[t] \in Nat
  BY LenProperties DEF IInv, TypeOK
<1>2. ~Bought(t)
  BY <1>1 DEF Bought, BoughtIn, HasFills
<1> QED  BY <1>1, <1>2, ReplayTyped DEF Backed

LEMMA ReconcilerBooks ==
  ASSUME Serial, IInv, SInv, PInv, NEW p \in Reconcilers, ReconcileList(p) \/ ReconcilerStep(p)
  PROVE  PInv'
<1>1. p \in Procs /\ InStep(p) /\ Backed /\ BuysOfOrders
  BY References DEF PInv
<1>2. CASE ReconcileList(p)
  <2>1. /\ MayStart(p) /\ Only(p) /\ UNCHANGED <<rows, position>> /\ call'[p].pc = "next"
    BY <1>2, ReconcileListStep DEF Books
  <2>2. InStep(p)'
    BY <2>1 DEF InStep
  <2> QED  BY <1>1, <2>1, <2>2, BooksSame, PositionMoves
<1>3. CASE ReconcileLookup(p)
  <2>1. /\ Busy(p) /\ Only(p) /\ UNCHANGED <<rows, position>> /\ call'[p].pc = "update"
        /\ rows[call'[p].row].token = call'[p].token /\ rows[call'[p].row].action = call'[p].action
    BY <1>3, ReconcileLookupStep DEF Busy, Books
  <2>2. InStep(p)'
    BY <2>1 DEF InStep
  <2> QED  BY <1>1, <2>1, <2>2, BooksSame, PositionMoves
<1>4. CASE RebuildRead(p)
  <2>1. /\ Busy(p) /\ Only(p) /\ UNCHANGED <<rows, position>> /\ call'[p].pc = "save"
        /\ call'[p].saved = [t \in Tokens |-> IF HasFills(t) THEN Replay(t) ELSE Absent]
    BY <1>4, RebuildReadStep DEF Busy, Books
  <2>2. \A t : Replay(t)' = Replay(t) /\ HasFills(t)' = HasFills(t)
    BY <2>1, ReplaySame DEF HasFills
  <2>3. InStep(p)'
    BY <2>1, <2>2 DEF InStep
  <2> QED  BY <1>1, <2>1, <2>3, BooksSame, PositionMoves
<1>5. CASE RebuildSave(p)
  <2>1. /\ Busy(p) /\ Only(p) /\ rows' = rows /\ call[p].pc = "save" /\ call'[p].pc = "idle"
        /\ position' = [t \in Tokens |-> IF call[p].saved[t] = Absent THEN position[t]
                                                                    ELSE call[p].saved[t]]
    BY <1>5, RebuildSaveStep DEF Busy
  <2>2. call[p].saved = [t \in Tokens |-> IF HasFills(t) THEN Replay(t) ELSE Absent]
    BY <1>1, <2>1 DEF InStep
  <2>3. \A t : Replay(t)' = Replay(t)
    BY <2>1, ReplaySame
  <2>4. ASSUME NEW t \in Tokens PROVE position'[t] = Replay(t)
    <3>1. CASE HasFills(t)
      <4>1. Replay(t) \in Nat
        BY ReplayTyped
      <4>2. Replay(t) # Absent
        BY <4>1 DEF Absent
      <4> QED  BY <2>1, <2>2, <3>1, <4>2
    <3>2. CASE ~HasFills(t)
      BY <1>1, <2>1, <2>2, <3>2, NoFillsNoShares
    <3> QED  BY <3>1, <3>2
  <2>5. Agree'
    BY <2>3, <2>4 DEF Agree
  <2>6. Backed'
    BY <2>1, <2>4, ReplayTyped DEF Backed, Bought
  <2>7. BuysOfOrders' /\ InStep(p)'
    BY <1>1, <2>1 DEF BuysOfOrders, InStep
  <2> QED  BY <1>1, <2>1, <2>5, <2>6, <2>7, PositionMoves
<1> QED  BY <1>2, <1>3, <1>4, <1>5 DEF ReconcilerStep

LEMMA PositionStays ==
  ASSUME PInv, UNCHANGED <<call, rows, position>> PROVE PInv'
<1>1. Agree' <=> Agree
  BY ReplaySame DEF Agree
<1>2. \A t : Replay(t)' = Replay(t) /\ HasFills(t)' = HasFills(t)
  BY ReplaySame DEF HasFills
<1>3. \A p \in Procs : InStep(p)'
  BY <1>1, <1>2 DEF PInv, InStep, RowBooked, After
<1> QED  BY <1>1, <1>3 DEF PInv, AllIdle, Backed, Bought, BuysOfOrders

LEMMA NextPositions ==
  ASSUME Serial, MaxFaults = 0 PROVE IInv /\ SInv /\ PInv /\ IInv' /\ [Next]_vars => PInv'
<1> SUFFICES ASSUME IInv, SInv, PInv, IInv', [Next]_vars PROVE PInv'
  OBVIOUS
<1>1. CASE \E p \in Traders : TraderStart(p) \/ TraderStep(p)
  BY <1>1, TraderBooks
<1>2. CASE \E p \in Reconcilers : ReconcileList(p) \/ ReconcilerStep(p)
  BY <1>2, ReconcilerBooks
<1>3. CASE \E p \in Procs : Booking(p)
  BY <1>3, UpdateRowBooks, ReadPositionBooks, WritePositionBooks DEF Booking
<1>4. CASE \E p \in Procs : LookupRaises(p) \/ Crash(p)
  <2>1. faults < 0
    BY <1>4, FaultStep
  <2> QED  BY <2>1 DEF IInv, TypeOK
<1>5. CASE Exchange
  BY <1>5, ExchangeStep, PositionStays
<1>6. CASE (\E block, file \in BOOLEAN : SetSwitch(block, file)) \/ UNCHANGED vars
  <2>1. UNCHANGED <<call, rows, position>>
    BY <1>6, SwitchStep DEF vars, db, Books
  <2> QED  BY <2>1, PositionStays
<1> QED  BY <1>1, <1>2, <1>3, <1>4, <1>5, <1>6 DEF Next

\* When handlers do not overlap and none is cut short, live_positions agrees
\* with the filled rows of live_orders whenever nobody is at work: the booking
\* of a fill, the balance adjustment before a sell and the rebuild at the end of
\* a reconciliation compute the same positions, in whatever order late fills are
\* found (live.py 925-1016, 1091-1128).
THEOREM PositionsAgree ==
  ASSUME Serial, MaxFaults = 0 PROVE Spec => []PositionsMatchRows
<1>1. Init => PInv
  <2> SUFFICES ASSUME Init PROVE PInv
    OBVIOUS
  <2>1. Len(rows) = 0 /\ \A t \in Tokens : position[t] = 0
    BY DEF Init
  <2>2. \A t : Replay(t) = 0
    BY <2>1, ReplayIs, HeldZero
  <2>3. \A p \in Procs : call[p].pc = "idle"
    BY IdleFields DEF Init
  <2>4. \A p \in Procs : InStep(p)
    BY <2>3 DEF InStep
  <2>5. Agree /\ Backed
    BY <2>1, <2>2 DEF Agree, Backed
  <2>6. BuysOfOrders
    BY DEF Init, BuysOfOrders
  <2> QED  BY <2>4, <2>5, <2>6 DEF PInv
<1>2. PInv => PositionsMatchRows
  BY DEF PInv, PositionsMatchRows, Agree
<1> QED
  BY <1>1, <1>2, InitInv, NextInv, InitSerial, NextSerial, NextPositions, PTL DEF Spec
-----------------------------------------------------------------------------
(* Sums                                                                    *)

Pick(s) == CHOOSE x \in s : TRUE

\* g lists the sums of f over the subsets of S.
Adds(g, f, S) ==
  g = [s \in SUBSET S |-> IF s = {} THEN 0 ELSE f[Pick(s)] + g[s \ {Pick(s)}]]

Sum(f, S) == (CHOOSE g : Adds(g, f, S))[S]

LEMMA ExposureIs == Exposure = Sum(position, Tokens)
  BY Zenon DEF Exposure, Sum, Adds, Pick, MapThenSumSet, MapThenFoldSet

LEMMA PickIn == ASSUME NEW s, s # {} PROVE Pick(s) \in s
  BY Zenon DEF Pick

\* Induction on the subsets of a finite set.
LEMMA SubsetInd ==
  ASSUME NEW S, IsFiniteSet(S), NEW P,
         \A s \in SUBSET S : (\A u \in SUBSET s : u # s => u \in P) => s \in P
  PROVE  SUBSET S \subseteq P
<1> SUFFICES ASSUME NEW r \in SUBSET S, r \notin P PROVE FALSE
  OBVIOUS
<1> DEFINE U == (SUBSET S) \ P
<1>1. U # {} /\ \A s \in U : IsFiniteSet(s)
  BY FS_Subset
<1>2. PICK s \in U : \A t \in U : t \subseteq s => t = s
  <2> HIDE DEF U
  <2> QED  BY <1>1, SubsetMin
<1>3. \A u \in SUBSET s : u # s => u \in P
  <2> TAKE u \in SUBSET s
  <2>1. u \in SUBSET S /\ u \subseteq s
    OBVIOUS
  <2> QED  BY <1>2, <2>1
<1> QED  BY <1>2, <1>3

LEMMA AddsAt ==
  ASSUME NEW g, NEW f, NEW S, Adds(g, f, S), NEW s \in SUBSET S
  PROVE  g[s] = IF s = {} THEN 0 ELSE f[Pick(s)] + g[s \ {Pick(s)}]
<1> DEFINE h(u) == IF u = {} THEN 0 ELSE f[Pick(u)] + g[u \ {Pick(u)}]
<1>1. g = [u \in SUBSET S |-> h(u)]
  BY DEF Adds
<1> HIDE DEF h
<1>2. g[s] = h(s)
  BY <1>1
<1> QED  BY <1>2 DEF h

LEMMA AddsAgree ==
  ASSUME NEW S, IsFiniteSet(S), NEW f, NEW g, NEW A, Adds(g, f, A), S \subseteq A,
         NEW h, NEW B, Adds(h, f, B), S \subseteq B
  PROVE  g[S] = h[S]
<1> DEFINE P == {s \in SUBSET S : g[s] = h[s]}
<1>1. ASSUME NEW s \in SUBSET S, \A u \in SUBSET s : u # s => u \in P PROVE s \in P
  <2>1. /\ g[s] = IF s = {} THEN 0 ELSE f[Pick(s)] + g[s \ {Pick(s)}]
        /\ h[s] = IF s = {} THEN 0 ELSE f[Pick(s)] + h[s \ {Pick(s)}]
    BY AddsAt
  <2>2. CASE s = {}
    BY <2>1, <2>2
  <2>3. CASE s # {}
    <3>1. PICK u : u = s \ {Pick(s)}
      OBVIOUS
    <3>2. u \in SUBSET s /\ u # s
      BY <2>3, <3>1, PickIn
    <3>3. g[u] = h[u]
      BY <1>1, <3>2
    <3> QED  BY <2>1, <2>3, <3>1, <3>3
  <2> QED  BY <2>2, <2>3
<1> HIDE DEF P
<1>2. SUBSET S \subseteq P
  BY <1>1, SubsetInd
<1> QED  BY <1>2 DEF P

LEMMA AddsExists ==
  ASSUME NEW S, IsFiniteSet(S), NEW f PROVE \E g : Adds(g, f, S)
<1> DEFINE P == {s \in SUBSET S : \E g : Adds(g, f, s)}
<1>1. ASSUME NEW s \in SUBSET S, \A u \in SUBSET s : u # s => u \in P PROVE s \in P
  <2> DEFINE h(u) == IF u = {} THEN 0 ELSE f[Pick(u)] + Sum(f, u \ {Pick(u)})
  <2>1. PICK g : g = [u \in SUBSET s |-> h(u)]
    OBVIOUS
  <2>2. ASSUME NEW u \in SUBSET s, u # s PROVE g[u] = Sum(f, u)
    <3>1. PICK k : k = CHOOSE k0 : Adds(k0, f, u)
      OBVIOUS
    <3>2. Adds(k, f, u) /\ Sum(f, u) = k[u]
      <4>1. \E k1 : Adds(k1, f, u)
        BY <1>1, <2>2
      <4> QED  BY Zenon, <4>1, <3>1 DEF Sum
    <3>3. CASE u = {}
      BY <2>1, <3>2, <3>3, AddsAt
    <3>4. CASE u # {}
      <4>1. PICK w : w = u \ {Pick(u)}
        OBVIOUS
      <4>2. w \in SUBSET u /\ w \in SUBSET s /\ w # s /\ IsFiniteSet(w)
        BY <3>4, <4>1, PickIn, FS_Subset
      <4>3. PICK j : Adds(j, f, w) /\ Sum(f, w) = j[w]
        <5>1. \E k1 : Adds(k1, f, w)
          BY <1>1, <4>2
        <5> QED  BY Zenon, <5>1 DEF Sum
      <4>4. k[w] = j[w]
        BY <3>2, <4>2, <4>3, AddsAgree
      <4>5. k[u] = f[Pick(u)] + k[w]
        BY <3>2, <3>4, <4>1, AddsAt
      <4> QED  BY <2>1, <3>2, <3>4, <4>1, <4>3, <4>4, <4>5
    <3> QED  BY <3>3, <3>4
  <2>3. \A u \in SUBSET s : g[u] = IF u = {} THEN 0 ELSE f[Pick(u)] + g[u \ {Pick(u)}]
    <3> SUFFICES ASSUME NEW u \in SUBSET s, u # {} PROVE g[u] = f[Pick(u)] + g[u \ {Pick(u)}]
      BY <2>1
    <3>1. Pick(u) \in u /\ u \ {Pick(u)} \in SUBSET s /\ u \ {Pick(u)} # s
      BY PickIn
    <3> QED  BY <2>1, <2>2, <3>1
  <2>4. g = [u \in SUBSET s |-> g[u]]
    BY <2>1
  <2>5. Adds(g, f, s)
    <3> HIDE DEF h
    <3> QED  BY <2>3, <2>4 DEF Adds
  <2> QED  BY <2>5
<1> HIDE DEF P
<1>2. SUBSET S \subseteq P
  BY <1>1, SubsetInd
<1> QED  BY <1>2 DEF P

LEMMA SumIs ==
  ASSUME NEW S, IsFiniteSet(S), NEW f PROVE \E g : Adds(g, f, S) /\ Sum(f, S) = g[S]
<1>1. \E g : Adds(g, f, S)
  BY AddsExists
<1> QED  BY Zenon, <1>1 DEF Sum

\* The sum of naturals is a natural, and follows a change of one of them.
LEMMA SumTyped ==
  ASSUME NEW S, IsFiniteSet(S), NEW f \in [S -> Nat] PROVE Sum(f, S) \in Nat
<1>1. PICK g : Adds(g, f, S) /\ Sum(f, S) = g[S]
  BY SumIs
<1> DEFINE P == {s \in SUBSET S : g[s] \in Nat}
<1>2. ASSUME NEW s \in SUBSET S, \A u \in SUBSET s : u # s => u \in P PROVE s \in P
  <2>1. g[s] = IF s = {} THEN 0 ELSE f[Pick(s)] + g[s \ {Pick(s)}]
    BY <1>1, AddsAt
  <2>2. CASE s # {}
    <3>1. Pick(s) \in s /\ f[Pick(s)] \in Nat
      BY <2>2, PickIn
    <3>2. g[s \ {Pick(s)}] \in Nat
      BY <1>2, <3>1
    <3> QED  BY <2>1, <2>2, <3>1, <3>2
  <2> QED  BY <2>1, <2>2
<1> HIDE DEF P
<1>3. SUBSET S \subseteq P
  BY <1>2, SubsetInd
<1> QED  BY <1>1, <1>3 DEF P

LEMMA SumChanges ==
  ASSUME NEW S, IsFiniteSet(S), NEW f \in [S -> Nat], NEW h \in [S -> Nat], NEW t \in S,
         \A x \in S : x # t => h[x] = f[x]
  PROVE  Sum(h, S) = Sum(f, S) + h[t] - f[t]
<1>1. PICK g : Adds(g, f, S) /\ Sum(f, S) = g[S]
  BY SumIs
<1>2. PICK k : Adds(k, h, S) /\ Sum(h, S) = k[S]
  BY SumIs
<1> DEFINE P == {s \in SUBSET S : /\ g[s] \in Nat
                                  /\ k[s] = g[s] + IF t \in s THEN h[t] - f[t] ELSE 0}
<1>3. ASSUME NEW s \in SUBSET S, \A u \in SUBSET s : u # s => u \in P PROVE s \in P
  <2>1. /\ g[s] = IF s = {} THEN 0 ELSE f[Pick(s)] + g[s \ {Pick(s)}]
        /\ k[s] = IF s = {} THEN 0 ELSE h[Pick(s)] + k[s \ {Pick(s)}]
    BY <1>1, <1>2, AddsAt
  <2>2. CASE s = {}
    BY <2>1, <2>2
  <2>3. CASE s # {}
    <3>1. PICK x, u : x = Pick(s) /\ u = s \ {Pick(s)}
      OBVIOUS
    <3>2. x \in s /\ u \in SUBSET s /\ u # s /\ f[x] \in Nat /\ h[x] \in Nat
          /\ f[t] \in Nat /\ h[t] \in Nat
      BY <2>3, <3>1, PickIn
    <3>3. g[u] \in Nat /\ k[u] = g[u] + IF t \in u THEN h[t] - f[t] ELSE 0
      BY <1>3, <3>2
    <3>4. g[s] = f[x] + g[u] /\ k[s] = h[x] + k[u]
      BY <2>1, <2>3, <3>1
    <3>5. CASE x = t
      <4>1. t \notin u /\ t \in s
        BY <3>1, <3>2, <3>5
      <4>2. k[s] = g[s] + (h[t] - f[t]) /\ g[s] \in Nat
        BY <3>2, <3>3, <3>4, <3>5, <4>1
      <4> QED  BY <4>1, <4>2
    <3>6. CASE x # t
      <4>1. (t \in u <=> t \in s) /\ h[x] = f[x]
        BY <3>1, <3>2, <3>6
      <4>2. k[s] = g[s] + (IF t \in s THEN h[t] - f[t] ELSE 0) /\ g[s] \in Nat
        BY <3>2, <3>3, <3>4, <4>1
      <4> QED  BY <4>2
    <3> QED  BY <3>5, <3>6
  <2> QED  BY <2>2, <2>3
<1> HIDE DEF P
<1>4. SUBSET S \subseteq P
  BY <1>3, SubsetInd
<1> QED  BY <1>1, <1>2, <1>4 DEF P
-----------------------------------------------------------------------------
(* The exposure cap                                                        *)

LEMMA ExposureTyped ==
  ASSUME position \in [Tokens -> Nat] PROVE Exposure \in Nat
<1>1. IsFiniteSet(Tokens)
  BY ConstantsOK
<1> QED  BY <1>1, SumTyped, ExposureIs

LEMMA ExposureNext == Exposure' = Sum(position', Tokens)
  BY Zenon DEF Exposure, Sum, Adds, Pick, MapThenSumSet, MapThenFoldSet

LEMMA ExposureSame == ASSUME UNCHANGED position PROVE Exposure' = Exposure
  BY ExposureIs, ExposureNext

LEMMA ExposureChanges ==
  ASSUME IInv, NEW t \in Tokens, NEW n \in Nat, position' = [position EXCEPT ![t] = n]
  PROVE  Exposure' = Exposure + n - position[t]
<1>1. IsFiniteSet(Tokens) /\ position \in [Tokens -> Nat]
  BY ConstantsOK DEF IInv, TypeOK
<1>2. PICK h : h = [position EXCEPT ![t] = n]
  OBVIOUS
<1>3. h \in [Tokens -> Nat] /\ h[t] = n /\ \A x \in Tokens : x # t => h[x] = position[x]
  BY <1>1, <1>2
<1>4. Sum(h, Tokens) = Sum(position, Tokens) + h[t] - position[t]
  BY <1>1, <1>3, SumChanges
<1>5. Exposure' = Sum(h, Tokens)
  BY <1>2, ExposureNext
<1> QED  BY <1>3, <1>4, <1>5, ExposureIs

\* The cost a buy was admitted with, and then the fill it goes on to book, fit
\* under the cap together with everything held.
CapInHand(p) ==
  /\ call[p].pc \in {"sellable", "adjust", "adjust_row"} => call[p].action = "SELL"
  /\ call[p].pc = "write" => call[p].base = position[call[p].token]
  /\ call[p].action = "BUY" =>
       /\ call[p].pc \in {"before", "submit", "store", "lookup"} =>
            Exposure + call[p].req <= ExposureCap
       /\ call[p].pc \in {"store", "lookup"} => exch[call[p].ext].fill <= call[p].req
       /\ call[p].pc \in {"update", "read", "write"} => Exposure + call[p].fill <= ExposureCap

CapInv == \A p \in Traders : CapInHand(p)

LEMMA CapMoves ==
  ASSUME Serial, IInv, SInv, NEW p \in Procs, Busy(p) \/ MayStart(p), Only(p),
         p \in Traders => CapInHand(p)'
  PROVE  CapInv'
<1> SUFFICES ASSUME NEW q \in Traders, q # p PROVE CapInHand(q)'
  BY DEF CapInv
<1>1. q \in Procs
  BY DEF Procs
<1>2. call'[q].pc = "idle"
  BY <1>1, OthersIdle DEF Only
<1> QED  BY <1>2 DEF CapInHand

LEMMA CapStays ==
  ASSUME IInv, CapInv, UNCHANGED <<call, position>>, SameFills PROVE CapInv'
<1>1. Exposure' = Exposure
  BY ExposureSame
<1> SUFFICES ASSUME NEW p \in Traders PROVE CapInHand(p)'
  BY DEF CapInv
<1>2. p \in Procs
  BY DEF Procs
<1>3. call[p].pc \in {"store", "lookup"} => call[p].ext \in DOMAIN exch
  BY <1>2 DEF IInv, CallsOK, GoodCall
<1>4. call[p].pc \in {"store", "lookup"} => exch'[call[p].ext].fill = exch[call[p].ext].fill
  BY <1>3 DEF SameFills
<1> QED  BY <1>1, <1>4 DEF CapInv, CapInHand

LEMMA CapTrader ==
  ASSUME Serial, IInv, SInv, CapInv, NEW p \in Traders, TraderStart(p) \/ TraderStep(p)
  PROVE  CapInv'
<1>1. p \in Procs /\ CapInHand(p)
  BY DEF Procs, CapInv
<1>2. CASE \E t \in Tokens, q \in Quotes : BuyAdmit(p, t, q)
  <2>1. PICK t \in Tokens, q \in Quotes : BuyAdmit(p, t, q)
    BY <1>2
  <2>2. /\ MayStart(p) /\ Only(p) /\ call'[p].pc = "before" /\ call'[p].req = q.cost
        /\ FitsExposure(q.cost) /\ UNCHANGED position
    BY <2>1, BuyAdmitStep DEF Books, BuyAdmit, db
  <2>3. Exposure' + call'[p].req <= ExposureCap
    BY <2>2, ExposureSame DEF FitsExposure
  <2>4. CapInHand(p)'
    BY <2>2, <2>3 DEF CapInHand
  <2> QED  BY <1>1, <2>2, <2>4, CapMoves
<1>3. CASE \E t \in Tokens : SellAdmit(p, t)
  <2>1. MayStart(p) /\ Only(p) /\ call'[p].pc = "sellable" /\ call'[p].action = "SELL"
    BY <1>3, SellAdmitStep
  <2>2. CapInHand(p)'
    BY <2>1 DEF CapInHand
  <2> QED  BY <1>1, <2>1, <2>2, CapMoves
<1>4. CASE BuyBalanceBefore(p)
  <2>1. /\ Busy(p) /\ Only(p) /\ call[p].pc = "before" /\ call'[p].pc = "submit" /\ Keeps(p)
        /\ UNCHANGED position
    BY <1>4, BuyBalanceBeforeStep DEF Busy, BuyBalanceBefore, db
  <2>2. CapInHand(p)'
    BY <1>1, <2>1, ExposureSame DEF CapInHand, Keeps
  <2> QED  BY <1>1, <2>1, <2>2, CapMoves
<1>5. CASE SellBalance(p)
  <2>1. /\ Busy(p) /\ Only(p) /\ call[p].pc = "sellable"
        /\ \/ call'[p].pc = "idle"
           \/ call'[p].pc \in {"adjust", "submit"} /\ call'[p].action = call[p].action
    BY <1>5, SellBalanceStep DEF Busy
  <2>2. CapInHand(p)'
    BY <1>1, <2>1 DEF CapInHand
  <2> QED  BY <1>1, <2>1, <2>2, CapMoves
<1>6. CASE AdjustPosition(p)
  <2>1. /\ Busy(p) /\ Only(p) /\ call[p].pc = "adjust" /\ call'[p].pc = "adjust_row"
        /\ call'[p].action = call[p].action
    BY <1>6, AdjustPositionStep DEF Busy, Keeps
  <2>2. CapInHand(p)'
    BY <1>1, <2>1 DEF CapInHand
  <2> QED  BY <1>1, <2>1, <2>2, CapMoves
<1>7. CASE AdjustRow(p)
  <2>1. /\ Busy(p) /\ Only(p) /\ call[p].pc = "adjust_row"
        /\ \/ call'[p].pc = "idle"
           \/ call'[p].pc = "submit" /\ call'[p].action = call[p].action
    BY <1>7, AdjustRowStep DEF Busy, Keeps
  <2>2. CapInHand(p)'
    BY <1>1, <2>1 DEF CapInHand
  <2> QED  BY <1>1, <2>1, <2>2, CapMoves
<1>8. CASE Submit(p)
  <2>1. /\ Busy(p) /\ Only(p) /\ call[p].pc = "submit" /\ UNCHANGED position
        /\ \/ /\ call'[p].pc = "store" /\ Keeps(p)
              /\ exch'[call'[p].ext].fill <= call[p].req
           \/ call'[p].pc \in {"idle", "count"}
    BY <1>8, SubmitStep DEF Busy, Accepted
  <2>2. CapInHand(p)'
    BY <1>1, <2>1, ExposureSame DEF CapInHand, Keeps
  <2> QED  BY <1>1, <2>1, <2>2, CapMoves
<1>9. CASE CountRefusal(p)
  <2>1. Busy(p) /\ Only(p) /\ call'[p].pc = "idle"
    BY <1>9, CountRefusalStep DEF Busy
  <2>2. CapInHand(p)'
    BY <2>1 DEF CapInHand
  <2> QED  BY <1>1, <2>1, <2>2, CapMoves
<1>10. CASE StoreSubmitted(p)
  <2>1. /\ Busy(p) /\ Only(p) /\ call[p].pc = "store" /\ call'[p].pc = "lookup" /\ Keeps(p)
        /\ call'[p].ext = call[p].ext /\ UNCHANGED <<position, exch>>
    BY <1>10, StoreSubmittedStep DEF Busy
  <2>2. CapInHand(p)'
    BY <1>1, <2>1, ExposureSame DEF CapInHand, Keeps
  <2> QED  BY <1>1, <2>1, <2>2, CapMoves
<1>11. CASE Lookup(p)
  <2>1. /\ Busy(p) /\ Only(p) /\ call[p].pc = "lookup" /\ call'[p].pc = "update" /\ Keeps(p)
        /\ exch[call[p].ext].fill <= call[p].req => call'[p].fill <= call[p].req
        /\ UNCHANGED position /\ call'[p].fill \in Nat
    BY <1>11, LookupStep DEF Busy, Books
  <2>2. /\ call[p].req \in Nat /\ Exposure \in Nat /\ ExposureCap \in Nat
    BY <1>1, CallTyped, ExposureTyped, ConstantsOK DEF Call, IInv, TypeOK
  <2>3. call[p].action = "BUY" => Exposure + call'[p].fill <= ExposureCap
    BY <1>1, <2>1, <2>2 DEF CapInHand
  <2>4. CapInHand(p)'
    BY <2>1, <2>3, ExposureSame DEF CapInHand, Keeps
  <2> QED  BY <1>1, <2>1, <2>4, CapMoves
<1> QED
  BY <1>2, <1>3, <1>4, <1>5, <1>6, <1>7, <1>8, <1>9, <1>10, <1>11
  DEF TraderStart, TraderStep

LEMMA CapBooking ==
  ASSUME Serial, IInv, SInv, CapInv, NEW p \in Procs, Booking(p) PROVE CapInv'
<1>1. p \in Traders => CapInHand(p)
  BY DEF CapInv
<1>2. CASE UpdateRow(p)
  <2>1. /\ Busy(p) /\ Only(p) /\ call[p].pc = "update" /\ UNCHANGED position
        /\ \/ call'[p].pc = "read" /\ Keeps(p) /\ call'[p].fill = call[p].fill
           \/ call'[p].pc \in {"idle", "next"}
    BY <1>2, UpdateRowStep DEF Busy
  <2>2. p \in Traders => CapInHand(p)'
    BY <1>1, <2>1, ExposureSame DEF CapInHand, Keeps
  <2> QED  BY <2>1, <2>2, CapMoves
<1>3. CASE ReadPosition(p)
  <2>1. /\ Busy(p) /\ Only(p) /\ call[p].pc = "read" /\ UNCHANGED position
        /\ call'[p].pc = "write" /\ Keeps(p) /\ call'[p].fill = call[p].fill
        /\ call'[p].base = position[call[p].token]
    BY <1>3, ReadPositionStep DEF Busy, Books
  <2>2. p \in Traders => CapInHand(p)'
    BY <1>1, <2>1, ExposureSame DEF CapInHand, Keeps
  <2> QED  BY <2>1, <2>2, CapMoves
<1>4. CASE WritePosition(p)
  <2>1. Busy(p) /\ Only(p) /\ call'[p].pc \in {"idle", "next"}
    BY <1>4, WritePositionStep DEF Busy
  <2>2. CapInHand(p)'
    BY <2>1 DEF CapInHand
  <2> QED  BY <2>1, <2>2, CapMoves
<1> QED  BY <1>2, <1>3, <1>4 DEF Booking

LEMMA NextCap == ASSUME Serial PROVE IInv /\ SInv /\ CapInv /\ [Next]_vars => CapInv'
<1> SUFFICES ASSUME IInv, SInv, CapInv, [Next]_vars PROVE CapInv'
  OBVIOUS
<1>1. CASE \E p \in Traders : TraderStart(p) \/ TraderStep(p)
  BY <1>1, CapTrader
<1>2. CASE \E p \in Reconcilers : ReconcileList(p) \/ ReconcilerStep(p)
  <2>1. PICK p \in Reconcilers : ReconcileList(p) \/ ReconcilerStep(p)
    BY <1>2
  <2>2. p \in Procs /\ p \notin Traders
    BY ConstantsOK DEF Procs
  <2>3. (Busy(p) \/ MayStart(p)) /\ Only(p)
    BY <2>1, ReconcileListStep, ReconcileLookupStep, RebuildReadStep, RebuildSaveStep
    DEF ReconcilerStep, Busy
  <2> QED  BY <2>2, <2>3, CapMoves
<1>3. CASE \E p \in Procs : Booking(p)
  BY <1>3, CapBooking
<1>4. CASE \E p \in Procs : LookupRaises(p) \/ Crash(p)
  <2>1. PICK p \in Procs : LookupRaises(p) \/ Crash(p)
    BY <1>4
  <2>2. Busy(p) /\ Only(p) /\ call'[p].pc \in {"idle", "next"}
    BY <2>1, FaultStep DEF Busy
  <2>3. CapInHand(p)'
    BY <2>2 DEF CapInHand
  <2> QED  BY <2>2, <2>3, CapMoves
<1>5. CASE Exchange
  BY <1>5, ExchangeStep, CapStays DEF Exchange, Settle, Publish, db
<1>6. CASE (\E block, file \in BOOLEAN : SetSwitch(block, file)) \/ UNCHANGED vars
  <2>1. UNCHANGED <<call, position, exch>>
    BY <1>6 DEF vars, db, market, SetSwitch
  <2> QED  BY <2>1, CapStays DEF SameFills
<1> QED  BY <1>1, <1>2, <1>3, <1>4, <1>5, <1>6 DEF Next

\* A step that raises the total above the cap.
Exceeds == Exposure' > Exposure /\ Exposure' > ExposureCap

LateBooking == \E p \in Reconcilers : call[p].pc \in {"write", "save"} /\ call'[p] # call[p]

LEMMA SamePositionExceedsNothing ==
  ASSUME IInv, UNCHANGED position, Exceeds PROVE FALSE
<1>1. Exposure' = Exposure /\ Exposure \in Nat
  BY ExposureSame, ExposureTyped DEF IInv, TypeOK
<1> QED  BY <1>1 DEF Exceeds

LEMMA AdjustExceedsNothing ==
  ASSUME IInv, NEW p \in Traders, AdjustPosition(p), Exceeds PROVE FALSE
<1>1. PICK t : t = call[p].token
  OBVIOUS
<1>2. PICK n : n = Greatest(position[t] - call[p].fill, 0)
  OBVIOUS
<1>3. p \in Procs /\ call[p].pc = "adjust" /\ position' = [position EXCEPT ![t] = n]
  BY <1>1, <1>2, AdjustPositionStep DEF Procs
<1>4. t \in Tokens /\ call[p].fill \in Nat /\ position \in [Tokens -> Nat]
  BY <1>1, <1>3, CallTyped DEF GoodCall, Holding, Pc, Call, IInv, TypeOK
<1>5. position[t] \in Nat /\ n \in Nat /\ n <= position[t]
  BY <1>2, <1>4 DEF Greatest
<1>6. Exposure' = Exposure + n - position[t] /\ Exposure \in Nat
  BY <1>3, <1>4, <1>5, ExposureChanges, ExposureTyped
<1> QED  BY <1>5, <1>6 DEF Exceeds

LEMMA EntryExceedsNothing ==
  ASSUME IInv, CapInv, NEW p \in Traders, WritePosition(p), Exceeds PROVE FALSE
<1>1. PICK c, t : c = call[p] /\ t = c.token
  OBVIOUS
<1>2. PICK n : n = NewPosition(c)
  OBVIOUS
<1>3. p \in Procs /\ c.pc = "write" /\ position' = [position EXCEPT ![t] = n]
  BY <1>1, <1>2, WritePositionStep DEF Procs
<1>4. /\ t \in Tokens /\ c.fill \in Nat /\ c.action \in {"BUY", "SELL"}
      /\ position \in [Tokens -> Nat]
  BY <1>1, <1>3, CallTyped DEF GoodCall, Holding, Pc, Call, IInv, TypeOK
<1>5. /\ c.base = position[t]
      /\ c.action = "BUY" => Exposure + c.fill <= ExposureCap
  BY <1>1, <1>3 DEF CapInv, CapInHand
<1>6. /\ position[t] \in Nat /\ n \in Nat
      /\ n = IF c.action = "SELL" THEN Greatest(position[t] - c.fill, 0) ELSE position[t] + c.fill
  BY <1>2, <1>4, <1>5 DEF NewPosition, Greatest
<1>7. Exposure' = Exposure + n - position[t] /\ Exposure \in Nat /\ ExposureCap \in Nat
  BY <1>3, <1>4, <1>6, ExposureChanges, ExposureTyped, ConstantsOK
<1>8. CASE c.action = "SELL"
  BY <1>4, <1>6, <1>7, <1>8 DEF Exceeds, Greatest
<1>9. CASE c.action = "BUY"
  BY <1>4, <1>5, <1>6, <1>7, <1>9 DEF Exceeds
<1> QED  BY <1>4, <1>8, <1>9

LEMMA NextExceeds ==
  ASSUME IInv, CapInv, [Next]_vars, Exceeds PROVE LateBooking
<1>1. ASSUME NEW p \in Reconcilers, WritePosition(p) \/ RebuildSave(p) PROVE LateBooking
  <2>1. p \in Procs /\ p \notin Traders
    BY ConstantsOK DEF Procs
  <2>2. call[p].pc \in {"write", "save"} /\ call'[p].pc \in {"next", "idle"}
    BY <1>1, <2>1, WritePositionStep, RebuildSaveStep
  <2>3. call'[p] # call[p]
    BY <2>2
  <2> QED  BY <2>2, <2>3 DEF LateBooking
<1>2. CASE \E p \in Traders : TraderStart(p) \/ TraderStep(p)
  <2>1. PICK p \in Traders : TraderStart(p) \/ TraderStep(p)
    BY <1>2
  <2>2. AdjustPosition(p) \/ UNCHANGED position
    BY <2>1, SubmitStep, AdjustRowStep, StoreSubmittedStep
    DEF TraderStart, TraderStep, BuyAdmit, SellAdmit, BuyBalanceBefore, SellBalance,
        CountRefusal, Lookup, db
  <2> QED  BY <2>2, AdjustExceedsNothing, SamePositionExceedsNothing
<1>3. CASE \E p \in Reconcilers : ReconcileList(p) \/ ReconcilerStep(p)
  <2>1. PICK p \in Reconcilers : ReconcileList(p) \/ ReconcilerStep(p)
    BY <1>3
  <2>2. RebuildSave(p) \/ UNCHANGED position
    BY <2>1, ReconcileListStep, ReconcileLookupStep, RebuildReadStep DEF ReconcilerStep, Books
  <2> QED  BY <1>1, <2>2, SamePositionExceedsNothing
<1>4. CASE \E p \in Procs : Booking(p)
  <2>1. PICK p \in Procs : Booking(p)
    BY <1>4
  <2>2. WritePosition(p) \/ UNCHANGED position
    BY <2>1, UpdateRowStep, ReadPositionStep DEF Booking, Books
  <2>3. p \in Traders \/ p \in Reconcilers
    BY DEF Procs
  <2> QED  BY <1>1, <2>2, <2>3, EntryExceedsNothing, SamePositionExceedsNothing
<1>5. CASE \E p \in Procs : LookupRaises(p) \/ Crash(p)
  BY <1>5, FaultStep, SamePositionExceedsNothing
<1>6. CASE Exchange \/ (\E block, file \in BOOLEAN : SetSwitch(block, file)) \/ UNCHANGED vars
  BY <1>6, ExchangeStep, SwitchStep, SamePositionExceedsNothing DEF vars, db, Books
<1> QED  BY <1>2, <1>3, <1>4, <1>5, <1>6 DEF Next

\* When handlers do not overlap, an entry never takes the total cost basis above
\* the exposure cap, whatever part of it fills and whatever fails half way: only
\* a fill that reconciliation finds later, or the rebuild, can (live.py 561-645).
THEOREM EntriesRespectCap == ASSUME Serial PROVE Spec => OnlyLateBookingExceedsCap
<1>1. Init => CapInv
  <2> SUFFICES ASSUME Init, NEW p \in Traders PROVE CapInHand(p)
    BY DEF CapInv
  <2>1. call[p].pc = "idle"
    BY IdleFields DEF Init, Procs
  <2> QED  BY <2>1 DEF CapInHand
<1>2. IInv /\ CapInv /\ [Next]_vars => (Exceeds => LateBooking)
  BY NextExceeds
<1>3. [Exceeds => LateBooking]_vars
      => [Exposure' > Exposure /\ Exposure' > ExposureCap
            => \E p \in Reconcilers : call[p].pc \in {"write", "save"} /\ call'[p] # call[p]]_vars
  BY DEF Exceeds, LateBooking
<1> QED
  BY <1>1, <1>2, <1>3, InitInv, NextInv, InitSerial, NextSerial, NextCap, PTL
  DEF Spec, OnlyLateBookingExceedsCap
=============================================================================
