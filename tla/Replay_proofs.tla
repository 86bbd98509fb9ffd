---------------------------- MODULE Replay_proofs ----------------------------
(***************************************************************************)
(* TypeOK, AsOf and RepeatsLive, and that both reports are the reference's *)
(* (BacktestIsReference, ExperimentIsReference), for every clock, every    *)
(* bound on the tables, every day and every choice of the times to tick at.*)
(***************************************************************************)
EXTENDS Replay, FiniteSetTheorems, TLAPS

-----------------------------------------------------------------------------
(* The recorder.  Tables and decisions only grow, a row's availability is  *)
(* never ahead of the clock, and a cross that the live tick has in hand or *)
(* has decided is of two rows that follow each other, with every row up to *)
(* them available by then.                                                 *)

Cells == [pc : {"idle", "readings", "forecasts", "samples", "tick", "cross"},
          stamp : Times \cup {0}, todo : SUBSET Events]

Grounded(rows, e, at) ==
  e[1] = "reading" =>
    /\ e[2][1] \in Nat \ {0} /\ e[2][2] = e[2][1] + 1
    /\ e[2][2] <= Len(rows)
    /\ \A k \in 1 .. e[2][2] : rows[k].at <= at

RecorderInv ==
  /\ RecorderTypeOK
  /\ \A t \in Tables : \A k \in 1 .. Len(source[t]) : source[t][k].at <= now
  /\ \A w \in Writers : writer[w].stamp <= now
  /\ \A w \in Writers : writer[w].pc \in {"readings", "forecasts"} => writer[w].stamp \in Times
  /\ \A e \in writer["loop"].todo : Grounded(source["readings"], e, now)
  /\ \A k \in 1 .. Len(decided) : Grounded(source["readings"], decided[k].event, decided[k].at)

Grows ==
  /\ now <= now'
  /\ \A t \in Tables :
       /\ Len(source[t]) <= Len(source'[t])
       /\ \A k \in 1 .. Len(source[t]) : source'[t][k] = source[t][k]
  /\ Len(decided) <= Len(decided')
  /\ \A k \in 1 .. Len(decided) : decided'[k] = decided[k]

LEMMA AppendGrows ==
  ASSUME NEW S, NEW s \in Seq(S), NEW x \in S
  PROVE  /\ Append(s, x) \in Seq(S)
         /\ Len(Append(s, x)) = Len(s) + 1
         /\ \A k \in 1 .. Len(s) : Append(s, x)[k] = s[k]
         /\ Append(s, x)[Len(s) + 1] = x
OBVIOUS

LEMMA TimesAreNat ==
  /\ Times \subseteq Nat /\ 0 \notin Times
  /\ \A x \in Times \cup {0} : x \in Nat
BY RecorderAssumption DEF Times

LEMMA RowTimes ==
  ASSUME NEW s \in Seq(Row), NEW k \in 1 .. Len(s)
  PROVE  s[k] \in Row /\ s[k].at \in Times /\ s[k].at \in Nat
<1>1. s[k] \in Row
  OBVIOUS
<1>2. s[k].at \in Times
  BY <1>1 DEF Row
<1> QED
  BY <1>1, <1>2, TimesAreNat

LEMMA IdleIsCell == Idle \in Cells /\ Idle.todo = {} /\ Idle.pc = "idle" /\ Idle.stamp = 0
BY DEF Idle, Cells

LEMMA GroundedStays ==
  ASSUME NEW r \in Seq(Row), NEW s \in Seq(Row), Len(r) <= Len(s),
         \A k \in 1 .. Len(r) : s[k] = r[k],
         NEW e, NEW a \in Nat, NEW b \in Nat, a <= b, Grounded(r, e, a)
  PROVE  Grounded(s, e, b)
<1>1. SUFFICES ASSUME e[1] = "reading"
               PROVE  /\ e[2][2] <= Len(s)
                      /\ \A k \in 1 .. e[2][2] : s[k].at <= b
  BY DEF Grounded
<1>2. e[2][2] \in Nat /\ e[2][2] <= Len(r) /\ Len(r) \in Nat /\ Len(s) \in Nat
  BY <1>1 DEF Grounded
<1>3. ASSUME NEW k \in 1 .. e[2][2]
      PROVE  s[k].at <= b
  <2>1. k \in 1 .. Len(r) /\ r[k].at <= a
    BY <1>1, <1>2, <1>3 DEF Grounded
  <2>2. s[k] = r[k] /\ r[k].at \in Nat
    BY <2>1, RowTimes
  <2> QED
    BY <2>1, <2>2
<1> QED
  BY <1>2, <1>3

LEMMA RecorderStarts == RecorderInit => RecorderInv
<1> SUFFICES ASSUME RecorderInit PROVE RecorderInv
  OBVIOUS
<1>1. writer \in [Writers -> Cells] /\ \A w \in Writers : writer[w] = Idle
  BY IdleIsCell DEF RecorderInit
<1>2. now \in Times /\ 1 \in Nat
  BY RecorderAssumption DEF RecorderInit, Times
<1>3. \A t \in Tables : source[t] = <<>>
  BY DEF RecorderInit
<1> QED
  BY <1>1, <1>2, <1>3, IdleIsCell
  DEF RecorderInit, RecorderInv, RecorderTypeOK, Cells, Writers, Times

-----------------------------------------------------------------------------
(* What a tick finds.                                                      *)

LEMMA EventsOfRows ==
  ASSUME NEW seen, NEW done, NEW clock, \A t \in Tables : seen[t] \subseteq Nat
  PROVE  /\ ForecastEvents(seen, done, clock) \subseteq Events
         /\ ReadingEvents(seen, done) \subseteq Events
         /\ \A e \in ForecastEvents(seen, done, clock) : e[1] = "forecast"
         /\ \A e \in ReadingEvents(seen, done) : e[1] = "reading" /\ e[2] \in Neighbours(seen["readings"])
<1>1. seen["samples"] \subseteq Nat /\ seen["readings"] \subseteq Nat
  BY DEF Tables
<1> QED
  BY <1>1 DEF ForecastEvents, ReadingEvents, Events, Latest, Neighbours

LEMMA NeighboursOfPrefix ==
  ASSUME NEW n \in Nat, NEW p \in Neighbours(1 .. n)
  PROVE  p[1] \in Nat \ {0} /\ p[2] = p[1] + 1 /\ p[2] <= n
<1>1. p \in (1 .. n) \X (1 .. n) /\ p[1] < p[2]
  BY DEF Neighbours
<1>2. ~(p[1] < p[1] + 1 /\ p[1] + 1 < p[2]) \/ p[1] + 1 \notin 1 .. n
  BY DEF Neighbours
<1> QED
  BY <1>1, <1>2

-----------------------------------------------------------------------------
(* The recorder's steps.                                                   *)

LEMMA RecorderKept ==
  ASSUME RecorderInv, Grows, RecorderTypeOK',
         \A t \in Tables : \A k \in 1 .. Len(source'[t]) : source'[t][k].at <= now',
         \A w \in Writers : writer'[w].stamp <= now',
         \A w \in Writers : writer'[w].pc \in {"readings", "forecasts"} => writer'[w].stamp \in Times,
         \A e \in writer'["loop"].todo :
           e \in writer["loop"].todo \/ Grounded(source'["readings"], e, now'),
         \A k \in 1 .. Len(decided') :
           \/ k <= Len(decided)
           \/ Grounded(source'["readings"], decided'[k].event, decided'[k].at)
  PROVE  RecorderInv'
<1>1. now \in Nat /\ now' \in Nat /\ now <= now'
  BY TimesAreNat DEF RecorderInv, RecorderTypeOK, Grows
<1>2. /\ source["readings"] \in Seq(Row) /\ source'["readings"] \in Seq(Row)
      /\ Len(source["readings"]) <= Len(source'["readings"])
      /\ \A k \in 1 .. Len(source["readings"]) : source'["readings"][k] = source["readings"][k]
  BY DEF RecorderInv, RecorderTypeOK, Grows, Tables
<1>3. ASSUME NEW e \in writer'["loop"].todo
      PROVE  Grounded(source'["readings"], e, now')
  <2>1. CASE e \in writer["loop"].todo
    <3>1. Grounded(source["readings"], e, now)
      BY <2>1 DEF RecorderInv
    <3> QED
      BY <1>1, <1>2, <3>1, GroundedStays
  <2> QED
    BY <2>1
<1>4. ASSUME NEW k \in 1 .. Len(decided')
      PROVE  Grounded(source'["readings"], decided'[k].event, decided'[k].at)
  <2>1. CASE k <= Len(decided)
    <3>1. k \in 1 .. Len(decided) /\ decided'[k] = decided[k]
      BY <2>1 DEF Grows, RecorderInv, RecorderTypeOK
    <3>2. decided[k] \in Decision
      BY <3>1 DEF RecorderInv, RecorderTypeOK
    <3>3. decided[k].at \in Nat
      BY <3>2, TimesAreNat DEF Decision
    <3>4. Grounded(source["readings"], decided[k].event, decided[k].at)
      BY <3>1 DEF RecorderInv
    <3>5. decided[k].at <= decided[k].at
      BY <3>3
    <3>6. Grounded(source'["readings"], decided[k].event, decided[k].at)
      BY <1>2, <3>3, <3>4, <3>5, GroundedStays
    <3> QED
      BY <3>1, <3>6
  <2> QED
    BY <2>1
<1> QED
  BY <1>3, <1>4 DEF RecorderInv

\* A step that leaves the tables and the decisions.
LEMMA TablesStay ==
  ASSUME RecorderInv, UNCHANGED <<source, decided>>, now' \in Times, now <= now'
  PROVE  /\ Grows
         /\ \A t \in Tables : \A k \in 1 .. Len(source'[t]) : source'[t][k].at <= now'
<1>1. \A t \in Tables : source[t] \in Seq(Row)
  BY DEF RecorderInv, RecorderTypeOK
<1>2. decided \in Seq(Decision) /\ now \in Nat /\ now' \in Nat
  BY TimesAreNat DEF RecorderInv, RecorderTypeOK
<1>3. ASSUME NEW t \in Tables, NEW k \in 1 .. Len(source'[t])
      PROVE  source'[t][k].at <= now'
  <2>1. source'[t] = source[t] /\ source[t][k].at <= now
    BY <1>3 DEF RecorderInv
  <2>2. source[t][k].at \in Nat
    BY <1>1, <2>1, RowTimes
  <2> QED
    BY <1>2, <2>1, <2>2
<1> QED
  BY <1>1, <1>2, <1>3 DEF Grows

\* A step of one thread only.
LEMMA WriterMoves ==
  ASSUME RecorderInv, UNCHANGED <<now, source, decided>>,
         NEW w \in Writers, NEW x \in Cells, writer' = [writer EXCEPT ![w] = x],
         x.stamp <= now, x.pc \in {"readings", "forecasts"} => x.stamp \in Times,
         \A e \in x.todo : Grounded(source["readings"], e, now)
  PROVE  RecorderInv' /\ Grows
<1>1. writer' \in [Writers -> Cells] /\ writer'[w] = x
      /\ \A v \in Writers : v # w => writer'[v] = writer[v]
  BY DEF RecorderInv, RecorderTypeOK, Cells
<1>2. /\ Grows
      /\ \A t \in Tables : \A k \in 1 .. Len(source'[t]) : source'[t][k].at <= now'
  BY TablesStay, TimesAreNat DEF RecorderInv, RecorderTypeOK
<1>3. RecorderTypeOK'
  BY <1>1 DEF RecorderInv, RecorderTypeOK, Cells
<1>4. \A v \in Writers :
        /\ writer'[v].stamp <= now'
        /\ writer'[v].pc \in {"readings", "forecasts"} => writer'[v].stamp \in Times
  BY <1>1 DEF RecorderInv
<1>5. \A e \in writer'["loop"].todo :
        e \in writer["loop"].todo \/ Grounded(source'["readings"], e, now')
  <2>1. CASE w = "loop"
    BY <1>1, <2>1
  <2>2. CASE w # "loop"
    BY <1>1, <2>2 DEF Writers
  <2> QED
    BY <2>1, <2>2
<1>6. \A k \in 1 .. Len(decided') : k <= Len(decided)
  BY DEF RecorderInv, RecorderTypeOK
<1> QED
  BY <1>2, <1>3, <1>4, <1>5, <1>6, RecorderKept

Settled(x) == x.stamp = 0 /\ x.pc \notin {"readings", "forecasts"} /\ x.todo = {}

\* A row is stored, and no thread has a payload in hand it did not have.
LEMMA RowStored ==
  ASSUME RecorderInv, UNCHANGED <<now, decided>>, NEW t \in Tables, NEW at \in Times, at <= now,
         NEW ask \in Asks, source' = Stored(t, at, ask),
         writer' \in [Writers -> Cells], writer'["loop"].todo \subseteq writer["loop"].todo,
         \A v \in Writers : writer'[v] = writer[v] \/ Settled(writer'[v])
  PROVE  RecorderInv' /\ Grows
<1> DEFINE row == [at |-> at, ask |-> ask]
<1>1. row \in Row /\ row.at = at
  BY DEF Row
<1> HIDE DEF row
<1>2. \A u \in Tables : source[u] \in Seq(Row)
  BY DEF RecorderInv, RecorderTypeOK
<1>3. /\ source' \in [Tables -> Seq(Row)]
      /\ source'[t] = Append(source[t], row)
      /\ \A u \in Tables : u # t => source'[u] = source[u]
  BY <1>1, <1>2, AppendGrows DEF RecorderInv, RecorderTypeOK, Stored, row
<1>4. /\ Len(source'[t]) = Len(source[t]) + 1
      /\ \A k \in 1 .. Len(source[t]) : source'[t][k] = source[t][k]
      /\ source'[t][Len(source[t]) + 1] = row
  BY <1>1, <1>2, <1>3, AppendGrows
<1>5. now \in Nat /\ decided \in Seq(Decision)
  BY TimesAreNat DEF RecorderInv, RecorderTypeOK
<1>6. Grows
  <2>1. ASSUME NEW u \in Tables
        PROVE  /\ Len(source[u]) <= Len(source'[u])
               /\ \A k \in 1 .. Len(source[u]) : source'[u][k] = source[u][k]
    <3>1. Len(source[u]) \in Nat
      BY <1>2
    <3>2. CASE u = t
      BY <1>4, <3>1, <3>2
    <3>3. CASE u # t
      BY <1>3, <3>1, <3>3
    <3> QED
      BY <3>2, <3>3
  <2>2. now <= now' /\ decided' = decided /\ Len(decided) \in Nat
    BY <1>5
  <2> QED
    BY <2>1, <2>2 DEF Grows
<1>7. ASSUME NEW u \in Tables, NEW k \in 1 .. Len(source'[u])
      PROVE  source'[u][k].at <= now'
  <2>1. CASE u = t /\ k = Len(source[t]) + 1
    BY <1>1, <1>4, <2>1
  <2>2. CASE u # t \/ k # Len(source[t]) + 1
    <3>1. k \in 1 .. Len(source[u]) /\ source'[u][k] = source[u][k]
      BY <1>2, <1>3, <1>4, <1>7, <2>2
    <3> QED
      BY <3>1 DEF RecorderInv
  <2> QED
    BY <2>1, <2>2
<1>8. RecorderTypeOK'
  BY <1>3 DEF RecorderInv, RecorderTypeOK, Cells
<1>9. \A v \in Writers :
        /\ writer'[v].stamp <= now'
        /\ writer'[v].pc \in {"readings", "forecasts"} => writer'[v].stamp \in Times
  BY <1>5 DEF RecorderInv, Settled
<1>10. \A k \in 1 .. Len(decided') : k <= Len(decided)
  BY <1>5
<1> QED
  BY <1>6, <1>7, <1>8, <1>9, <1>10, RecorderKept

\* One thread goes on to a state with nothing in hand.
LEMMA OneSettles ==
  ASSUME RecorderInv, NEW w \in Writers, NEW x \in Cells, Settled(x),
         writer' = [writer EXCEPT ![w] = x]
  PROVE  /\ writer' \in [Writers -> Cells]
         /\ writer'["loop"].todo \subseteq writer["loop"].todo
         /\ \A v \in Writers : writer'[v] = writer[v] \/ Settled(writer'[v])
<1>1. writer \in [Writers -> Cells] /\ "loop" \in Writers
  BY DEF RecorderInv, RecorderTypeOK, Cells, Writers
<1> QED
  BY <1>1 DEF Settled

LEMMA SourceRows ==
  ASSUME RecorderInv
  PROVE  \A t \in Tables : SourceIds[t] = 1 .. Len(source[t]) /\ SourceIds[t] \subseteq Nat
<1>1. \A t \in Tables : source[t] \in Seq(Row)
  BY DEF RecorderInv, RecorderTypeOK
<1>2. \A t \in Tables : DOMAIN source[t] = 1 .. Len(source[t])
  BY <1>1
<1> QED
  BY <1>2 DEF SourceIds

\* A thread gives up what it has in hand.
LEMMA WriterIdles ==
  ASSUME RecorderInv, UNCHANGED <<now, source, decided>>,
         NEW w \in Writers, writer' = [writer EXCEPT ![w] = Idle]
  PROVE  RecorderInv' /\ Grows
<1>1. now \in Nat /\ 0 <= now
  BY TimesAreNat DEF RecorderInv, RecorderTypeOK
<1>2. /\ Idle \in Cells /\ Idle.stamp <= now
      /\ Idle.pc \in {"readings", "forecasts"} => Idle.stamp \in Times
      /\ \A e \in Idle.todo : Grounded(source["readings"], e, now)
  BY <1>1, IdleIsCell
<1> QED
  BY <1>2, WriterMoves

LEMMA RecorderActs ==
  ASSUME RecorderInv, RecorderNext
  PROVE  RecorderInv' /\ Grows
<1>1. /\ writer \in [Writers -> Cells] /\ now \in Times /\ now \in Nat
      /\ source \in [Tables -> Seq(Row)] /\ decided \in Seq(Decision)
      /\ "loop" \in Writers
  BY TimesAreNat DEF RecorderInv, RecorderTypeOK, Cells, Writers
<1>2. \A w \in Writers :
        /\ writer[w] \in Cells /\ writer[w].stamp <= now
        /\ writer[w].pc \in {"readings", "forecasts"} => writer[w].stamp \in Times
  BY <1>1 DEF RecorderInv
<1>3. CASE Clock
  <2>1. now' = now + 1 /\ UNCHANGED <<source, writer, decided>> /\ now' \in Times /\ now' \in Nat
    BY <1>1, <1>3, RecorderAssumption DEF Clock, Times
  <2>2. /\ Grows
        /\ \A t \in Tables : \A k \in 1 .. Len(source'[t]) : source'[t][k].at <= now'
    <3>1. now <= now' /\ UNCHANGED <<source, decided>> /\ now' \in Times
      BY <1>1, <2>1
    <3> QED
      BY <3>1, TablesStay
  <2>3. ASSUME NEW w \in Writers
        PROVE  writer'[w].stamp <= now'
    <3>0. writer' = writer
      BY <2>1
    <3>1. writer[w] \in Cells /\ writer'[w] = writer[w] /\ writer[w].stamp <= now
      BY <1>2, <2>3, <3>0
    <3>2. writer[w].stamp \in Times \cup {0}
      BY <3>1 DEF Cells
    <3>3. writer[w].stamp \in Nat
      BY <3>2, TimesAreNat
    <3> QED
      BY <1>1, <2>1, <3>1, <3>3
  <2>4. RecorderTypeOK'
    BY <2>1 DEF RecorderInv, RecorderTypeOK
  <2>5. \A w \in Writers : writer'[w].pc \in {"readings", "forecasts"} => writer'[w].stamp \in Times
    BY <1>2, <2>1
  <2>6. (\A e \in writer'["loop"].todo : e \in writer["loop"].todo)
        /\ \A k \in 1 .. Len(decided') : k <= Len(decided)
    BY <1>1, <2>1
  <2> QED
    BY <2>2, <2>3, <2>4, <2>5, <2>6, RecorderKept
<1>4. ASSUME NEW w \in Writers, NEW t \in Tables, StoreRaw(w, t)
      PROVE  RecorderInv' /\ Grows
  <2> DEFINE x == [Idle EXCEPT !.pc = t, !.stamp = now]
  <2>1. x \in Cells /\ x.stamp = now /\ x.todo = {}
    BY <1>1, <1>4 DEF Idle, Cells, StoreRaw
  <2>2. UNCHANGED <<now, source, decided>> /\ writer' = [writer EXCEPT ![w] = x]
    BY <1>4 DEF StoreRaw
  <2> HIDE DEF x
  <2>3. x.stamp <= now /\ (x.pc \in {"readings", "forecasts"} => x.stamp \in Times)
    BY <1>1, <2>1
  <2>4. \A e \in x.todo : Grounded(source["readings"], e, now)
    BY <2>1
  <2> QED
    BY <2>1, <2>2, <2>3, <2>4, WriterMoves
<1>5. ASSUME NEW w \in Writers, Fail(w)
      PROVE  RecorderInv' /\ Grows
  <2>1. UNCHANGED <<now, source, decided>> /\ writer' = [writer EXCEPT ![w] = Idle]
    BY <1>5 DEF Fail
  <2> QED
    BY <1>1, <2>1, WriterIdles
<1>6. ASSUME NEW w \in Writers, StoreReading(w)
      PROVE  RecorderInv' /\ Grows
  <2>1. /\ UNCHANGED <<now, decided>> /\ writer' = [writer EXCEPT ![w] = Idle]
        /\ source' = Stored("readings", writer[w].stamp, "none")
        /\ writer[w].stamp \in Times /\ writer[w].stamp <= now
        /\ "readings" \in Tables /\ "none" \in Asks
    BY <1>2, <1>6 DEF StoreReading, Tables, Asks
  <2> QED
    BY <2>1, IdleIsCell, OneSettles, RowStored DEF Settled
<1>7. CASE StoreForecasts
  <2> DEFINE x == [Idle EXCEPT !.pc = "samples"]
  <2>1. x \in Cells /\ x.stamp = 0 /\ x.todo = {} /\ x.pc = "samples"
    BY DEF Idle, Cells
  <2>2. /\ UNCHANGED <<now, decided>> /\ writer' = [writer EXCEPT !["loop"] = x]
        /\ source' = Stored("forecasts", writer["loop"].stamp, "none")
        /\ writer["loop"].stamp \in Times /\ writer["loop"].stamp <= now
        /\ "forecasts" \in Tables /\ "none" \in Asks
    BY <1>1, <1>2, <1>7 DEF StoreForecasts, Tables, Asks
  <2> HIDE DEF x
  <2> QED
    BY <1>1, <2>1, <2>2, OneSettles, RowStored DEF Settled
<1>8. CASE StoreSamples
  <2>1. /\ UNCHANGED <<now, decided>> /\ writer' = [writer EXCEPT !["loop"] = Idle]
        /\ source' = Stored("samples", now, "none") /\ now <= now
        /\ "samples" \in Tables /\ "none" \in Asks
    BY <1>1, <1>8 DEF StoreSamples, Tables, Asks
  <2> QED
    BY <1>1, <2>1, IdleIsCell, OneSettles, RowStored DEF Settled
<1>9. CASE StoreBook
  <2>1. PICK ask \in Books : source' = Stored("books", now, ask)
    BY <1>9 DEF StoreBook
  <2>2. /\ UNCHANGED <<now, writer, decided>>
        /\ now <= now /\ "books" \in Tables /\ ask \in Asks
    BY <1>1, <1>9, RecorderAssumption DEF StoreBook, Tables
  <2> QED
    BY <1>1, <2>1, <2>2, RowStored
<1>10. CASE TickForecast
  <2> DEFINE todos == ForecastEvents(SourceIds, decided, now)
             x == [Idle EXCEPT !.pc = "tick", !.todo = todos]
  <2>1. todos \subseteq Events /\ \A e \in todos : e[1] = "forecast"
    BY SourceRows, EventsOfRows
  <2> HIDE DEF todos
  <2>2. x \in Cells /\ x.stamp = 0 /\ x.pc = "tick" /\ x.todo = todos
    BY <2>1 DEF Idle, Cells
  <2>3. \A e \in todos : Grounded(source["readings"], e, now)
    BY <2>1 DEF Grounded
  <2>4. UNCHANGED <<now, source, decided>> /\ writer' = [writer EXCEPT !["loop"] = x]
    BY <1>10 DEF TickForecast, todos
  <2> HIDE DEF x
  <2>5. x.stamp <= now /\ (x.pc \in {"readings", "forecasts"} => x.stamp \in Times)
    BY <1>1, <2>2
  <2>6. \A e \in x.todo : Grounded(source["readings"], e, now)
    BY <2>2, <2>3
  <2> QED
    BY <1>1, <2>2, <2>4, <2>5, <2>6, WriterMoves
<1>11. CASE TickReadings
  <2> DEFINE todos == ReadingEvents(SourceIds, decided)
             x == [Idle EXCEPT !.pc = "cross", !.todo = todos]
             rows == source["readings"]
  <2>1. rows \in Seq(Row) /\ Len(rows) \in Nat /\ SourceIds["readings"] = 1 .. Len(rows)
    BY <1>1 DEF SourceIds, Tables
  <2>2. /\ todos \subseteq Events
        /\ \A e \in todos : e[1] = "reading" /\ e[2] \in Neighbours(1 .. Len(rows))
    <3>1. \A t \in Tables : SourceIds[t] \subseteq Nat
      BY SourceRows
    <3>2. /\ todos \subseteq Events
          /\ \A e \in todos : e[1] = "reading" /\ e[2] \in Neighbours(SourceIds["readings"])
      BY <3>1, EventsOfRows
    <3> QED
      BY <2>1, <3>2
  <2> HIDE DEF todos, rows
  <2>3. x \in Cells /\ x.stamp = 0 /\ x.pc = "cross" /\ x.todo = todos
    BY <2>2 DEF Idle, Cells
  <2>4. \A k \in 1 .. Len(rows) : rows[k].at <= now
    BY DEF RecorderInv, rows, Tables
  <2>5. \A e \in todos : Grounded(rows, e, now)
    <3> SUFFICES ASSUME NEW e \in todos PROVE Grounded(rows, e, now)
      OBVIOUS
    <3>1. e[2][1] \in Nat \ {0} /\ e[2][2] = e[2][1] + 1 /\ e[2][2] <= Len(rows)
      BY <2>1, <2>2, NeighboursOfPrefix
    <3> QED
      BY <2>1, <2>4, <3>1 DEF Grounded
  <2>6. UNCHANGED <<now, source, decided>> /\ writer' = [writer EXCEPT !["loop"] = x]
    BY <1>11 DEF TickReadings, todos
  <2>7. \A e \in x.todo : Grounded(source["readings"], e, now)
    BY <2>3, <2>5 DEF rows
  <2> HIDE DEF x
  <2>8. x.stamp <= now /\ (x.pc \in {"readings", "forecasts"} => x.stamp \in Times)
    BY <1>1, <2>3
  <2> QED
    BY <1>1, <2>3, <2>6, <2>7, <2>8, WriterMoves
<1>12. CASE TickDecide
  <2>1. PICK e \in FirstOf(writer["loop"].todo) :
          /\ decided' = Append(decided, [event |-> e, at |-> now])
          /\ writer' = [writer EXCEPT !["loop"].todo = @ \ {e}]
    BY <1>12 DEF TickDecide
  <2>2. UNCHANGED <<now, source>>
    BY <1>12 DEF TickDecide
  <2>3. e \in writer["loop"].todo /\ e \in Events
    BY <1>1, <1>2, <2>1 DEF FirstOf, Cells
  <2> DEFINE d == [event |-> e, at |-> now]
  <2>4. d \in Decision /\ d.event = e /\ d.at = now
    BY <1>1, <2>3 DEF Decision
  <2> HIDE DEF d
  <2>5. /\ decided' \in Seq(Decision) /\ Len(decided') = Len(decided) + 1
        /\ \A k \in 1 .. Len(decided) : decided'[k] = decided[k]
        /\ decided'[Len(decided) + 1] = d
    BY <1>1, <2>1, <2>4, AppendGrows DEF d
  <2>6. Grounded(source["readings"], e, now)
    BY <2>3 DEF RecorderInv
  <2>7. /\ writer' \in [Writers -> Cells]
        /\ writer'["loop"].todo \subseteq writer["loop"].todo
        /\ \A w \in Writers : writer'[w].stamp = writer[w].stamp /\ writer'[w].pc = writer[w].pc
    BY <1>1, <1>2, <2>1 DEF Cells
  <2>8. Grows
    <3>1. \A t \in Tables : Len(source[t]) \in Nat
      BY <1>1
    <3> QED
      BY <1>1, <2>2, <2>5, <3>1 DEF Grows
  <2>9. RecorderTypeOK'
    BY <2>2, <2>5, <2>7 DEF RecorderInv, RecorderTypeOK, Cells
  <2>10. \A k \in 1 .. Len(decided') :
           \/ k <= Len(decided)
           \/ Grounded(source'["readings"], decided'[k].event, decided'[k].at)
    BY <1>1, <2>2, <2>4, <2>5, <2>6
  <2>11. /\ \A t \in Tables : \A k \in 1 .. Len(source'[t]) : source'[t][k].at <= now'
         /\ \A w \in Writers : writer'[w].stamp <= now'
         /\ \A w \in Writers : writer'[w].pc \in {"readings", "forecasts"} => writer'[w].stamp \in Times
    BY <1>2, <2>2, <2>7 DEF RecorderInv
  <2>12. \A f \in writer'["loop"].todo : f \in writer["loop"].todo
    BY <2>7
  <2> QED
    BY <2>8, <2>9, <2>10, <2>11, <2>12, RecorderKept
<1>13. CASE TickEnd
  <2>1. UNCHANGED <<now, source, decided>> /\ writer' = [writer EXCEPT !["loop"] = Idle]
    BY <1>13 DEF TickEnd
  <2> QED
    BY <1>1, <2>1, WriterIdles
<1> QED
  BY <1>3, <1>4, <1>5, <1>6, <1>7, <1>8, <1>9, <1>10, <1>11, <1>12, <1>13 DEF RecorderNext

-----------------------------------------------------------------------------
(* The replay.  The loaded rows are the first ones of the source, each     *)
(* once, in the order of their availability; the pointer of a table splits *)
(* them at the time of the tick; and the crosses of every tick before, and *)
(* of this one when it is over, are decided with a stamp not later.        *)

Ticking == InTick \cup {"next", "done"}

MemoryInv ==
  \A t \in Tables :
    /\ \A i \in 1 .. Len(loaded[t]) :
         /\ loaded[t][i].id \in 1 .. Len(source[t])
         /\ loaded[t][i].at = source[t][loaded[t][i].id].at
    /\ \A k \in 1 .. Len(loaded[t]) : \E i \in 1 .. Len(loaded[t]) : loaded[t][i].id = k
    /\ \A a, b \in 1 .. Len(loaded[t]) : a < b => loaded[t][a].at <= loaded[t][b].at

PointerInv ==
  \A t \in Tables :
    /\ db.rows[t] = {loaded[t][i].id : i \in 1 .. index[t]}
    /\ \A i \in 1 .. index[t] : loaded[t][i].at <= tick
    /\ index[t] < Len(loaded[t]) => tick < loaded[t][index[t] + 1].at

StageInv ==
  /\ stage \in Setup =>
       /\ db = Empty /\ tick = 0 /\ before = 0 /\ todo = {}
       /\ \A t \in Tables : index[t] = 0
  /\ stage \in {"paper", "cross"} => kind = "backtest"
  /\ stage \in {"signal", "execute", "order"} => kind = "experiment"
  /\ stage \in InTick => tick \in ticks
  /\ stage \in {"execute", "order"} => db.tried # <<>>
  /\ stage = "done" => \A at \in ticks : at <= tick

HeardInv ==
  /\ stage \notin {"idle", "copied"} =>
       \A k \in 1 .. heard : decided[k].at \in Day => decided[k].at \in ticks
  /\ stage \in Ticking \cup {"books"} =>
       \A k \in 1 .. heard :
         decided[k].event[1] = "reading" => decided[k].event[2][2] <= Len(loaded["readings"])

\* The decisions that already carry the time of their tick.
Dated == IF stage \in InTick THEN before ELSE Len(db.made)

Over(at) == at < tick \/ (at = tick /\ stage \notin InTick)

CrossInv ==
  kind = "backtest" =>
    /\ \A n \in 1 .. Dated : db.made[n].at <= tick
    /\ \A at \in ticks : Over(at) =>
         \A p \in Neighbours(Known("readings", at)) :
           \E n \in 1 .. Dated : db.made[n].event = <<"reading", p>> /\ db.made[n].at <= at
    /\ stage = "cross" =>
         \A p \in Neighbours(db.rows["readings"]) :
           <<"reading", p>> \in todo \cup Processed(db.made)

IInv ==
  /\ RecorderInv /\ TypeOK /\ MemoryInv /\ PointerInv /\ StageInv /\ HeardInv /\ CrossInv

-----------------------------------------------------------------------------
(* What the invariant says of a tick.                                      *)

LEMMA Types ==
  ASSUME TypeOK
  PROVE  /\ \A t \in Tables : /\ source[t] \in Seq(Row) /\ Len(source[t]) \in Nat
                              /\ loaded[t] \in Seq(Available) /\ Len(loaded[t]) \in Nat
                              /\ index[t] \in Nat /\ index[t] <= Len(loaded[t])
                              /\ Len(loaded[t]) <= Len(source[t])
                              /\ db.rows[t] \subseteq Nat
         /\ decided \in Seq(Decision) /\ Len(decided) \in Nat
         /\ db.made \in Seq(Decision) /\ Len(db.made) \in Nat
         /\ tick \in Nat /\ now \in Nat /\ before \in Nat /\ heard \in Nat
         /\ ticks \subseteq Times /\ ticks \subseteq Nat
<1>1. db \in Database
  BY DEF TypeOK
<1>2. db.made \in Seq(Decision) /\ \A t \in Tables : db.rows[t] \subseteq Nat
  BY <1>1 DEF Database
<1>3. ticks \subseteq Times /\ ticks \subseteq Nat /\ tick \in Nat /\ now \in Nat
  BY TimesAreNat, ReplayAssumption DEF TypeOK, RecorderTypeOK
<1> QED
  BY <1>2, <1>3 DEF TypeOK, RecorderTypeOK

LEMMA LoadedTimes ==
  ASSUME TypeOK, NEW t \in Tables, NEW i \in 1 .. Len(loaded[t])
  PROVE  loaded[t][i].at \in Times /\ loaded[t][i].at \in Nat /\ loaded[t][i].id \in Nat
<1>1. loaded[t][i] \in Available
  BY Types
<1> QED
  BY <1>1, TimesAreNat DEF Available

LEMMA DecisionTimes ==
  ASSUME NEW s \in Seq(Decision), NEW n \in 1 .. Len(s)
  PROVE  s[n] \in Decision /\ s[n].at \in Times /\ s[n].at \in Nat /\ s[n].event \in Events
<1>1. s[n] \in Decision
  OBVIOUS
<1> QED
  BY <1>1, TimesAreNat DEF Decision

LEMMA SeesKnown ==
  ASSUME TypeOK, MemoryInv, PointerInv, NEW t \in Tables
  PROVE  db.rows[t] = Known(t, tick)
<1>1. /\ index[t] \in Nat /\ Len(loaded[t]) \in Nat /\ index[t] <= Len(loaded[t])
      /\ tick \in Nat /\ DOMAIN loaded[t] = 1 .. Len(loaded[t])
  BY Types
<1>2. ASSUME NEW i \in 1 .. Len(loaded[t])
      PROVE  loaded[t][i].at <= tick <=> i \in 1 .. index[t]
  <2>1. CASE i <= index[t]
    BY <1>1, <1>2, <2>1 DEF PointerInv
  <2>2. CASE i > index[t]
    <3>1. index[t] + 1 \in 1 .. Len(loaded[t]) /\ tick < loaded[t][index[t] + 1].at
      BY <1>1, <2>2 DEF PointerInv
    <3>2. loaded[t][index[t] + 1].at <= loaded[t][i].at
      <4>1. CASE i = index[t] + 1
        BY <3>1, <4>1, LoadedTimes
      <4>2. CASE index[t] + 1 < i
        BY <1>1, <3>1, <4>2 DEF MemoryInv
      <4> QED
        BY <1>1, <2>2, <4>1, <4>2
    <3>3. loaded[t][i].at \in Nat /\ loaded[t][index[t] + 1].at \in Nat
      BY <3>1, LoadedTimes
    <3> QED
      BY <1>1, <2>2, <3>1, <3>2, <3>3
  <2> QED
    BY <1>1, <2>1, <2>2
<1>3. {i \in DOMAIN loaded[t] : loaded[t][i].at <= tick} = 1 .. index[t]
  BY <1>1, <1>2
<1> QED
  BY <1>3 DEF PointerInv, Known

-----------------------------------------------------------------------------
(* The start, and the recorder's steps.                                    *)

LEMMA EmptyFields ==
  /\ Empty \in Database /\ Empty.made = <<>> /\ Empty.position = 0
  /\ \A t \in Tables : Empty.rows[t] = {}
<1>1. <<>> \in Seq(Decision)
  OBVIOUS
<1>2. [t \in Tables |-> {}] \in [Tables -> SUBSET Nat]
  OBVIOUS
<1>3. /\ <<>> \in Seq([forecast : Nat, action : {"BUY", "SKIP"}, at : Times])
      /\ <<>> \in Seq([forecast : Nat, status : {"filled", "rejected"}, at : Times])
  OBVIOUS
<1> QED
  BY <1>1, <1>2, <1>3 DEF Empty, Database

\* The replay has nothing yet.
Blank ==
  /\ stage = "idle" /\ kind = "backtest" /\ db = Empty
  /\ loaded = [t \in Tables |-> <<>>] /\ index = [t \in Tables |-> 0]
  /\ ticks = {} /\ tick = 0 /\ before = 0 /\ todo = {} /\ heard = 0

LEMMA BlankIsInv == RecorderInv /\ Blank => IInv
<1> SUFFICES ASSUME RecorderInv, Blank PROVE IInv
  OBVIOUS
<1>1. \A t \in Tables :
        /\ loaded[t] = <<>> /\ Len(loaded[t]) = 0 /\ index[t] = 0
        /\ loaded[t] \in Seq(Available) /\ db.rows[t] = {}
        /\ Len(source[t]) \in Nat
  BY EmptyFields DEF Blank, RecorderInv, RecorderTypeOK
<1>2. /\ decided \in Seq(Decision) /\ Len(decided) \in Nat
      /\ db.made = <<>> /\ Len(db.made) = 0
  BY EmptyFields DEF Blank, RecorderInv, RecorderTypeOK
<1>3. TypeOK
  <2>1. loaded \in [Tables -> Seq(Available)] /\ index \in [Tables -> Nat]
    BY <1>1 DEF Blank
  <2>2. stage \in Stages /\ kind \in Kinds /\ db \in Database
    BY EmptyFields DEF Blank, Stages, Setup, Kinds
  <2> QED
    BY <1>1, <1>2, <2>1, <2>2 DEF TypeOK, Blank, RecorderInv
<1>4. MemoryInv
  BY <1>1 DEF MemoryInv
<1>5. PointerInv
  BY <1>1 DEF PointerInv
<1>6. StageInv /\ HeardInv
  BY <1>1 DEF StageInv, HeardInv, Blank, Setup, Ticking, InTick
<1>7. CrossInv
  BY <1>2 DEF CrossInv, Blank, Dated, InTick
<1> QED
  BY <1>3, <1>4, <1>5, <1>6, <1>7 DEF IInv

LEMMA ReplayStarts == Init => IInv
BY RecorderStarts, BlankIsInv DEF Init, Blank

LEMMA LeaveKeeps ==
  ASSUME IInv, Leave
  PROVE  IInv'
<1>1. RecorderInv'
  BY DEF IInv, Leave, recorderVars, RecorderInv, RecorderTypeOK
<1>2. Blank'
  BY DEF Leave, Blank
<1> QED
  BY <1>1, <1>2, BlankIsInv, PTL

LEMMA RecordingKeeps ==
  ASSUME IInv, RecorderNext, UNCHANGED replayVars
  PROVE  IInv'
<1>1. RecorderInv' /\ Grows
  BY RecorderActs DEF IInv
<1>2. /\ stage' = stage /\ kind' = kind /\ db' = db /\ loaded' = loaded /\ index' = index
      /\ ticks' = ticks /\ tick' = tick /\ before' = before /\ todo' = todo /\ heard' = heard
  BY DEF replayVars
<1>3. TypeOK
  BY DEF IInv
<1>4. \A t \in Tables :
        /\ Len(source[t]) \in Nat /\ Len(source'[t]) \in Nat /\ Len(source[t]) <= Len(source'[t])
        /\ DOMAIN source[t] = 1 .. Len(source[t]) /\ DOMAIN source'[t] = 1 .. Len(source'[t])
        /\ \A k \in 1 .. Len(source[t]) : source'[t][k] = source[t][k]
  BY <1>1 DEF RecorderInv, RecorderTypeOK, Grows, IInv
<1>5. /\ Len(decided) \in Nat /\ Len(decided') \in Nat /\ Len(decided) <= Len(decided')
      /\ \A k \in 1 .. Len(decided) : decided'[k] = decided[k]
      /\ heard \in 0 .. Len(decided)
  BY <1>1, <1>3 DEF RecorderInv, RecorderTypeOK, Grows, IInv, TypeOK
<1>6. TypeOK'
  <2>1. \A t \in Tables :
          /\ index'[t] <= Len(loaded'[t]) /\ Len(loaded'[t]) <= Len(source'[t])
          /\ db'.rows[t] \subseteq DOMAIN source'[t]
    <3>1. \A t \in Tables : Len(loaded[t]) \in Nat
      BY <1>3, Types
    <3> QED
      BY <1>2, <1>3, <1>4, <3>1 DEF TypeOK
  <2>2. heard' \in 0 .. Len(decided') /\ RecorderTypeOK'
    BY <1>1, <1>2, <1>5 DEF RecorderInv
  <2> QED
    BY <1>2, <1>3, <2>1, <2>2 DEF TypeOK
<1>7. MemoryInv'
  <2>1. ASSUME NEW t \in Tables, NEW i \in 1 .. Len(loaded[t])
        PROVE  /\ loaded[t][i].id \in 1 .. Len(source'[t])
               /\ loaded[t][i].at = source'[t][loaded[t][i].id].at
    <3>1. /\ loaded[t][i].id \in 1 .. Len(source[t])
          /\ loaded[t][i].at = source[t][loaded[t][i].id].at
      BY DEF IInv, MemoryInv
    <3> QED
      BY <1>4, <3>1
  <2> QED
    BY <1>2, <2>1 DEF IInv, MemoryInv
<1>8. PointerInv' /\ StageInv'
  BY <1>2 DEF IInv, PointerInv, StageInv
<1>9. HeardInv'
  <2>1. \A k \in 1 .. heard : decided'[k] = decided[k]
    BY <1>5
  <2> QED
    BY <1>2, <2>1 DEF IInv, HeardInv
<1>10. CrossInv'
  <2>1. Dated' = Dated /\ Processed(db.made)' = Processed(db.made)
    BY <1>2 DEF Dated, Processed
  <2>2. \A at \in ticks : (Over(at)' <=> Over(at)) /\ Known("readings", at)' = Known("readings", at)
    BY <1>2 DEF Over, Known
  <2>3. Neighbours(db.rows["readings"])' = Neighbours(db.rows["readings"])
    BY <1>2 DEF Neighbours
  <2>4. \A at \in ticks :
          Neighbours(Known("readings", at))' = Neighbours(Known("readings", at))
    BY <2>2 DEF Neighbours
  <2> QED
    BY <1>2, <2>1, <2>2, <2>3, <2>4 DEF IInv, CrossInv
<1> QED
  BY <1>1, <1>6, <1>7, <1>8, <1>9, <1>10 DEF IInv

-----------------------------------------------------------------------------
(* Setting up.                                                             *)

LEMMA RecorderRests == RecorderInv /\ UNCHANGED recorderVars => RecorderInv'
BY DEF recorderVars, RecorderInv, RecorderTypeOK

\* While the times and the rows are read the scratch database is empty.
LEMMA SetupKept ==
  ASSUME IInv, stage \in Setup, stage' \in Setup \cup {"next"}, kind' \in Kinds,
         UNCHANGED <<recorderVars, index, tick, before, todo>>, db' = Empty,
         ticks' \subseteq Day, heard' \in 0 .. Len(decided),
         loaded' \in [Tables -> Seq(Available)],
         \A t \in Tables : Len(loaded'[t]) <= Len(source[t]),
         MemoryInv', HeardInv'
  PROVE  IInv'
<1>1. RecorderInv'
  BY RecorderRests DEF IInv
<1>2. /\ UNCHANGED <<now, source, writer, decided>>
      /\ tick = 0 /\ before = 0 /\ todo = {} /\ \A t \in Tables : index[t] = 0
      /\ UNCHANGED <<index, tick, before, todo>>
      /\ index \in [Tables -> Nat]
  BY DEF IInv, StageInv, TypeOK, recorderVars
<1>3. \A t \in Tables : Len(loaded'[t]) \in Nat /\ 0 <= Len(loaded'[t]) /\ db'.rows[t] = {}
  BY EmptyFields
<1>4. db'.made = <<>> /\ Len(db'.made) = 0
  BY EmptyFields
<1>5. TypeOK'
  <2>1. RecorderTypeOK'
    BY <1>1 DEF RecorderInv
  <2>2. stage' \in Stages /\ db' \in Database
    BY EmptyFields DEF Stages
  <2>3. tick' \in ticks' \cup {0} /\ before' \in 0 .. Len(db'.made) /\ todo' \subseteq Events
    BY <1>2, <1>4
  <2>4. heard' \in 0 .. Len(decided') /\ index' \in [Tables -> Nat]
    BY <1>2
  <2>5. \A t \in Tables :
          /\ index'[t] <= Len(loaded'[t]) /\ Len(loaded'[t]) <= Len(source'[t])
          /\ db'.rows[t] \subseteq DOMAIN source'[t]
    BY <1>2, <1>3
  <2> QED
    BY <2>1, <2>2, <2>3, <2>4, <2>5 DEF TypeOK
<1>6. PointerInv'
  <2>1. ASSUME NEW t \in Tables, 0 < Len(loaded'[t])
        PROVE  0 < loaded'[t][1].at
    <3>1. loaded'[t][1] \in Available
      BY <1>3, <2>1
    <3>2. loaded'[t][1].at \in Times
      BY <3>1 DEF Available
    <3>3. loaded'[t][1].at \in Nat /\ loaded'[t][1].at # 0
      BY <3>2, TimesAreNat
    <3> QED
      BY <3>3
  <2> QED
    BY <1>2, <1>3, <2>1 DEF PointerInv
<1>7. StageInv'
  BY <1>2 DEF StageInv, Setup, InTick
<1>8. CrossInv'
  <2>1. \A at \in ticks' : ~(at < 0) /\ at # 0
    BY TimesAreNat, ReplayAssumption
  <2>2. Dated' = 0
    BY <1>2, <1>4 DEF Dated
  <2>3. \A at \in ticks' : ~(at < tick' \/ (at = tick' /\ stage' \notin InTick))
    BY <1>2, <2>1
  <2>4. stage' # "cross"
    BY DEF Setup
  <2> QED
    BY <2>2, <2>3, <2>4 DEF CrossInv, Over
<1> QED
  BY <1>1, <1>5, <1>6, <1>7, <1>8 DEF IInv

LEMMA CopyKeeps ==
  ASSUME IInv, Copy
  PROVE  IInv'
<1>1. /\ stage = "idle" /\ stage' = "copied" /\ kind' \in Kinds
      /\ UNCHANGED <<recorderVars, loaded, index, ticks, tick, before, todo, heard>>
  BY DEF Copy
<1>2. db' = Empty
  BY DEF Copy, Reset, CopyOfSource, Empty
<1>3. /\ ticks \subseteq Day /\ heard \in 0 .. Len(decided)
      /\ loaded \in [Tables -> Seq(Available)]
      /\ \A t \in Tables : Len(loaded[t]) <= Len(source[t])
  BY DEF IInv, TypeOK
<1>4. MemoryInv'
  BY <1>1 DEF IInv, MemoryInv, recorderVars
<1>5. HeardInv'
  BY <1>1 DEF HeardInv, Ticking, InTick
<1>6. stage \in Setup /\ stage' \in Setup
  BY <1>1 DEF Setup
<1> QED
  BY <1>1, <1>2, <1>3, <1>4, <1>5, <1>6, SetupKept

LEMMA ListTicksKeeps ==
  ASSUME IInv, ListTicks
  PROVE  IInv'
<1>1. PICK from \in TickSources :
        /\ ticks' = TickTimes(from)
        /\ heard' = IF "scheduler" \in from THEN Len(decided) ELSE 0
  BY DEF ListTicks
<1>2. /\ stage = "copied" /\ stage' = "forecasts" /\ stage \in Setup /\ stage' \in Setup
      /\ UNCHANGED <<recorderVars, kind, db, loaded, index, tick, before, todo>>
  BY DEF ListTicks, Setup
<1>3. /\ kind \in Kinds /\ db = Empty
      /\ loaded \in [Tables -> Seq(Available)] /\ Len(decided) \in Nat
      /\ DOMAIN decided = 1 .. Len(decided)
      /\ \A t \in Tables : Len(loaded[t]) <= Len(source[t])
  BY <1>2 DEF IInv, TypeOK, RecorderTypeOK, StageInv
<1>4. MemoryInv'
  BY <1>2 DEF IInv, MemoryInv, recorderVars
<1>5. HeardInv'
  <2>1. ASSUME NEW k \in 1 .. heard', decided'[k].at \in Day
        PROVE  decided'[k].at \in ticks'
    <3>1. "scheduler" \in from /\ k \in DOMAIN decided /\ decided' = decided
      BY <1>1, <1>2, <1>3, <2>1 DEF recorderVars
    <3> QED
      BY <1>1, <2>1, <3>1 DEF TickTimes, IsTickTime
  <2> QED
    BY <1>2, <2>1 DEF HeardInv, Ticking, InTick
<1>6. ticks' \subseteq Day /\ heard' \in 0 .. Len(decided)
  BY <1>1, <1>3 DEF TickTimes
<1> QED
  BY <1>2, <1>3, <1>4, <1>5, <1>6, SetupKept

\* What one table's load puts in memory.
LEMMA OrderingLoads ==
  ASSUME RecorderInv, NEW t \in Tables, NEW p \in Orderings(t), NEW list,
         list = [i \in DOMAIN source[t] |-> [id |-> p[i], at |-> source[t][p[i]].at]]
  PROVE  /\ list \in Seq(Available) /\ Len(list) = Len(source[t])
         /\ \A i \in 1 .. Len(list) :
              /\ list[i].id \in 1 .. Len(source[t])
              /\ list[i].at = source[t][list[i].id].at
         /\ \A k \in 1 .. Len(list) : \E i \in 1 .. Len(list) : list[i].id = k
         /\ \A a, b \in 1 .. Len(list) : a < b => list[a].at <= list[b].at
<1> DEFINE n == Len(source[t])
<1>1. source[t] \in Seq(Row) /\ n \in Nat /\ DOMAIN source[t] = 1 .. n
  BY DEF RecorderInv, RecorderTypeOK
<1>2. /\ p \in [1 .. n -> 1 .. n]
      /\ \A k \in 1 .. n : \E a \in 1 .. n : p[a] = k
      /\ \A a, b \in 1 .. n : a < b => Newer(t, p[b], p[a])
  BY <1>1 DEF Orderings, ComesFirst
<1>3. ASSUME NEW i \in 1 .. n
      PROVE  /\ list[i].id = p[i] /\ list[i].at = source[t][p[i]].at
             /\ p[i] \in 1 .. n /\ list[i] \in Available /\ list[i].at \in Nat
  <2>1. p[i] \in 1 .. n
    BY <1>2
  <2>2. source[t][p[i]].at \in Times /\ source[t][p[i]].at \in Nat
    BY <1>1, <2>1, RowTimes
  <2>3. list[i] = [id |-> p[i], at |-> source[t][p[i]].at]
    BY <1>1
  <2> QED
    BY <1>1, <2>1, <2>2, <2>3 DEF Available
<1>4. list \in [1 .. n -> Available]
  <2>1. list = [i \in 1 .. n |-> [id |-> p[i], at |-> source[t][p[i]].at]]
    BY <1>1
  <2>2. \A i \in 1 .. n : list[i] \in Available
    BY <1>3
  <2> QED
    BY <2>1, <2>2
<1>5. list \in Seq(Available) /\ Len(list) = n
  BY <1>1, <1>4
<1>6. \A a, b \in 1 .. n : a < b => list[a].at <= list[b].at
  <2> SUFFICES ASSUME NEW a \in 1 .. n, NEW b \in 1 .. n, a < b
               PROVE  list[a].at <= list[b].at
    OBVIOUS
  <2>1. Newer(t, p[b], p[a])
    BY <1>2
  <2>2. source[t][p[a]].at < source[t][p[b]].at \/ source[t][p[a]].at = source[t][p[b]].at
    BY <2>1 DEF Newer
  <2>3. /\ list[a].at = source[t][p[a]].at /\ list[b].at = source[t][p[b]].at
        /\ list[a].at \in Nat /\ list[b].at \in Nat
    BY <1>3
  <2> QED
    BY <2>2, <2>3
<1>7. \A i \in 1 .. n : list[i].id \in 1 .. n /\ list[i].at = source[t][list[i].id].at
  BY <1>3
<1>8. \A k \in 1 .. n : \E i \in 1 .. n : list[i].id = k
  BY <1>2, <1>3
<1> QED
  BY <1>5, <1>6, <1>7, <1>8

LEMMA LoadKeeps ==
  ASSUME IInv, NEW t \in Tables, Load(t)
  PROVE  IInv'
<1>1. PICK p \in Orderings(t) :
        loaded' = [loaded EXCEPT ![t] =
          [i \in DOMAIN source[t] |-> [id |-> p[i], at |-> source[t][p[i]].at]]]
  BY DEF Load
<1>2. /\ stage = t /\ stage' = AfterLoad(t) /\ stage \in Setup /\ stage' \in Setup \cup {"next"}
      /\ UNCHANGED <<recorderVars, kind, db, index, ticks, tick, before, todo, heard>>
      /\ UNCHANGED <<source, decided>>
  BY DEF Load, AfterLoad, Tables, Setup, recorderVars
<1> DEFINE list == loaded'[t]
<1>3. /\ RecorderInv /\ loaded \in [Tables -> Seq(Available)]
      /\ kind \in Kinds /\ db = Empty /\ ticks \subseteq Day /\ heard \in 0 .. Len(decided)
      /\ \A u \in Tables : Len(loaded[u]) <= Len(source[u])
  BY <1>2 DEF IInv, TypeOK, StageInv
<1>4. /\ list = [i \in DOMAIN source[t] |-> [id |-> p[i], at |-> source[t][p[i]].at]]
      /\ \A u \in Tables : u # t => loaded'[u] = loaded[u]
      /\ DOMAIN loaded' = Tables
  BY <1>1, <1>3
<1>5. /\ list \in Seq(Available) /\ Len(list) = Len(source[t])
      /\ \A i \in 1 .. Len(list) :
           /\ list[i].id \in 1 .. Len(source[t])
           /\ list[i].at = source[t][list[i].id].at
      /\ \A k \in 1 .. Len(list) : \E i \in 1 .. Len(list) : list[i].id = k
      /\ \A a, b \in 1 .. Len(list) : a < b => list[a].at <= list[b].at
  BY <1>3, <1>4, OrderingLoads
<1>6. loaded' \in [Tables -> Seq(Available)]
  <2>1. \E f : loaded' = [u \in Tables |-> f[u]]
    <3>1. loaded' = [u \in Tables |-> loaded'[u]]
      BY <1>1, <1>3
    <3> QED
      BY <3>1
  <2>2. \A u \in Tables : loaded'[u] \in Seq(Available)
    BY <1>3, <1>4, <1>5
  <2> QED
    BY <2>1, <2>2
<1>7. \A u \in Tables : Len(loaded'[u]) <= Len(source[u])
  <2>1. Len(source[t]) \in Nat
    BY <1>3 DEF RecorderInv, RecorderTypeOK
  <2> QED
    BY <1>3, <1>4, <1>5, <2>1
<1>8. MemoryInv'
  <2>1. ASSUME NEW u \in Tables, u # t
        PROVE  /\ \A i \in 1 .. Len(loaded'[u]) :
                    /\ loaded'[u][i].id \in 1 .. Len(source'[u])
                    /\ loaded'[u][i].at = source'[u][loaded'[u][i].id].at
               /\ \A k \in 1 .. Len(loaded'[u]) : \E i \in 1 .. Len(loaded'[u]) : loaded'[u][i].id = k
               /\ \A a, b \in 1 .. Len(loaded'[u]) : a < b => loaded'[u][a].at <= loaded'[u][b].at
    <3>1. loaded'[u] = loaded[u] /\ source'[u] = source[u]
      BY <1>2, <1>4, <2>1
    <3> QED
      BY <2>1, <3>1 DEF IInv, MemoryInv
  <2>2. /\ \A i \in 1 .. Len(list) :
             /\ list[i].id \in 1 .. Len(source'[t])
             /\ list[i].at = source'[t][list[i].id].at
        /\ \A k \in 1 .. Len(list) : \E i \in 1 .. Len(list) : list[i].id = k
        /\ \A a, b \in 1 .. Len(list) : a < b => list[a].at <= list[b].at
    BY <1>2, <1>5
  <2> QED
    BY <2>1, <2>2 DEF MemoryInv
<1>9. HeardInv'
  <2>1. stage \notin {"idle", "copied"}
    BY <1>2 DEF Tables
  <2>2. \A k \in 1 .. heard' : decided'[k].at \in Day => decided'[k].at \in ticks'
    BY <1>2, <2>1 DEF IInv, HeardInv
  <2>3. ASSUME stage' \in Ticking \cup {"books"}, NEW k \in 1 .. heard',
               decided'[k].event[1] = "reading"
        PROVE  decided'[k].event[2][2] <= Len(loaded'["readings"])
    <3>1. CASE t = "readings"
      <4>1. decided[k].event[2][2] <= Len(source["readings"])
        <5>1. k \in 1 .. Len(decided) /\ decided[k].event[1] = "reading"
          BY <1>2, <1>3, <2>3 DEF RecorderInv, RecorderTypeOK
        <5> QED
          BY <1>3, <5>1 DEF RecorderInv, Grounded
      <4> QED
        BY <1>2, <1>5, <3>1, <4>1
    <3>2. CASE t # "readings"
      <4>1. stage \in Ticking \cup {"books"}
        BY <1>2, <2>3, <3>2 DEF Ticking, InTick, AfterLoad, Tables
      <4> QED
        BY <1>2, <1>4, <2>3, <3>2, <4>1 DEF IInv, HeardInv, Tables
    <3> QED
      BY <3>1, <3>2
  <2> QED
    BY <2>2, <2>3 DEF HeardInv
<1> QED
  BY <1>2, <1>3, <1>6, <1>7, <1>8, <1>9, SetupKept

-----------------------------------------------------------------------------
(* The next time.                                                          *)

LEMMA IngestReads ==
  ASSUME IInv, Ingest
  PROVE  /\ tick' \in ticks /\ tick < tick'
         /\ \A x \in ticks : tick < x => tick' <= x
         /\ \A t \in Tables : index'[t] \in Stops(t, tick')
         /\ index' \in [Tables -> Nat]
         /\ db' \in Database /\ db'.made = db.made
         /\ \A t \in Tables :
              db'.rows[t] = db.rows[t] \cup {loaded[t][i].id : i \in (index[t] + 1) .. index'[t]}
<1>1. PICK at \in NextTick : \E reach \in Reaches(at) :
        /\ tick' = at
        /\ index' = reach
        /\ db' = [db EXCEPT !.rows = [t \in Tables |-> @[t] \cup
             {loaded[t][i].id : i \in (index[t] + 1) .. reach[t]}]]
  BY DEF Ingest
<1>2. PICK reach \in Reaches(at) :
        /\ tick' = at
        /\ index' = reach
        /\ db' = [db EXCEPT !.rows = [t \in Tables |-> @[t] \cup
             {loaded[t][i].id : i \in (index[t] + 1) .. reach[t]}]]
  BY <1>1
<1>3. at \in ticks /\ at > tick /\ \A x \in ticks : x > tick => at <= x
  BY DEF NextTick, Ahead
<1>4. /\ tick \in Nat /\ ticks \subseteq Nat /\ db \in Database
      /\ \A t \in Tables : index[t] \in Nat /\ Len(loaded[t]) \in Nat /\ DOMAIN loaded[t] = 1 .. Len(loaded[t])
      /\ \A t \in Tables : db.rows[t] \subseteq Nat
  BY Types DEF IInv, TypeOK
<1>5. /\ \A t \in Tables : reach[t] \in Stops(t, at)
      /\ reach = [t \in Tables |-> reach[t]]
  <2>1. PICK f \in Stops("forecasts", at), s \in Stops("samples", at),
             r \in Stops("readings", at), b \in Stops("books", at) :
          reach = [forecasts |-> f, samples |-> s, readings |-> r, books |-> b]
    BY DEF Reaches
  <2> QED
    BY <2>1 DEF Tables
<1>6. \A t \in Tables : reach[t] \in Nat
  BY <1>4, <1>5 DEF Stops
<1>7. reach \in [Tables -> Nat]
  BY <1>5, <1>6
<1> DEFINE rows == [t \in Tables |-> db.rows[t] \cup
             {loaded[t][i].id : i \in (index[t] + 1) .. reach[t]}]
<1>8. \A t \in Tables : \A i \in (index[t] + 1) .. reach[t] : loaded[t][i].id \in Nat
  <2> SUFFICES ASSUME NEW t \in Tables, NEW i \in (index[t] + 1) .. reach[t]
               PROVE  loaded[t][i].id \in Nat
    OBVIOUS
  <2>1. i \in 1 .. Len(loaded[t])
    BY <1>4, <1>5 DEF Stops
  <2> QED
    BY <2>1, LoadedTimes DEF IInv
<1>9. rows \in [Tables -> SUBSET Nat]
  <2>1. \A t \in Tables : rows[t] \subseteq Nat
    BY <1>4, <1>8
  <2> QED
    BY <2>1
<1>10. \A t \in Tables :
         rows[t] = db.rows[t] \cup {loaded[t][i].id : i \in (index[t] + 1) .. reach[t]}
  OBVIOUS
<1>11. db' = [db EXCEPT !.rows = rows]
  BY <1>2
<1> HIDE DEF rows
<1>12. db' \in Database /\ db'.rows = rows /\ db'.made = db.made
  BY <1>4, <1>9, <1>11 DEF Database
<1> QED
  BY <1>2, <1>3, <1>4, <1>5, <1>7, <1>10, <1>12

LEMMA IngestPoints ==
  ASSUME IInv, Ingest
  PROVE  PointerInv'
<1>1. loaded' = loaded /\ tick \in Nat /\ tick' \in Nat /\ tick < tick'
  BY IngestReads, Types DEF Ingest, IInv
<1> SUFFICES ASSUME NEW t \in Tables
             PROVE  /\ db'.rows[t] = {loaded[t][i].id : i \in 1 .. index'[t]}
                    /\ \A i \in 1 .. index'[t] : loaded[t][i].at <= tick'
                    /\ index'[t] < Len(loaded[t]) => tick' < loaded[t][index'[t] + 1].at
  BY <1>1 DEF PointerInv
<1>2. /\ index[t] \in Nat /\ Len(loaded[t]) \in Nat /\ index'[t] \in Nat
      /\ index[t] <= index'[t] /\ index'[t] <= Len(loaded[t])
      /\ \A i \in (index[t] + 1) .. index'[t] : loaded[t][i].at <= tick'
      /\ index'[t] < Len(loaded[t]) => ~(loaded[t][index'[t] + 1].at <= tick')
  BY IngestReads, Types DEF IInv, Stops, Due
<1>3. /\ db.rows[t] = {loaded[t][i].id : i \in 1 .. index[t]}
      /\ \A i \in 1 .. index[t] : loaded[t][i].at <= tick
  BY DEF IInv, PointerInv
<1>4. db'.rows[t] = {loaded[t][i].id : i \in 1 .. index'[t]}
  <2>1. 1 .. index'[t] = (1 .. index[t]) \cup ((index[t] + 1) .. index'[t])
    BY <1>2
  <2>2. db'.rows[t] = db.rows[t] \cup {loaded[t][i].id : i \in (index[t] + 1) .. index'[t]}
    BY IngestReads
  <2> QED
    BY <1>3, <2>1, <2>2
<1>5. ASSUME NEW i \in 1 .. index'[t]
      PROVE  loaded[t][i].at <= tick'
  <2>1. CASE i <= index[t]
    <3>1. i \in 1 .. index[t] /\ i \in 1 .. Len(loaded[t])
      BY <1>2, <2>1
    <3>2. loaded[t][i].at <= tick /\ loaded[t][i].at \in Nat
      BY <1>3, <3>1, LoadedTimes DEF IInv
    <3> QED
      BY <1>1, <3>2
  <2>2. CASE i > index[t]
    BY <1>2, <2>2
  <2> QED
    BY <1>2, <2>1, <2>2
<1>6. ASSUME index'[t] < Len(loaded[t])
      PROVE  tick' < loaded[t][index'[t] + 1].at
  <2>1. index'[t] + 1 \in 1 .. Len(loaded[t])
    BY <1>2, <1>6
  <2>2. loaded[t][index'[t] + 1].at \in Nat
    BY <2>1, LoadedTimes DEF IInv
  <2> QED
    BY <1>1, <1>2, <1>6, <2>2
<1> QED
  BY <1>4, <1>5, <1>6

LEMMA IngestKeeps ==
  ASSUME IInv, Ingest
  PROVE  IInv'
<1>1. /\ stage = "next" /\ before' = Len(db.made)
      /\ UNCHANGED <<recorderVars, kind, loaded, ticks, heard>>
      /\ UNCHANGED <<now, source, writer, decided>>
      /\ \/ kind = "backtest" /\ stage' = "paper" /\ todo' = ForecastEvents(db'.rows, db.made, now)
         \/ kind = "experiment" /\ stage' = "signal" /\ todo' = {}
  BY DEF Ingest, recorderVars
<1>2. RecorderInv'
  BY <1>1, RecorderRests DEF IInv
<1>3. TypeOK /\ Len(db.made) \in Nat /\ Len(db'.made) = Len(db.made) /\ tick \in Nat /\ ticks \subseteq Nat
  BY IngestReads, Types DEF IInv
<1>4. db' \in Database /\ \A t \in Tables : db'.rows[t] \subseteq Nat
  BY IngestReads DEF Database
<1>5. TypeOK'
  <2>1. RecorderTypeOK' /\ stage' \in Stages /\ kind' \in Kinds
    BY <1>1, <1>2, <1>3 DEF RecorderInv, Stages, InTick, TypeOK
  <2>2. todo' \subseteq Events
    BY <1>1, <1>4, EventsOfRows
  <2>3. ASSUME NEW t \in Tables
        PROVE  /\ index'[t] <= Len(loaded'[t]) /\ Len(loaded'[t]) <= Len(source'[t])
               /\ db'.rows[t] \subseteq DOMAIN source'[t]
    <3>1. index'[t] \in Nat /\ index'[t] <= Len(loaded[t]) /\ Len(loaded[t]) \in Nat
      BY IngestReads, Types DEF Stops, IInv
    <3>2. DOMAIN source[t] = 1 .. Len(source[t])
      BY <1>3, Types
    <3>3. db'.rows[t] = {loaded[t][i].id : i \in 1 .. index'[t]}
      BY <1>1, IngestPoints DEF PointerInv
    <3>4. \A i \in 1 .. index'[t] : loaded[t][i].id \in 1 .. Len(source[t])
      BY <3>1 DEF IInv, MemoryInv
    <3> QED
      BY <1>1, <1>3, <3>1, <3>2, <3>3, <3>4 DEF TypeOK
  <2>4. tick' \in ticks' \cup {0} /\ before' \in 0 .. Len(db'.made)
    BY <1>1, <1>3, IngestReads
  <2> QED
    BY <1>1, <1>3, <1>4, <2>1, <2>2, <2>3, <2>4, IngestReads DEF TypeOK
<1>6. MemoryInv'
  BY <1>1 DEF IInv, MemoryInv
<1>7. StageInv'
  BY <1>1, IngestReads DEF StageInv, Setup
<1>8. HeardInv'
  BY <1>1 DEF IInv, HeardInv, Ticking, InTick
<1>9. CrossInv'
  <2> SUFFICES ASSUME kind' = "backtest"
               PROVE  /\ \A n \in 1 .. Dated' : db'.made[n].at <= tick'
                      /\ \A at \in ticks' : Over(at)' =>
                           \A p \in Neighbours(Known("readings", at)') :
                             \E n \in 1 .. Dated' : db'.made[n].event = <<"reading", p>> /\ db'.made[n].at <= at
                      /\ stage' # "cross"
    BY DEF CrossInv, Neighbours
  <2>1. /\ stage' = "paper" /\ kind = "backtest" /\ db'.made = db.made
        /\ tick' \in Nat /\ tick < tick'
    BY <1>1, <1>3, IngestReads
  <2>2. Dated' = Len(db.made) /\ Dated = Len(db.made)
    BY <1>1, <2>1 DEF Dated, InTick
  <2>3. /\ \A n \in 1 .. Len(db.made) : db.made[n].at <= tick
        /\ \A at \in ticks : Over(at) =>
             \A p \in Neighbours(Known("readings", at)) :
               \E n \in 1 .. Len(db.made) : db.made[n].event = <<"reading", p>> /\ db.made[n].at <= at
    BY <2>1, <2>2 DEF IInv, CrossInv
  <2>4. ASSUME NEW n \in 1 .. Dated'
        PROVE  db'.made[n].at <= tick'
    <3>1. n \in 1 .. Len(db.made) /\ db.made[n].at <= tick /\ db.made \in Seq(Decision)
      BY <1>3, <2>2, <2>3, Types
    <3>2. db.made[n].at \in Nat
      BY <3>1, DecisionTimes
    <3> QED
      BY <1>3, <2>1, <3>1, <3>2
  <2>5. ASSUME NEW at \in ticks', Over(at)'
        PROVE  Over(at) /\ at \in ticks /\ Known("readings", at)' = Known("readings", at)
    <3>1. at \in ticks /\ at \in Nat /\ at < tick'
      BY <1>1, <1>3, <2>1, <2>5 DEF Over, InTick
    <3>2. at <= tick
      BY <1>3, <2>1, <3>1, IngestReads
    <3> QED
      BY <1>1, <1>3, <3>1, <3>2 DEF Over, InTick, Known
  <2> QED
    BY <2>1, <2>2, <2>3, <2>4, <2>5
<1> QED
  BY <1>2, <1>5, <1>6, <1>7, <1>8, <1>9, IngestPoints DEF IInv

-----------------------------------------------------------------------------
(* Within a tick, and after it.                                            *)

LEMMA TickKept ==
  ASSUME IInv, UNCHANGED <<recorderVars, kind, loaded, index, ticks, tick, heard>>,
         stage \in Ticking, stage' \in Ticking,
         db' \in Database, db'.rows = db.rows, before' \in 0 .. Len(db'.made), todo' \subseteq Events
  PROVE  RecorderInv' /\ TypeOK' /\ MemoryInv' /\ PointerInv' /\ HeardInv'
<1>1. RecorderInv' /\ UNCHANGED <<now, source, writer, decided>>
  BY RecorderRests DEF IInv, recorderVars
<1>2. TypeOK'
  BY <1>1 DEF IInv, TypeOK, RecorderInv, Stages, Ticking
<1>3. MemoryInv' /\ PointerInv'
  BY <1>1 DEF IInv, MemoryInv, PointerInv
<1>4. HeardInv'
  <2>1. stage \notin {"idle", "copied"}
    BY DEF Ticking, InTick
  <2> QED
    BY <1>1, <2>1 DEF IInv, HeardInv
<1> QED
  BY <1>1, <1>2, <1>3, <1>4

\* A step of the experiment leaves nothing to show of crosses.
LEMMA ExperimentKept ==
  ASSUME IInv, UNCHANGED <<recorderVars, kind, loaded, index, ticks, tick, before, todo, heard>>,
         stage \in {"signal", "execute", "order"}, stage' \in {"next", "signal", "execute", "order"},
         db' \in Database, db'.rows = db.rows, db'.made = db.made,
         stage' \in {"execute", "order"} => db'.tried # <<>>
  PROVE  IInv'
<1>1. kind = "experiment" /\ before \in 0 .. Len(db.made) /\ todo \subseteq Events
  BY DEF IInv, StageInv, TypeOK
<1>2. RecorderInv' /\ TypeOK' /\ MemoryInv' /\ PointerInv' /\ HeardInv'
  BY <1>1, TickKept DEF Ticking, InTick
<1>3. StageInv' /\ CrossInv'
  BY <1>1 DEF IInv, StageInv, CrossInv, Setup, InTick
<1> QED
  BY <1>2, <1>3 DEF IInv

LEMMA ExperimentKeeps ==
  ASSUME IInv, NoSignal \/ Signal \/ Execute \/ RecordOrder
  PROVE  IInv'
<1>1. /\ stage \in {"signal", "execute", "order"} /\ stage' \in {"next", "signal", "execute", "order"}
      /\ UNCHANGED <<recorderVars, kind, loaded, index, ticks, tick, before, todo, heard>>
  BY DEF NoSignal, Signal, Execute, RecordOrder
<1>2. /\ db \in Database /\ tick \in Times
      /\ stage \in {"execute", "order"} => db.tried # <<>>
  BY <1>1, Types DEF IInv, TypeOK, StageInv, InTick
<1> DEFINE Tried == [forecast : Nat, action : {"BUY", "SKIP"}, at : Times]
           Order == [forecast : Nat, status : {"filled", "rejected"}, at : Times]
<1>3. /\ db.made \in Seq(Decision) /\ db.rows \in [Tables -> SUBSET Nat] /\ db.position \in Nat
      /\ db.tried \in Seq(Tried) /\ db.orders \in Seq(Order)
  BY <1>2 DEF Database
<1>4. /\ db' \in Database /\ db'.rows = db.rows /\ db'.made = db.made
      /\ stage' \in {"execute", "order"} => db'.tried # <<>>
  <2>1. CASE NoSignal
    BY <1>2, <2>1 DEF NoSignal
  <2>2. CASE Signal
    <3>1. PICK f \in NewestForecast, b \in PricedBook :
            db' = [db EXCEPT !.tried =
              Append(@, [forecast |-> f, action |-> ActionAt(AskOf(b)), at |-> tick])]
      BY <2>2 DEF Signal
    <3> DEFINE x == [forecast |-> f, action |-> ActionAt(AskOf(b)), at |-> tick]
    <3>2. f \in Nat
      BY <1>3 DEF NewestForecast, Tables
    <3>3. x \in Tried
      BY <1>2, <3>2 DEF ActionAt
    <3> HIDE DEF x, Tried, Order
    <3>4. Append(db.tried, x) \in Seq(Tried) /\ Append(db.tried, x) # <<>>
      BY <1>3, <3>3, AppendGrows
    <3>5. db' = [db EXCEPT !.tried = Append(db.tried, x)]
      BY <3>1 DEF x
    <3> QED
      BY <1>2, <3>4, <3>5 DEF Database, Tried, Order
  <2>3. CASE Execute \/ RecordOrder
    <3>1. LastTried \in Nat
      <4>1. Len(db.tried) \in 1 .. Len(db.tried)
        <5>1. stage \in {"execute", "order"}
          BY <2>3 DEF Execute, RecordOrder
        <5>2. db.tried # <<>> /\ db.tried \in Seq(Tried)
          BY <1>2, <1>3, <5>1
        <5> HIDE DEF Tried
        <5> QED
          BY <5>2
      <4>2. db.tried \in Seq(Tried)
        BY <1>3
      <4> HIDE DEF Tried
      <4>3. db.tried[Len(db.tried)] \in Tried
        BY <4>1, <4>2
      <4> QED
        BY <4>3 DEF LastTried, Tried
    <3>2. ASSUME NEW status \in {"filled", "rejected"}
          PROVE  Append(db.orders, OrderOf(LastTried, status)) \in Seq(Order)
      <4>1. OrderOf(LastTried, status) \in Order
        BY <1>2, <3>1 DEF OrderOf
      <4> HIDE DEF Order
      <4> QED
        BY <1>3, <4>1, AppendGrows
    <3> HIDE DEF Tried, Order
    <3>3. CASE db' = [db EXCEPT !.orders = Append(@, OrderOf(LastTried, "rejected"))]
      BY <1>1, <1>2, <2>3, <3>2, <3>3 DEF Database, Tried, Order, Execute, RecordOrder
    <3>4. CASE db' = [db EXCEPT !.orders = Append(@, OrderOf(LastTried, "filled"))]
      BY <1>1, <1>2, <2>3, <3>2, <3>4 DEF Database, Tried, Order, Execute, RecordOrder
    <3>5. CASE db' = [db EXCEPT !.position = @ + 1]
      <4>1. db.position + 1 \in Nat /\ db' = [db EXCEPT !.position = db.position + 1]
        BY <1>3, <3>5
      <4>2. stage \in {"execute", "order"} /\ db'.tried = db.tried
        BY <1>2, <2>3, <4>1 DEF Database, Execute, RecordOrder
      <4> QED
        BY <1>2, <4>1, <4>2 DEF Database
    <3> QED
      BY <2>3, <3>3, <3>4, <3>5 DEF Execute, RecordOrder
  <2> QED
    BY <2>1, <2>2, <2>3
<1> QED
  BY <1>1, <1>4, ExperimentKept

\* A decision comes last; those before it stay.
LEMMA DecideStep ==
  ASSUME IInv, Decide
  PROVE  /\ stage \in {"paper", "cross"} /\ stage' = stage /\ kind = "backtest"
         /\ UNCHANGED <<recorderVars, kind, loaded, index, ticks, tick, before, heard>>
         /\ Len(db.made) \in Nat /\ before \in 0 .. Len(db.made)
         /\ db' \in Database /\ db'.rows = db.rows /\ Len(db'.made) = Len(db.made) + 1
         /\ \A n \in 1 .. Len(db.made) : db'.made[n] = db.made[n]
         /\ \E e \in FirstOf(todo) :
              /\ e \in todo /\ todo' = todo \ {e} /\ db'.made[Len(db.made) + 1].event = e
<1>1. /\ stage \in {"paper", "cross"} /\ stage' = stage /\ kind = "backtest"
      /\ UNCHANGED <<recorderVars, kind, loaded, index, ticks, tick, before, heard>>
  BY DEF Decide, IInv, StageInv
<1>2. PICK e \in FirstOf(todo) :
        /\ db' = [db EXCEPT !.made = Append(@, [event |-> e, at |-> now])]
        /\ todo' = todo \ {e}
  BY DEF Decide
<1> DEFINE d == [event |-> e, at |-> now]
<1>3. /\ e \in todo /\ todo \subseteq Events /\ db \in Database /\ now \in Times
      /\ db.made \in Seq(Decision) /\ Len(db.made) \in Nat /\ before \in 0 .. Len(db.made)
  BY Types DEF FirstOf, IInv, TypeOK, RecorderTypeOK
<1>4. d \in Decision /\ d.event = e
  BY <1>3 DEF Decision
<1> HIDE DEF d
<1>5. /\ Append(db.made, d) \in Seq(Decision) /\ Len(Append(db.made, d)) = Len(db.made) + 1
      /\ \A n \in 1 .. Len(db.made) : Append(db.made, d)[n] = db.made[n]
      /\ Append(db.made, d)[Len(db.made) + 1] = d
  BY <1>3, <1>4, AppendGrows
<1>6. db' = [db EXCEPT !.made = Append(db.made, d)]
  BY <1>2 DEF d
<1>7. db' \in Database /\ db'.rows = db.rows /\ db'.made = Append(db.made, d)
  BY <1>3, <1>5, <1>6 DEF Database
<1> QED
  BY <1>1, <1>2, <1>3, <1>4, <1>5, <1>7

\* What has been decided so far, the last decision included.
LEMMA DecideProcesses ==
  ASSUME IInv, Decide, NEW e, db'.made[Len(db.made) + 1].event = e
  PROVE  Processed(db'.made) = Processed(db.made) \cup {e}
<1>1. /\ Len(db.made) \in Nat /\ db.made \in Seq(Decision) /\ db'.made \in Seq(Decision)
      /\ Len(db'.made) = Len(db.made) + 1
      /\ \A n \in 1 .. Len(db.made) : db'.made[n] = db.made[n]
  BY DecideStep, Types DEF Database, IInv
<1>2. DOMAIN db.made = 1 .. Len(db.made) /\ DOMAIN db'.made = 1 .. (Len(db.made) + 1)
  BY <1>1
<1> DEFINE n == Len(db.made)
<1>3. 1 .. (n + 1) = (1 .. n) \cup {n + 1}
  BY <1>1
<1>4. /\ Processed(db.made) = {db.made[k].event : k \in 1 .. n}
      /\ Processed(db'.made) = {db'.made[k].event : k \in 1 .. (n + 1)}
  BY <1>2 DEF Processed
<1>5. {db'.made[k].event : k \in 1 .. n} = {db.made[k].event : k \in 1 .. n}
  BY <1>1
<1> QED
  BY <1>3, <1>4, <1>5

LEMMA DecideKeeps ==
  ASSUME IInv, Decide
  PROVE  IInv'
<1>1. /\ stage \in {"paper", "cross"} /\ stage' = stage /\ kind = "backtest"
      /\ UNCHANGED <<recorderVars, kind, loaded, index, ticks, tick, before, heard>>
  BY DecideStep
<1>2. PICK e \in todo : todo' = todo \ {e} /\ db'.made[Len(db.made) + 1].event = e
  BY DecideStep
<1>3. todo \subseteq Events /\ Len(db.made) \in Nat /\ before \in 0 .. Len(db.made)
  BY DecideStep DEF IInv, TypeOK
<1>7. /\ db' \in Database /\ db'.rows = db.rows /\ Len(db'.made) = Len(db.made) + 1
      /\ \A n \in 1 .. Len(db.made) : db'.made[n] = db.made[n]
  BY DecideStep
<1>8. RecorderInv' /\ TypeOK' /\ MemoryInv' /\ PointerInv' /\ HeardInv'
  <2>1. stage \in Ticking /\ before' \in 0 .. Len(db'.made) /\ todo' \subseteq Events
    BY <1>1, <1>2, <1>3, <1>7 DEF Ticking, InTick
  <2> QED
    BY <1>1, <1>7, <2>1, TickKept
<1>9. StageInv'
  BY <1>1 DEF IInv, StageInv, Setup, InTick
<1>10. CrossInv'
  <2>1. Dated' = before /\ Dated = before /\ before \in Nat
    BY <1>1, <1>3 DEF Dated, InTick
  <2>2. \A n \in 1 .. before : db'.made[n] = db.made[n]
    BY <1>3, <1>7
  <2>3. \A n \in 1 .. Dated' : db'.made[n].at <= tick'
    BY <1>1, <2>1, <2>2 DEF IInv, CrossInv
  <2>4. \A at \in ticks : (Over(at)' <=> Over(at)) /\ Known("readings", at)' = Known("readings", at)
    BY <1>1 DEF Over, Known
  <2>5. ASSUME NEW at \in ticks, Over(at), NEW p \in Neighbours(Known("readings", at))
        PROVE  \E n \in 1 .. Dated' : db'.made[n].event = <<"reading", p>> /\ db'.made[n].at <= at
    BY <1>1, <2>1, <2>2, <2>5 DEF IInv, CrossInv
  <2>6. ASSUME stage = "cross", NEW p \in Neighbours(db.rows["readings"])
        PROVE  <<"reading", p>> \in todo' \cup Processed(db'.made)
    <3>1. <<"reading", p>> \in todo \cup Processed(db.made)
      BY <1>1, <2>6 DEF IInv, CrossInv
    <3>2. Processed(db'.made) = Processed(db.made) \cup {e}
      BY <1>2, DecideProcesses
    <3> QED
      BY <1>2, <3>1, <3>2
  <2>7. /\ Neighbours(db.rows["readings"])' = Neighbours(db.rows["readings"])
        /\ Processed(db.made)' = Processed(db'.made)
        /\ \A at \in ticks : Neighbours(Known("readings", at))' = Neighbours(Known("readings", at))
    BY <1>7, <2>4 DEF Neighbours, Processed
  <2> QED
    BY <1>1, <2>3, <2>4, <2>5, <2>6, <2>7 DEF CrossInv
<1> QED
  BY <1>8, <1>9, <1>10 DEF IInv

LEMMA CrossKeeps ==
  ASSUME IInv, Cross
  PROVE  IInv'
<1>1. /\ stage = "paper" /\ stage' = "cross" /\ kind = "backtest"
      /\ todo' = ReadingEvents(db.rows, db.made)
      /\ UNCHANGED <<recorderVars, kind, db, loaded, index, ticks, tick, before, heard>>
  BY DEF Cross, IInv, StageInv
<1>2. db \in Database /\ before \in 0 .. Len(db.made) /\ \A t \in Tables : db.rows[t] \subseteq Nat
  BY Types DEF IInv, TypeOK
<1>3. RecorderInv' /\ TypeOK' /\ MemoryInv' /\ PointerInv' /\ HeardInv'
  <2>1. todo' \subseteq Events /\ stage \in Ticking /\ stage' \in Ticking
    BY <1>1, <1>2, EventsOfRows DEF Ticking, InTick
  <2> QED
    BY <1>1, <1>2, <2>1, TickKept
<1>4. StageInv'
  BY <1>1 DEF IInv, StageInv, Setup, InTick
<1>5. CrossInv'
  <2>1. Dated' = before /\ Dated = before
    BY <1>1 DEF Dated, InTick
  <2>2. \A at \in ticks : (Over(at)' <=> Over(at)) /\ Known("readings", at)' = Known("readings", at)
    BY <1>1 DEF Over, Known, InTick
  <2>3. /\ Neighbours(db.rows["readings"])' = Neighbours(db.rows["readings"])
        /\ Processed(db.made)' = Processed(db.made)
        /\ \A at \in ticks : Neighbours(Known("readings", at))' = Neighbours(Known("readings", at))
    BY <1>1, <2>2 DEF Neighbours, Processed
  <2>4. \A p \in Neighbours(db.rows["readings"]) : <<"reading", p>> \in todo' \cup Processed(db.made)
    BY <1>1 DEF ReadingEvents
  <2> QED
    BY <1>1, <2>1, <2>2, <2>3, <2>4 DEF IInv, CrossInv
<1> QED
  BY <1>3, <1>4, <1>5 DEF IInv

\* The stamp changes the times of the new decisions only.
LEMMA StampStep ==
  ASSUME IInv, Stamp
  PROVE  /\ stage = "cross" /\ stage' = "next" /\ kind = "backtest" /\ todo = {}
         /\ UNCHANGED <<recorderVars, kind, loaded, index, ticks, tick, before, todo, heard>>
         /\ tick \in ticks /\ tick \in Nat /\ ticks \subseteq Nat
         /\ DOMAIN db.made = 1 .. Len(db.made) /\ before \in 0 .. Len(db.made)
         /\ db' \in Database /\ db'.rows = db.rows /\ Len(db'.made) = Len(db.made)
         /\ Len(db.made) \in Nat
         /\ \A k \in 1 .. Len(db.made) :
              /\ db'.made[k].event = db.made[k].event
              /\ db'.made[k].at = IF k > before THEN tick ELSE db.made[k].at
<1>1. /\ stage = "cross" /\ stage' = "next" /\ kind = "backtest" /\ todo = {}
      /\ UNCHANGED <<recorderVars, kind, loaded, index, ticks, tick, before, todo, heard>>
  BY DEF Stamp, IInv, StageInv
<1>2. /\ db \in Database /\ tick \in ticks /\ tick \in Times /\ tick \in Nat
      /\ db.made \in Seq(Decision) /\ Len(db.made) \in Nat /\ DOMAIN db.made = 1 .. Len(db.made)
      /\ before \in 0 .. Len(db.made) /\ ticks \subseteq Nat
  BY <1>1, Types DEF IInv, TypeOK, StageInv, InTick
<1> DEFINE old == db.made
           new == [k \in 1 .. Len(old) |-> IF k > before THEN [old[k] EXCEPT !.at = tick] ELSE old[k]]
<1>3. db' = [db EXCEPT !.made = new]
  BY <1>1, <1>2 DEF Stamp, IsNew
<1>4. ASSUME NEW k \in 1 .. Len(old)
      PROVE  /\ new[k] \in Decision /\ new[k].event = old[k].event
             /\ new[k].at = IF k > before THEN tick ELSE old[k].at
  <2>1. old[k] \in Decision
    BY <1>2
  <2>2. [old[k] EXCEPT !.at = tick] \in Decision
    BY <1>2, <2>1 DEF Decision
  <2> QED
    BY <2>1, <2>2 DEF Decision
<1>5. new \in Seq(Decision) /\ Len(new) = Len(old)
  <2>1. new \in [1 .. Len(old) -> Decision]
    <3>1. \A k \in 1 .. Len(old) : new[k] \in Decision
      BY <1>4
    <3>2. \E f : new = [k \in 1 .. Len(old) |-> f[k]]
      <4>1. new = [k \in 1 .. Len(old) |-> new[k]]
        OBVIOUS
      <4> QED
        BY <4>1
    <3> HIDE DEF new
    <3> QED
      BY <3>1, <3>2
  <2> HIDE DEF new
  <2> QED
    BY <1>2, <2>1
<1> HIDE DEF new
<1>6. db' \in Database /\ db'.rows = db.rows /\ db'.made = new
  BY <1>2, <1>3, <1>5 DEF Database
<1> QED
  BY <1>1, <1>2, <1>4, <1>5, <1>6

LEMMA StampKeeps ==
  ASSUME IInv, Stamp
  PROVE  IInv'
<1>1. /\ stage = "cross" /\ stage' = "next" /\ kind = "backtest" /\ todo = {}
      /\ UNCHANGED <<recorderVars, kind, loaded, index, ticks, tick, before, todo, heard>>
  BY StampStep
<1> DEFINE old == db.made
           new == db'.made
<1>2. /\ tick \in ticks /\ tick \in Nat /\ ticks \subseteq Nat
      /\ DOMAIN old = 1 .. Len(old) /\ before \in 0 .. Len(old)
  BY StampStep
<1>4. \A k \in 1 .. Len(old) : /\ new[k].event = old[k].event
                               /\ new[k].at = IF k > before THEN tick ELSE old[k].at
  BY StampStep
<1>6. db' \in Database /\ db'.rows = db.rows /\ Len(new) = Len(old) /\ Len(old) \in Nat
  BY StampStep
<1> HIDE DEF new
<1>7. RecorderInv' /\ TypeOK' /\ MemoryInv' /\ PointerInv' /\ HeardInv'
  <2>1. /\ before' \in 0 .. Len(db'.made) /\ todo' \subseteq Events
        /\ stage \in Ticking /\ stage' \in Ticking
    BY <1>1, <1>2, <1>6 DEF Ticking, InTick, new, IInv, TypeOK
  <2> QED
    BY <1>1, <1>6, <2>1, TickKept
<1>8. StageInv'
  BY <1>1 DEF IInv, StageInv, Setup, InTick
<1>9. CrossInv'
  <2>1. Dated' = Len(old) /\ Dated = before
    BY <1>1, <1>6 DEF Dated, InTick, new
  <2>2. \A n \in 1 .. before : old[n].at <= tick
    BY <1>1, <2>1 DEF IInv, CrossInv
  <2>3. \A n \in 1 .. Len(old) : new[n].at <= tick /\ new[n].event = old[n].event
    BY <1>2, <1>4, <2>2
  <2>4. ASSUME NEW at \in ticks, Over(at)', NEW p \in Neighbours(Known("readings", at))
        PROVE  \E n \in 1 .. Len(old) : new[n].event = <<"reading", p>> /\ new[n].at <= at
    <3>1. CASE at < tick
      <4>1. Over(at)
        BY <3>1 DEF Over
      <4>2. PICK n \in 1 .. before : old[n].event = <<"reading", p>> /\ old[n].at <= at
        BY <1>1, <2>1, <2>4, <4>1 DEF IInv, CrossInv
      <4>3. n \in 1 .. Len(old) /\ ~(n > before)
        BY <1>2, <4>2
      <4> QED
        BY <1>4, <4>2, <4>3
    <3>2. CASE at = tick
      <4>1. Known("readings", at) = db.rows["readings"]
        BY <3>2, SeesKnown DEF IInv, Tables
      <4>2. <<"reading", p>> \in Processed(old)
        BY <1>1, <2>4, <4>1 DEF IInv, CrossInv
      <4>3. PICK n \in 1 .. Len(old) : old[n].event = <<"reading", p>>
        BY <1>2, <4>2 DEF Processed
      <4> QED
        BY <2>3, <3>2, <4>3
    <3> QED
      BY <1>1, <2>4, <3>1, <3>2 DEF Over
  <2>5. \A at \in ticks : Neighbours(Known("readings", at))' = Neighbours(Known("readings", at))
    BY <1>1 DEF Neighbours, Known
  <2> QED
    BY <1>1, <1>6, <2>1, <2>3, <2>4, <2>5 DEF CrossInv, new
<1> QED
  BY <1>7, <1>8, <1>9 DEF IInv

LEMMA ReportKeeps ==
  ASSUME IInv, Report
  PROVE  IInv'
<1>1. /\ stage = "next" /\ stage' = "done" /\ Ahead = {}
      /\ UNCHANGED <<recorderVars, kind, db, loaded, index, ticks, tick, before, todo, heard>>
  BY DEF Report
<1>2. RecorderInv' /\ TypeOK' /\ MemoryInv' /\ PointerInv' /\ HeardInv'
  <2>1. /\ db \in Database /\ before \in 0 .. Len(db.made) /\ todo \subseteq Events
        /\ stage \in Ticking /\ stage' \in Ticking
    BY <1>1 DEF IInv, TypeOK, Ticking
  <2> QED
    BY <1>1, <2>1, TickKept
<1>3. StageInv'
  <2>1. ticks \subseteq Nat /\ tick \in Nat /\ \A at \in ticks : ~(at > tick)
    BY <1>1, Types DEF IInv, Ahead
  <2>2. \A at \in ticks : at <= tick
    BY <2>1
  <2> QED
    BY <1>1, <2>2 DEF StageInv, Setup, InTick
<1>4. CrossInv'
  <2>1. Dated' = Dated
    BY <1>1 DEF Dated, InTick
  <2>2. \A at \in ticks : (Over(at)' <=> Over(at)) /\ Known("readings", at)' = Known("readings", at)
    BY <1>1 DEF Over, Known, InTick
  <2>3. \A at \in ticks : Neighbours(Known("readings", at))' = Neighbours(Known("readings", at))
    BY <2>2 DEF Neighbours
  <2> QED
    BY <1>1, <2>1, <2>2, <2>3 DEF IInv, CrossInv
<1> QED
  BY <1>2, <1>3, <1>4 DEF IInv

-----------------------------------------------------------------------------
(* The theorems.                                                           *)

LEMMA StutterKeeps == IInv /\ UNCHANGED vars => IInv'
<1> SUFFICES ASSUME IInv, UNCHANGED vars PROVE IInv'
  OBVIOUS
<1>1. /\ UNCHANGED <<now, source, writer, decided>>
      /\ UNCHANGED <<stage, kind, db, loaded, index, ticks, tick, before, todo, heard>>
  BY DEF vars, recorderVars, replayVars
<1>2. RecorderInv' /\ TypeOK' /\ MemoryInv' /\ PointerInv' /\ StageInv' /\ HeardInv'
  BY <1>1 DEF IInv, RecorderInv, RecorderTypeOK, TypeOK, MemoryInv, PointerInv, StageInv, HeardInv
<1>3. CrossInv'
  <2>1. Dated' = Dated /\ Processed(db.made)' = Processed(db.made)
    BY <1>1 DEF Dated, Processed
  <2>2. \A at \in ticks : (Over(at)' <=> Over(at)) /\ Known("readings", at)' = Known("readings", at)
    BY <1>1 DEF Over, Known
  <2>3. /\ Neighbours(db.rows["readings"])' = Neighbours(db.rows["readings"])
        /\ \A at \in ticks : Neighbours(Known("readings", at))' = Neighbours(Known("readings", at))
    BY <1>1, <2>2 DEF Neighbours
  <2> QED
    BY <1>1, <2>1, <2>2, <2>3 DEF IInv, CrossInv
<1> QED
  BY <1>2, <1>3 DEF IInv

\* The invariant holds throughout.
THEOREM Inductive == Spec => []IInv
<1>1. IInv /\ [Next]_vars => IInv'
  <2> SUFFICES ASSUME IInv, [Next]_vars PROVE IInv'
    OBVIOUS
  <2>1. CASE RecorderNext /\ UNCHANGED replayVars
    BY <2>1, RecordingKeeps
  <2>2. CASE Copy \/ ListTicks \/ \E t \in Tables : Load(t)
    BY <2>2, CopyKeeps, ListTicksKeeps, LoadKeeps
  <2>3. CASE Ingest \/ Decide \/ Cross \/ Stamp
    BY <2>3, IngestKeeps, DecideKeeps, CrossKeeps, StampKeeps
  <2>4. CASE NoSignal \/ Signal \/ Execute \/ RecordOrder
    BY <2>4, ExperimentKeeps
  <2>5. CASE Report \/ Leave
    BY <2>5, ReportKeeps, LeaveKeeps
  <2>6. CASE UNCHANGED vars
    BY <2>6, StutterKeeps
  <2> QED
    BY <2>1, <2>2, <2>3, <2>4, <2>5, <2>6 DEF Next, Step
<1> QED
  BY <1>1, ReplayStarts, PTL DEF Spec

\* State stays in its types, and what the replay has in memory and in its
\* scratch database are rows that the recorder has (backtest.py).
THEOREM TypeCorrect == Spec => []TypeOK
<1>1. IInv => TypeOK
  BY DEF IInv
<1> QED
  BY <1>1, Inductive, PTL

\* Every replayed tick runs on the rows that were available at its time,
\* however the recorder went on and whatever order the rows were stored in
\* (backtest.py _load_rows, _ingest_until).
THEOREM ReplayAsOf == Spec => []AsOf
<1>1. IInv => AsOf
  BY SeesKnown DEF IInv, AsOf
<1> QED
  BY <1>1, Inductive, PTL

\* A finished backtest has decided, by its time, every cross that the live
\* tick had decided when the times were listed (backtest.py _tick_times,
\* _stamp_new_paper_rows).
THEOREM ReplayRepeatsLive == Spec => []RepeatsLive
<1>1. IInv => RepeatsLive
  <2> SUFFICES ASSUME IInv, stage = "done", kind = "backtest", NEW k \in 1 .. heard,
                      decided[k].event[1] = "reading", decided[k].at \in Day
               PROVE  \E n \in DOMAIN db.made :
                        db.made[n].event = decided[k].event /\ db.made[n].at <= decided[k].at
    BY DEF RepeatsLive
  <2> DEFINE e == decided[k].event
             at == decided[k].at
             j == e[2][2]
             mem == loaded["readings"]
  <2>1. k \in 1 .. Len(decided)
    BY Types DEF IInv, TypeOK
  <2>2. e \in Events /\ at \in Nat
    BY <2>1, Types, DecisionTimes DEF IInv
  <2>3. /\ e[2][1] \in Nat \ {0} /\ j = e[2][1] + 1 /\ j <= Len(source["readings"])
        /\ \A i \in 1 .. j : source["readings"][i].at <= at
    BY <2>1 DEF IInv, RecorderInv, Grounded
  <2>4. at \in ticks /\ j <= Len(mem)
    BY DEF IInv, HeardInv, Ticking
  <2>5. Over(at)
    BY <2>2, <2>4, Types DEF IInv, StageInv, Over, InTick
  <2>6. e = <<"reading", e[2]>> /\ e[2] = <<e[2][1], j>>
    BY <2>2 DEF Events
  <2>7. Len(mem) \in Nat /\ DOMAIN mem = 1 .. Len(mem) /\ "readings" \in Tables
    BY Types DEF IInv, Tables
  <2>8. \A id \in 1 .. j : id \in Known("readings", at)
    <3> SUFFICES ASSUME NEW id \in 1 .. j PROVE id \in Known("readings", at)
      OBVIOUS
    <3> HIDE DEF j
    <3>0. j \in Nat /\ id \in 1 .. Len(mem)
      BY <2>3, <2>4, <2>7
    <3>1. PICK i \in 1 .. Len(mem) : mem[i].id = id
      BY <2>7, <3>0 DEF IInv, MemoryInv
    <3>2. mem[i].at = source["readings"][id].at
      BY <2>7, <3>1 DEF IInv, MemoryInv
    <3> QED
      BY <2>3, <2>7, <3>1, <3>2 DEF Known
  <2>9. Known("readings", at) \subseteq Nat
    <3>1. \A i \in 1 .. Len(mem) : mem[i].id \in Nat
      BY <2>7, LoadedTimes DEF IInv
    <3> QED
      BY <2>7, <3>1 DEF Known
  <2>10. e[2] \in Neighbours(Known("readings", at))
    <3> HIDE DEF j
    <3>1. e[2][1] \in 1 .. j /\ j \in 1 .. j /\ j \in Nat
      BY <2>3
    <3>2. \A i \in Known("readings", at) : ~(e[2][1] < i /\ i < j)
      BY <2>3, <2>9, <3>1
    <3>3. e[2] = <<e[2][1], j>> /\ e[2][1] \in Known("readings", at) /\ j \in Known("readings", at)
      BY <2>6, <2>8, <3>1
    <3>4. e[2] \in Known("readings", at) \X Known("readings", at) /\ e[2][2] = j /\ e[2][1] < j
      <4>1. e[2][1] < j
        BY <2>3 DEF j
      <4> QED
        BY <3>3, <4>1 DEF j
    <3> QED
      BY <3>2, <3>4 DEF Neighbours
  <2>11. PICK n \in 1 .. Len(db.made) : db.made[n].event = <<"reading", e[2]>> /\ db.made[n].at <= at
    <3>1. Dated = Len(db.made)
      BY DEF Dated, InTick
    <3> QED
      BY <2>4, <2>5, <2>10, <3>1 DEF IInv, CrossInv
  <2>12. DOMAIN db.made = 1 .. Len(db.made)
    BY Types DEF IInv
  <2> QED
    BY <2>6, <2>11, <2>12
<1> QED
  BY <1>1, Inductive, PTL
-----------------------------------------------------------------------------
(* The two reports.  Every event is decided at the first time it is known: *)
(* the events in hand are new, and what was known at the times before has  *)
(* been decided, or is an old sample.                                      *)

\* The time is the first at which the tick can know the event.
FirstKnown(e, at) ==
  \/ e[1] = "reading" /\ at \in FirstTime(CrossTimes(e[2]))
  \/ e[1] = "forecast" /\ at \in FirstTime(SampleTimes(e[2]))

\* A sample is entered on, or too old by now.
Entered(s) == <<"forecast", s>> \in Processed(db.made) \/ StaleByNow(s)

LatestAt(at) == Latest("samples", Known("samples", at))

OnceInv ==
  kind = "backtest" =>
    /\ \A n, o \in 1 .. Len(db.made) : n # o => db.made[n].event # db.made[o].event
    /\ \A n \in 1 .. Len(db.made) :
         FirstKnown(db.made[n].event, IF n <= Dated THEN db.made[n].at ELSE tick)
    /\ \A e \in todo : e \notin Processed(db.made) /\ FirstKnown(e, tick)
    /\ \A at \in ticks : Over(at) \/ (stage = "cross" /\ at = tick) =>
         \A s \in LatestAt(at) : Entered(s)
    /\ stage = "paper" => \A s \in LatestAt(tick) : <<"forecast", s>> \in todo \/ Entered(s)

\* The signals of a time have been looked at.
SignalsOver(at) == at < tick \/ (at = tick /\ stage # "signal")

AsksAt(at) == {AskOf(b) : b \in PricedAt(at)}

BooksAt(at) == {AskOf(b) : b \in Latest("books", Known("books", at))}

TriedInv ==
  kind = "experiment" =>
    /\ \A k, j \in 1 .. Len(db.tried) : k # j => db.tried[k].forecast # db.tried[j].forecast
    /\ \A k \in 1 .. Len(db.tried) :
         /\ db.tried[k].at \in FirstTime(SignalTimes(db.tried[k].forecast))
         /\ db.tried[k].action = "BUY" <=> "dear" \notin AsksAt(db.tried[k].at)
    /\ \A at \in ticks : SignalsOver(at) =>
         \A f \in ForecastAt(at) : PricedAt(at) # {} => IsTried(f)

\* The last decision's order is still to come.
Pending(k) == stage \in {"execute", "order"} /\ k = Len(db.tried)

\* A decision's only order.
OrderFor(d, o) ==
  /\ OrdersOf(d.forecast) = {o} /\ db.orders[o].at = d.at
  /\ db.orders[o].status = IF BooksAt(d.at) = {"cheap"} THEN "filled" ELSE "rejected"

OrderInv ==
  kind = "experiment" =>
    /\ \A k \in 1 .. Len(db.tried) :
         IF db.tried[k].action = "BUY" /\ ~Pending(k)
         THEN \E o \in 1 .. Len(db.orders) : OrderFor(db.tried[k], o)
         ELSE OrdersOf(db.tried[k].forecast) = {}
    /\ \A o \in 1 .. Len(db.orders) : IsTried(db.orders[o].forecast)
    /\ db.position = Cardinality(FilledOrders) + IF stage = "order" THEN 1 ELSE 0
    /\ stage \in {"execute", "order"} =>
         db.tried[Len(db.tried)].action = "BUY" /\ db.tried[Len(db.tried)].at = tick
    /\ stage = "order" => BooksAt(tick) = {"cheap"}

Reports == OnceInv /\ TriedInv /\ OrderInv

\* A table has one latest row, and a set of times one first.
LEMMA LatestIsOne ==
  ASSUME TypeOK, NEW t \in Tables, NEW ids, ids \subseteq 1 .. Len(source[t]),
         NEW i \in Latest(t, ids), NEW j \in Latest(t, ids)
  PROVE  i = j
<1> SUFFICES ASSUME i # j PROVE FALSE
  OBVIOUS
<1>1. i \in 1 .. Len(source[t]) /\ j \in 1 .. Len(source[t]) /\ source[t] \in Seq(Row)
  BY Types DEF Latest
<1>2. source[t][i].at \in Nat /\ source[t][j].at \in Nat
  BY <1>1, RowTimes
<1>3. Newer(t, i, j) /\ Newer(t, j, i)
  BY DEF Latest
<1> QED
  BY <1>1, <1>2, <1>3 DEF Newer

LEMMA FirstIsOne ==
  ASSUME NEW times, times \subseteq Nat, NEW x \in FirstTime(times), NEW y \in FirstTime(times)
  PROVE  x = y
BY DEF FirstTime

LEMMA KnownRows ==
  ASSUME TypeOK, MemoryInv, NEW t \in Tables
  PROVE  \A at : Known(t, at) \subseteq 1 .. Len(source[t])
<1>1. DOMAIN loaded[t] = 1 .. Len(loaded[t])
  BY Types
<1> QED
  BY <1>1 DEF Known, MemoryInv

LEMMA TablesAre ==
  "forecasts" \in Tables /\ "samples" \in Tables /\ "readings" \in Tables /\ "books" \in Tables
BY DEF Tables

\* A row that is stored changes nothing of what was loaded before.
LEMMA NewerStays ==
  ASSUME RecorderInv, Grows, NEW t \in Tables,
         NEW i \in 1 .. Len(source[t]), NEW j \in 1 .. Len(source[t])
  PROVE  Newer(t, i, j)' <=> Newer(t, i, j)
<1>1. source'[t][i] = source[t][i] /\ source'[t][j] = source[t][j]
  BY DEF Grows
<1> QED
  BY <1>1 DEF Newer

LEMMA LatestStays ==
  ASSUME RecorderInv, Grows, NEW t \in Tables, NEW ids, ids \subseteq 1 .. Len(source[t])
  PROVE  Latest(t, ids)' = Latest(t, ids)
BY NewerStays DEF Latest

\* What the rows in memory say of a time stays the same.
LEMMA MemorySays ==
  ASSUME IInv, Grows, UNCHANGED <<loaded, ticks>>
  PROVE  \A at : /\ \A t \in Tables : Known(t, at)' = Known(t, at)
                 /\ LatestAt(at)' = LatestAt(at) /\ ForecastAt(at)' = ForecastAt(at)
                 /\ PricedAt(at)' = PricedAt(at)
                 /\ AsksAt(at)' = AsksAt(at) /\ BooksAt(at)' = BooksAt(at)
<1> TAKE at
<1>1. \A t \in Tables : Known(t, at)' = Known(t, at)
  BY DEF Known
<1>2. \A t \in Tables : Known(t, at) \subseteq 1 .. Len(source[t])
  BY KnownRows DEF IInv
<1>3. RecorderInv
  BY DEF IInv
<1>4. LatestAt(at)' = LatestAt(at)
  <2>1. PICK ids : ids = Known("samples", at)
    OBVIOUS
  <2>2. ids \subseteq 1 .. Len(source["samples"])
    BY <1>2, <2>1, TablesAre
  <2>3. Latest("samples", ids)' = Latest("samples", ids)
    BY <1>3, <2>2, LatestStays, TablesAre
  <2> QED
    BY <1>1, <2>1, <2>3, TablesAre DEF LatestAt
<1>5. ForecastAt(at)' = ForecastAt(at)
  BY <1>1, TablesAre DEF ForecastAt
<1>6. \A i \in Known("books", at) : AskOf(i)' = AskOf(i)
  BY <1>2, TablesAre DEF AskOf, Grows
<1>7. PICK asked : asked = {i \in Known("books", at) : AskOf(i) # "none"}
  OBVIOUS
<1>8. {i \in Known("books", at) : AskOf(i) # "none"}' = asked
  BY <1>1, <1>6, <1>7, TablesAre
<1>9. PricedAt(at)' = PricedAt(at) /\ PricedAt(at) \subseteq Known("books", at)
  <2>1. asked \subseteq 1 .. Len(source["books"])
    BY <1>2, <1>7, TablesAre
  <2>2. Latest("books", asked)' = Latest("books", asked)
    BY <1>3, <2>1, LatestStays, TablesAre
  <2>3. PricedAt(at) = Latest("books", asked) /\ PricedAt(at)' = Latest("books", asked)'
    BY <1>7, <1>8 DEF PricedAt
  <2> QED
    BY <1>7, <2>2, <2>3 DEF Latest
<1>10. AsksAt(at)' = AsksAt(at)
  BY <1>6, <1>9 DEF AsksAt
<1>11. BooksAt(at)' = BooksAt(at)
  <2>1. PICK ids : ids = Known("books", at)
    OBVIOUS
  <2>2. ids \subseteq 1 .. Len(source["books"])
    BY <1>2, <2>1, TablesAre
  <2>3. Latest("books", ids)' = Latest("books", ids)
    BY <1>3, <2>2, LatestStays, TablesAre
  <2>4. Latest("books", Known("books", at))' = Latest("books", Known("books", at))
    BY <1>1, <2>1, <2>3, TablesAre
  <2>5. Latest("books", Known("books", at)) \subseteq Known("books", at)
    BY DEF Latest
  <2> QED
    BY <1>6, <2>4, <2>5 DEF BooksAt
<1> QED
  BY <1>1, <1>4, <1>5, <1>9, <1>10, <1>11

LEMMA FirstsStay ==
  ASSUME IInv, Grows, UNCHANGED <<loaded, ticks>>
  PROVE  /\ \A e, at : FirstKnown(e, at)' <=> FirstKnown(e, at)
         /\ \A f : SignalTimes(f)' = SignalTimes(f)
<1>1. \A p : CrossTimes(p)' = CrossTimes(p)
  BY MemorySays, TablesAre DEF CrossTimes, Neighbours
<1>2. \A s : SampleTimes(s)' = SampleTimes(s)
  <2>1. \A s : SampleTimes(s) = {at \in ticks : s \in LatestAt(at)}
    BY DEF SampleTimes, LatestAt
  <2>2. \A s : SampleTimes(s)' = {at \in ticks' : s \in LatestAt(at)'}
    BY DEF SampleTimes, LatestAt
  <2> QED
    BY <2>1, <2>2, MemorySays
<1>3. \A f : SignalTimes(f)' = SignalTimes(f)
  BY MemorySays DEF SignalTimes
<1> QED
  BY <1>1, <1>2, <1>3 DEF FirstKnown, FirstTime

\* An old sample stays old.
LEMMA StaleStays ==
  ASSUME IInv, IInv', Grows, NEW at, NEW s \in LatestAt(at), StaleByNow(s)
  PROVE  StaleByNow(s)'
<1>1. s \in 1 .. Len(source["samples"]) /\ source["samples"] \in Seq(Row)
  BY KnownRows, Types, TablesAre DEF LatestAt, Latest, IInv
<1>2. source'["samples"][s] = source["samples"][s] /\ source["samples"][s].at \in Nat
  BY <1>1, RowTimes, TablesAre DEF Grows
<1>3. now \in Nat /\ now' \in Nat /\ now <= now' /\ FreshAge \in Nat
  BY Types, TimesAreNat, RecorderAssumption DEF IInv, Grows, TypeOK, RecorderTypeOK
<1> QED
  BY <1>2, <1>3 DEF StaleByNow

LEMMA RestingGrows == ASSUME IInv, UNCHANGED recorderVars PROVE Grows
BY DEF IInv, RecorderInv, RecorderTypeOK, recorderVars, Grows, Times

LEMMA NextFields ==
  ASSUME TypeOK
  PROVE  /\ DOMAIN db.made = 1 .. Len(db.made) /\ Len(db.made) \in Nat
         /\ DOMAIN db.tried = 1 .. Len(db.tried) /\ Len(db.tried) \in Nat
         /\ DOMAIN db.orders = 1 .. Len(db.orders) /\ Len(db.orders) \in Nat
         /\ db.position \in Nat
<1> DEFINE Tried == [forecast : Nat, action : {"BUY", "SKIP"}, at : Times]
           Order == [forecast : Nat, status : {"filled", "rejected"}, at : Times]
<1>1. /\ db.made \in Seq(Decision) /\ db.tried \in Seq(Tried) /\ db.orders \in Seq(Order)
      /\ db.position \in Nat
  BY DEF TypeOK, Database
<1> HIDE DEF Tried, Order
<1> QED
  BY <1>1

\* A replay that has not come to a tick has nothing to report.
AtStart == db = Empty /\ tick = 0 /\ todo = {} /\ stage \in Setup \cup {"next"}

LEMMA FreshReports == TypeOK /\ AtStart => Reports
<1> SUFFICES ASSUME TypeOK, AtStart PROVE Reports
  OBVIOUS
<1> USE DEF AtStart
<1>1. /\ db.made = <<>> /\ db.tried = <<>> /\ db.orders = <<>> /\ db.position = 0
      /\ Len(db.made) = 0 /\ Len(db.tried) = 0 /\ Len(db.orders) = 0 /\ DOMAIN db.orders = {}
  BY DEF Empty
<1>2. \A at \in ticks : at \in Nat /\ at # 0 /\ ~Over(at) /\ ~SignalsOver(at)
  BY Types, TimesAreNat DEF Over, SignalsOver
<1>3. stage \notin {"paper", "cross", "signal", "execute", "order"}
  BY DEF Setup
<1>4. OnceInv
  BY <1>1, <1>2, <1>3 DEF OnceInv
<1>5. TriedInv
  BY <1>1, <1>2 DEF TriedInv
<1>6. Cardinality(FilledOrders) = 0
  <2>1. FilledOrders = {}
    BY <1>1 DEF FilledOrders
  <2> QED
    BY <2>1, FS_EmptySet
<1>7. OrderInv
  BY <1>1, <1>3, <1>6 DEF OrderInv
<1> QED
  BY <1>4, <1>5, <1>7 DEF Reports

LEMMA SetupReports ==
  ASSUME IInv, IInv', Copy \/ ListTicks \/ (\E t \in Tables : Load(t)) \/ Leave
  PROVE  Reports'
<1>1. AtStart'
  <2>1. CASE Leave
    BY <2>1 DEF Leave, Setup, AtStart
  <2>2. CASE Copy
    BY <2>2 DEF Copy, Reset, CopyOfSource, Empty, IInv, StageInv, Setup, AtStart
  <2>3. CASE ListTicks
    BY <2>3 DEF ListTicks, IInv, StageInv, Setup, AtStart
  <2>4. CASE \E t \in Tables : Load(t)
    BY <2>4 DEF Load, AfterLoad, IInv, StageInv, Setup, Tables, AtStart
  <2> QED
    BY <2>1, <2>2, <2>3, <2>4
<1>2. TypeOK'
  BY DEF IInv
<1> QED
  BY <1>1, <1>2, FreshReports, PTL

\* The recorder goes on, or nothing happens.
LEMMA RestReports ==
  ASSUME IInv, IInv', Reports, Grows, UNCHANGED replayVars
  PROVE  Reports'
<1>1. /\ stage' = stage /\ kind' = kind /\ db' = db /\ loaded' = loaded /\ ticks' = ticks
      /\ tick' = tick /\ before' = before /\ todo' = todo
  BY DEF replayVars
<1>2. \A at : LatestAt(at)' = LatestAt(at) /\ ForecastAt(at)' = ForecastAt(at)
              /\ PricedAt(at)' = PricedAt(at) /\ AsksAt(at)' = AsksAt(at)
              /\ BooksAt(at)' = BooksAt(at)
  BY <1>1, MemorySays
<1>3. /\ \A e, at : FirstKnown(e, at)' <=> FirstKnown(e, at)
      /\ \A f : FirstTime(SignalTimes(f))' = FirstTime(SignalTimes(f))
  BY <1>1, FirstsStay DEF FirstTime
<1>4. \A at : \A s \in LatestAt(at) : Entered(s) => Entered(s)'
  BY <1>1, StaleStays DEF Entered, Processed
<1>5. OnceInv'
  <2> SUFFICES ASSUME kind = "backtest" PROVE OnceInv'
    BY <1>1 DEF OnceInv
  <2>1. Dated' = Dated /\ \A at : Over(at)' <=> Over(at)
    BY <1>1 DEF Dated, Over
  <2>2. Processed(db.made)' = Processed(db.made)
    BY <1>1 DEF Processed
  <2> QED
    BY <1>1, <1>2, <1>3, <1>4, <2>1, <2>2 DEF OnceInv, Reports
<1>6. TriedInv'
  BY <1>1, <1>2, <1>3 DEF TriedInv, Reports, SignalsOver, IsTried
<1>7. OrderInv'
  <2>1. /\ \A f : OrdersOf(f)' = OrdersOf(f)
        /\ \A f : IsTried(f)' <=> IsTried(f)
        /\ \A k : Pending(k)' <=> Pending(k)
        /\ FilledOrders' = FilledOrders
    BY <1>1 DEF OrdersOf, IsTried, FilledOrders, Pending
  <2>2. \A d, o : OrderFor(d, o)' <=> OrderFor(d, o)
    BY <1>1, <1>2, <2>1 DEF OrderFor
  <2> QED
    BY <1>1, <1>2, <2>1, <2>2 DEF OrderInv, Reports
<1> QED
  BY <1>5, <1>6, <1>7 DEF Reports

\* The scratch database holds what was known at the tick.
RowsKnown == \A t \in Tables : db.rows[t] = Known(t, tick)

LEMMA RowsAreKnown == IInv => RowsKnown
BY SeesKnown DEF IInv, RowsKnown

LEMMA SampleTimesAre == \A s : SampleTimes(s) = {at \in ticks : s \in LatestAt(at)}
BY DEF SampleTimes, LatestAt

\* A backtest comes to its next time.
LEMMA IngestOnce ==
  ASSUME IInv, IInv', Reports, Ingest, kind = "backtest" PROVE OnceInv'
<1>1. /\ stage = "next" /\ stage' = "paper" /\ before' = Len(db.made) /\ db'.made = db.made
      /\ UNCHANGED <<recorderVars, kind, loaded, ticks>> /\ now' = now /\ source' = source
      /\ todo' = ForecastEvents(db'.rows, db.made, now)
  BY IngestReads DEF Ingest, recorderVars
<1>2. PICK u : u = tick'
  OBVIOUS
<1>3. /\ u \in ticks /\ tick \in Nat /\ u \in Nat /\ tick < u /\ ticks \subseteq Nat
      /\ \A x \in ticks : x < u => x <= tick
  <2>1. ticks \subseteq Nat /\ tick \in Nat /\ tick' \in ticks
    BY IngestReads, Types DEF IInv
  <2>2. \A x \in ticks : x < tick' => x <= tick
    BY <2>1, IngestReads
  <2> QED
    BY <1>2, <2>1, <2>2, IngestReads
<1>4. db'.rows["samples"] = Known("samples", u)
  <2>1. RowsKnown'
    BY RowsAreKnown, PTL
  <2> QED
    BY <1>1, <1>2, <2>1, TablesAre DEF RowsKnown, Known
<1>5. Grows /\ OnceInv
  BY <1>1, RestingGrows DEF Reports
<1>6. /\ \A e, at : FirstKnown(e, at)' <=> FirstKnown(e, at)
      /\ \A at : LatestAt(at)' = LatestAt(at)
  BY <1>1, <1>5, FirstsStay, MemorySays
<1>7. /\ Dated = Len(db.made) /\ Dated' = Len(db.made)
      /\ \A at \in ticks : (at < u => Over(at)) /\ (Over(at)' <=> at < u)
  BY <1>1, <1>2, <1>3 DEF Dated, Over, InTick
<1>8. Processed(db.made)' = Processed(db.made) /\ \A s : Entered(s)' <=> Entered(s)
  BY <1>1 DEF Processed, Entered, StaleByNow
<1>9. \A i \in LatestAt(u) : /\ source["samples"][i].at \in Nat /\ now \in Nat /\ FreshAge \in Nat
  <2>1. \A i \in LatestAt(u) : i \in 1 .. Len(source["samples"])
    BY KnownRows, TablesAre DEF LatestAt, Latest, IInv
  <2> QED
    BY <2>1, Types, RowTimes, TablesAre, RecorderAssumption DEF IInv
<1>10. \A e : e \in todo' <=> /\ e \notin Processed(db.made)
                              /\ \E i \in LatestAt(u) : e = <<"forecast", i>> /\ ~StaleByNow(i)
  BY <1>1, <1>4, <1>9 DEF ForecastEvents, LatestAt, StaleByNow
<1>11. ASSUME NEW e \in todo' PROVE e \notin Processed(db.made) /\ FirstKnown(e, u)
  <2>1. PICK i \in LatestAt(u) : e = <<"forecast", i>> /\ ~StaleByNow(i) /\ e \notin Processed(db.made)
    BY <1>10, <1>11
  <2>2. ASSUME NEW other \in SampleTimes(i) PROVE u <= other
    <3>1. other \in ticks /\ i \in LatestAt(other) /\ other \in Nat
      BY <1>3, <2>2, SampleTimesAre
    <3>2. ~(other < u)
      <4> SUFFICES ASSUME other < u PROVE FALSE
        OBVIOUS
      <4>1. Entered(i)
        BY <1>1, <1>5, <1>7, <3>1 DEF OnceInv
      <4> QED
        BY <2>1, <4>1 DEF Entered
    <3> QED
      BY <1>3, <3>1, <3>2
  <2>3. u \in SampleTimes(i)
    BY <1>3, <2>1, SampleTimesAre
  <2>4. u \in FirstTime(SampleTimes(i))
    BY <2>2, <2>3 DEF FirstTime
  <2> QED
    BY <2>1, <2>4 DEF FirstKnown
<1>12. \A e \in todo' : FirstKnown(e, tick)'
  BY <1>2, <1>6, <1>11
<1>13. \A at \in ticks : Over(at)' => \A s \in LatestAt(at) : Entered(s)
  BY <1>5, <1>7 DEF OnceInv
<1>14. \A s \in LatestAt(u) : <<"forecast", s>> \in todo' \/ Entered(s)
  BY <1>10 DEF Entered
<1>15. /\ \A n, o \in 1 .. Len(db.made) : n # o => db.made[n].event # db.made[o].event
       /\ \A n \in 1 .. Len(db.made) : FirstKnown(db.made[n].event, db.made[n].at)
  BY <1>5, <1>7 DEF OnceInv
<1>16. \A n \in 1 .. Len(db.made) : n <= Dated'
  BY <1>7, Types DEF IInv
<1>17. \A s \in LatestAt(tick)' : <<"forecast", s>> \in todo' \/ Entered(s)'
  BY <1>2, <1>6, <1>8, <1>14
<1>18. stage' # "cross"
  BY <1>1
<1> QED
  BY <1>1, <1>6, <1>8, <1>11, <1>12, <1>13, <1>15, <1>16, <1>17, <1>18 DEF OnceInv

LEMMA DecideOnce ==
  ASSUME IInv, Reports, Decide PROVE OnceInv'
<1>1. /\ stage \in {"paper", "cross"} /\ stage' = stage /\ kind = "backtest" /\ kind' = kind
      /\ UNCHANGED <<recorderVars, loaded, ticks, tick, before>>
      /\ Len(db.made) \in Nat /\ before \in 0 .. Len(db.made)
      /\ db'.rows = db.rows /\ Len(db'.made) = Len(db.made) + 1
      /\ \A n \in 1 .. Len(db.made) : db'.made[n] = db.made[n]
  BY DecideStep
<1>2. PICK e \in todo : todo' = todo \ {e} /\ db'.made[Len(db.made) + 1].event = e
  BY DecideStep
<1>3. Processed(db.made)' = Processed(db.made) \cup {e}
  BY <1>2, DecideProcesses DEF Processed
<1>4. OnceInv /\ Grows /\ now' = now /\ source' = source
  BY <1>1, RestingGrows DEF Reports, recorderVars
<1>5. /\ \A f, at : FirstKnown(f, at)' <=> FirstKnown(f, at)
      /\ \A at : LatestAt(at)' = LatestAt(at)
  BY <1>1, <1>4, FirstsStay, MemorySays
<1>6. /\ Dated = before /\ Dated' = before /\ \A at : Over(at)' <=> Over(at)
  BY <1>1 DEF Dated, Over, InTick
<1>7. \A s : Entered(s)' <=> Entered(s) \/ <<"forecast", s>> = e
  BY <1>3, <1>4 DEF Entered, StaleByNow
<1>8. e \notin Processed(db.made) /\ FirstKnown(e, tick)
  BY <1>1, <1>2, <1>4 DEF OnceInv
<1>9. \A n \in 1 .. Len(db.made) : db.made[n].event # e
  BY <1>8, NextFields DEF Processed, IInv
<1>10. \A n, o \in 1 .. Len(db'.made) : n # o => db'.made[n].event # db'.made[o].event
  <2> SUFFICES ASSUME NEW n \in 1 .. (Len(db.made) + 1), NEW o \in 1 .. (Len(db.made) + 1), n # o
               PROVE  db'.made[n].event # db'.made[o].event
    BY <1>1
  <2>1. CASE n \in 1 .. Len(db.made) /\ o \in 1 .. Len(db.made)
    BY <1>1, <1>4, <2>1 DEF OnceInv
  <2>2. CASE n = Len(db.made) + 1
    BY <1>1, <1>2, <1>9, <2>2
  <2>3. CASE o = Len(db.made) + 1
    BY <1>1, <1>2, <1>9, <2>3
  <2> QED
    BY <1>1, <2>1, <2>2, <2>3
<1>11. ASSUME NEW n \in 1 .. Len(db'.made)
       PROVE  FirstKnown(db'.made[n].event, IF n <= before THEN db'.made[n].at ELSE tick)
  <2>1. CASE n \in 1 .. Len(db.made)
    <3>1. FirstKnown(db.made[n].event, IF n <= before THEN db.made[n].at ELSE tick)
      BY <1>1, <1>4, <1>6, <2>1 DEF OnceInv
    <3> QED
      BY <1>1, <2>1, <3>1
  <2>2. CASE n = Len(db.made) + 1
    BY <1>1, <1>2, <1>8, <2>2
  <2> QED
    BY <1>1, <2>1, <2>2
<1>12. ASSUME NEW f \in todo' PROVE f \notin Processed(db.made)' /\ FirstKnown(f, tick)
  BY <1>1, <1>2, <1>3, <1>4, <1>12 DEF OnceInv
<1>13. \A at \in ticks : Over(at) \/ (stage = "cross" /\ at = tick) =>
         \A s \in LatestAt(at) : Entered(s)
  BY <1>1, <1>4 DEF OnceInv
<1>14. stage = "paper" => \A s \in LatestAt(tick) : <<"forecast", s>> \in todo' \/ Entered(s)'
  BY <1>1, <1>2, <1>4, <1>7 DEF OnceInv
<1> QED
  BY <1>1, <1>5, <1>6, <1>7, <1>10, <1>11, <1>12, <1>13, <1>14 DEF OnceInv

LEMMA CrossOnce ==
  ASSUME IInv, Reports, Cross PROVE OnceInv'
<1>1. /\ stage = "paper" /\ stage' = "cross" /\ kind = "backtest" /\ kind' = kind
      /\ todo = {} /\ todo' = ReadingEvents(db.rows, db.made)
      /\ db' = db /\ tick' = tick /\ before' = before
      /\ UNCHANGED <<recorderVars, loaded, ticks>> /\ now' = now /\ source' = source
  BY DEF Cross, IInv, StageInv, recorderVars
<1>2. OnceInv /\ Grows
  BY <1>1, RestingGrows DEF Reports
<1>3. /\ \A f, at : FirstKnown(f, at)' <=> FirstKnown(f, at)
      /\ \A at : LatestAt(at)' = LatestAt(at)
  BY <1>1, <1>2, FirstsStay, MemorySays
<1>4. /\ Dated = before /\ Dated' = before /\ \A at : Over(at)' <=> Over(at)
      /\ tick \in ticks /\ ticks \subseteq Nat
  BY <1>1, Types DEF Dated, Over, InTick, IInv, StageInv
<1>5. Processed(db.made)' = Processed(db.made) /\ \A s : Entered(s)' <=> Entered(s)
  BY <1>1 DEF Processed, Entered, StaleByNow
<1>6. ASSUME NEW e \in todo' PROVE e \notin Processed(db.made) /\ FirstKnown(e, tick)
  <2>1. PICK p \in Neighbours(db.rows["readings"]) :
          e = <<"reading", p>> /\ e \notin Processed(db.made)
    BY <1>1, <1>6 DEF ReadingEvents
  <2>2. tick \in CrossTimes(p)
    BY <1>4, <2>1, RowsAreKnown, TablesAre DEF CrossTimes, RowsKnown
  <2>3. ASSUME NEW other \in CrossTimes(p) PROVE tick <= other
    <3>1. other \in ticks /\ p \in Neighbours(Known("readings", other))
      BY <2>3 DEF CrossTimes
    <3>2. ~(other < tick)
      <4> SUFFICES ASSUME other < tick PROVE FALSE
        OBVIOUS
      <4>1. PICK n \in 1 .. before : db.made[n].event = <<"reading", p>>
        BY <1>1, <1>4, <3>1 DEF IInv, CrossInv, Over
      <4>2. n \in DOMAIN db.made
        BY NextFields DEF IInv, TypeOK
      <4> QED
        BY <2>1, <4>1, <4>2 DEF Processed
    <3> QED
      BY <1>4, <3>1, <3>2
  <2> QED
    BY <2>1, <2>2, <2>3 DEF FirstKnown, FirstTime
<1>7. ASSUME NEW at \in ticks, Over(at) \/ at = tick, NEW s \in LatestAt(at) PROVE Entered(s)
  BY <1>1, <1>2, <1>7 DEF OnceInv
<1>8. /\ \A n, o \in 1 .. Len(db.made) : n # o => db.made[n].event # db.made[o].event
      /\ \A n \in 1 .. Len(db.made) :
           FirstKnown(db.made[n].event, IF n <= before THEN db.made[n].at ELSE tick)
  BY <1>1, <1>2, <1>4 DEF OnceInv
<1> QED
  BY <1>1, <1>3, <1>4, <1>5, <1>6, <1>7, <1>8 DEF OnceInv

LEMMA StampOnce ==
  ASSUME IInv, Reports, Stamp PROVE OnceInv'
<1>1. /\ stage = "cross" /\ stage' = "next" /\ kind = "backtest" /\ kind' = kind /\ todo = {}
      /\ tick' = tick /\ todo' = todo
      /\ UNCHANGED <<recorderVars, loaded, ticks>> /\ now' = now /\ source' = source
      /\ tick \in ticks /\ ticks \subseteq Nat /\ before \in 0 .. Len(db.made)
      /\ DOMAIN db.made = 1 .. Len(db.made) /\ Len(db'.made) = Len(db.made)
      /\ Len(db.made) \in Nat
      /\ \A k \in 1 .. Len(db.made) :
           /\ db'.made[k].event = db.made[k].event
           /\ db'.made[k].at = IF k > before THEN tick ELSE db.made[k].at
  BY StampStep DEF recorderVars
<1>2. OnceInv /\ Grows
  BY <1>1, RestingGrows DEF Reports
<1>3. /\ \A f, at : FirstKnown(f, at)' <=> FirstKnown(f, at)
      /\ \A at : LatestAt(at)' = LatestAt(at)
  BY <1>1, <1>2, FirstsStay, MemorySays
<1>4. /\ Dated = before /\ Dated' = Len(db.made)
      /\ \A at \in ticks : Over(at)' => Over(at) \/ at = tick
  BY <1>1 DEF Dated, Over, InTick
<1>5. Processed(db.made)' = Processed(db.made)
  <2>1. db'.made \in Seq(Decision)
    BY StampStep DEF Database
  <2>2. DOMAIN db'.made = 1 .. Len(db.made)
    BY <1>1, <2>1
  <2> QED
    BY <1>1, <2>2 DEF Processed
<1>6. \A s : Entered(s)' <=> Entered(s)
  BY <1>1, <1>5 DEF Entered, StaleByNow
<1>7. ASSUME NEW n \in 1 .. Len(db.made)
      PROVE  FirstKnown(db'.made[n].event, db'.made[n].at) /\ n <= Dated'
  <2>1. FirstKnown(db.made[n].event, IF n <= before THEN db.made[n].at ELSE tick)
    BY <1>1, <1>2, <1>4 DEF OnceInv
  <2> QED
    BY <1>1, <1>4, <2>1
<1>8. \A n, o \in 1 .. Len(db'.made) : n # o => db'.made[n].event # db'.made[o].event
  BY <1>1, <1>2 DEF OnceInv
<1>9. ASSUME NEW at \in ticks, Over(at)', NEW s \in LatestAt(at) PROVE Entered(s)
  BY <1>1, <1>2, <1>4, <1>9 DEF OnceInv
<1> QED
  BY <1>1, <1>3, <1>5, <1>6, <1>7, <1>8, <1>9 DEF OnceInv

LEMMA ReportOnce ==
  ASSUME IInv, Reports, Report PROVE OnceInv'
<1>1. /\ stage = "next" /\ stage' = "done"
      /\ UNCHANGED <<recorderVars, kind, db, loaded, ticks, tick, before, todo>>
      /\ now' = now /\ source' = source
  BY DEF Report, recorderVars
<1>2. OnceInv /\ Grows
  BY <1>1, RestingGrows DEF Reports
<1>3. /\ \A f, at : FirstKnown(f, at)' <=> FirstKnown(f, at)
      /\ \A at : LatestAt(at)' = LatestAt(at)
  BY <1>1, <1>2, FirstsStay, MemorySays
<1>4. /\ Dated' = Dated /\ \A at : Over(at)' <=> Over(at)
  BY <1>1 DEF Dated, Over, InTick
<1>5. Processed(db.made)' = Processed(db.made) /\ \A s : Entered(s)' <=> Entered(s)
  BY <1>1 DEF Processed, Entered, StaleByNow
<1> QED
  BY <1>1, <1>2, <1>3, <1>4, <1>5 DEF OnceInv

\* What the experiment reads of its scratch database is what was known.
LEMMA ReadsKnown ==
  ASSUME IInv
  PROVE  /\ NewestForecast = ForecastAt(tick) /\ PricedBook = PricedAt(tick)
         /\ LastBook = Latest("books", Known("books", tick))
BY RowsAreKnown, TablesAre
DEF RowsKnown, NewestForecast, ForecastAt, PricedBook, PricedAt, LastBook

LEMMA OneForecast ==
  ASSUME IInv, NEW at, NEW f \in ForecastAt(at), NEW g \in ForecastAt(at) PROVE f = g
<1>1. Known("forecasts", at) \subseteq 1 .. Len(source["forecasts"])
  BY KnownRows, TablesAre DEF IInv
<1> QED
  BY <1>1 DEF ForecastAt

LEMMA OneAsk ==
  ASSUME IInv, NEW at, NEW b \in PricedAt(at) PROVE AsksAt(at) = {AskOf(b)}
<1>1. PICK ids : ids = {i \in Known("books", at) : AskOf(i) # "none"}
  OBVIOUS
<1>2. ids \subseteq 1 .. Len(source["books"])
  BY <1>1, KnownRows, TablesAre DEF IInv
<1>3. \A c \in PricedAt(at) : c = b
  BY <1>1, <1>2, LatestIsOne, TablesAre DEF PricedAt, IInv
<1> QED
  BY <1>3 DEF AsksAt

LEMMA OneBook ==
  ASSUME IInv, NEW at, NEW b \in Latest("books", Known("books", at))
  PROVE  BooksAt(at) = {AskOf(b)}
<1>1. PICK ids : ids = Known("books", at)
  OBVIOUS
<1>2. ids \subseteq 1 .. Len(source["books"])
  BY <1>1, KnownRows, TablesAre DEF IInv
<1>3. \A c \in Latest("books", Known("books", at)) : c = b
  BY <1>1, <1>2, LatestIsOne, TablesAre DEF IInv
<1> QED
  BY <1>3 DEF BooksAt

LEMMA IsTriedAt ==
  ASSUME IInv
  PROVE  \A f : IsTried(f) <=> \E k \in 1 .. Len(db.tried) : db.tried[k].forecast = f
BY NextFields DEF IsTried, IInv

\* Nothing is due: the stage alone changes.
LEMMA OrdersRest ==
  ASSUME IInv, Reports, kind = "experiment", kind' = kind,
         UNCHANGED <<recorderVars, loaded, ticks>>, db'.tried = db.tried,
         db'.orders = db.orders, db'.position = db.position,
         stage \notin {"execute", "order"}, stage' \notin {"execute", "order"}
  PROVE  OrderInv'
<1>1. Grows /\ OrderInv
  BY RestingGrows DEF Reports
<1>2. \A at : BooksAt(at)' = BooksAt(at)
  BY <1>1, MemorySays
<1>3. /\ \A f : OrdersOf(f)' = OrdersOf(f) /\ (IsTried(f)' <=> IsTried(f))
      /\ FilledOrders' = FilledOrders
  BY DEF OrdersOf, IsTried, FilledOrders
<1>4. \A d, o : OrderFor(d, o)' <=> OrderFor(d, o)
  BY <1>2, <1>3 DEF OrderFor
<1>5. \A k : ~Pending(k) /\ ~Pending(k)'
  BY DEF Pending
<1>6. (\A k \in 1 .. Len(db.tried) :
         IF db.tried[k].action = "BUY" /\ ~Pending(k)
         THEN \E o \in 1 .. Len(db.orders) : OrderFor(db.tried[k], o)
         ELSE OrdersOf(db.tried[k].forecast) = {})'
  <2> SUFFICES ASSUME NEW k \in 1 .. Len(db.tried)
               PROVE  (IF db.tried[k].action = "BUY" /\ ~Pending(k)
                       THEN \E o \in 1 .. Len(db.orders) : OrderFor(db.tried[k], o)
                       ELSE OrdersOf(db.tried[k].forecast) = {})'
    OBVIOUS
  <2>1. PICK d : d = db.tried[k]
    OBVIOUS
  <2>2. IF d.action = "BUY" THEN \E o \in 1 .. Len(db.orders) : OrderFor(d, o)
                            ELSE OrdersOf(d.forecast) = {}
    BY <1>1, <1>5, <2>1 DEF OrderInv
  <2>3. OrdersOf(d.forecast)' = OrdersOf(d.forecast) /\ \A o : OrderFor(d, o)' <=> OrderFor(d, o)
    BY <1>3, <1>4
  <2>4. d = db'.tried[k] /\ ~Pending(k)'
    BY <1>5, <2>1
  <2> QED
    BY <2>2, <2>3, <2>4
<1>7. db'.position = Cardinality(FilledOrders') + IF stage' = "order" THEN 1 ELSE 0
  <2>1. db.position = Cardinality(FilledOrders) + 0
    BY <1>1 DEF OrderInv
  <2> QED
    BY <1>3, <2>1
<1>8. (\A o \in 1 .. Len(db.orders) : IsTried(db.orders[o].forecast))'
  BY <1>1, <1>3 DEF OrderInv
<1>9. stage' \notin {"execute", "order"}
  OBVIOUS
<1> QED
  BY <1>6, <1>7, <1>8, <1>9 DEF OrderInv

\* An experiment comes to its next time.
LEMMA IngestTried ==
  ASSUME IInv, Reports, Ingest, kind = "experiment" PROVE TriedInv' /\ OrderInv'
<1>1. /\ stage = "next" /\ stage' = "signal" /\ kind' = kind
      /\ UNCHANGED <<recorderVars, loaded, ticks>>
  BY DEF Ingest
<1>2. /\ db'.tried = db.tried /\ db'.orders = db.orders /\ db'.position = db.position
  BY DEF Ingest, IInv, TypeOK, Database
<1>3. \A at \in ticks : SignalsOver(at)' => SignalsOver(at)
  <2> SUFFICES ASSUME NEW at \in ticks, at < tick' PROVE SignalsOver(at)
    BY <1>1 DEF SignalsOver
  <2>1. ticks \subseteq Nat /\ tick \in Nat /\ tick' \in Nat
    BY IngestReads, Types DEF IInv
  <2>2. ~(tick < at)
    BY <2>1, IngestReads
  <2> QED
    BY <1>1, <2>1, <2>2 DEF SignalsOver
<1>4. Grows /\ TriedInv /\ OrderInv
  BY <1>1, RestingGrows DEF Reports
<1>5. /\ \A at : /\ ForecastAt(at)' = ForecastAt(at) /\ PricedAt(at)' = PricedAt(at)
                 /\ AsksAt(at)' = AsksAt(at) /\ BooksAt(at)' = BooksAt(at)
      /\ \A f : FirstTime(SignalTimes(f))' = FirstTime(SignalTimes(f))
  BY <1>1, <1>4, MemorySays, FirstsStay DEF FirstTime
<1>6. TriedInv'
  BY <1>1, <1>2, <1>3, <1>4, <1>5 DEF TriedInv, IsTried
<1>7. OrderInv'
  BY <1>1, <1>2, OrdersRest
<1> QED
  BY <1>6, <1>7

\* A step of the experiment's tick that makes no decision.
LEMMA TriedStays ==
  ASSUME IInv, Reports, kind = "experiment", db'.tried = db.tried,
         UNCHANGED <<recorderVars, kind, loaded, ticks, tick>>,
         stage \notin {"signal"}, stage' \notin {"signal"}
  PROVE  TriedInv'
<1>1. Grows /\ TriedInv
  BY RestingGrows DEF Reports
<1>2. /\ \A at : /\ ForecastAt(at)' = ForecastAt(at) /\ PricedAt(at)' = PricedAt(at)
                 /\ AsksAt(at)' = AsksAt(at)
      /\ \A f : FirstTime(SignalTimes(f))' = FirstTime(SignalTimes(f))
  BY <1>1, MemorySays, FirstsStay DEF FirstTime
<1> QED
  BY <1>1, <1>2 DEF TriedInv, IsTried, SignalsOver

LEMMA NoSignalTried ==
  ASSUME IInv, Reports, NoSignal PROVE TriedInv' /\ OrderInv'
<1>1. /\ stage = "signal" /\ stage' = "next" /\ kind = "experiment"
      /\ UNCHANGED <<recorderVars, kind, db, loaded, ticks, tick>>
      /\ \/ NewestForecast = {} \/ PricedBook = {}
         \/ \E f \in NewestForecast : IsTried(f)
  BY DEF NoSignal, IInv, StageInv
<1>2. Grows /\ TriedInv /\ OrderInv
  BY <1>1, RestingGrows DEF Reports
<1>3. /\ \A at : /\ ForecastAt(at)' = ForecastAt(at) /\ PricedAt(at)' = PricedAt(at)
                 /\ AsksAt(at)' = AsksAt(at) /\ BooksAt(at)' = BooksAt(at)
      /\ \A f : FirstTime(SignalTimes(f))' = FirstTime(SignalTimes(f))
  BY <1>1, <1>2, MemorySays, FirstsStay DEF FirstTime
<1>4. \A f \in ForecastAt(tick) : PricedAt(tick) # {} => IsTried(f)
  BY <1>1, ReadsKnown, OneForecast
<1>5. TriedInv'
  BY <1>1, <1>2, <1>3, <1>4 DEF TriedInv, IsTried, SignalsOver
<1>6. OrderInv'
  BY <1>1, OrdersRest
<1> QED
  BY <1>5, <1>6

LEMMA SignalTried ==
  ASSUME IInv, IInv', Reports, Signal PROVE TriedInv' /\ OrderInv'
<1>1. /\ stage = "signal" /\ kind = "experiment"
      /\ UNCHANGED <<recorderVars, kind, loaded, ticks, tick>>
  BY DEF Signal, IInv, StageInv
<1>2. PICK f \in ForecastAt(tick), b \in PricedAt(tick) :
        /\ ~IsTried(f)
        /\ db' = [db EXCEPT !.tried =
             Append(@, [forecast |-> f, action |-> ActionAt(AskOf(b)), at |-> tick])]
        /\ stage' = IF ActionAt(AskOf(b)) = "BUY" THEN "execute" ELSE "next"
  BY ReadsKnown DEF Signal
<1>3. PICK x : x = [forecast |-> f, action |-> ActionAt(AskOf(b)), at |-> tick]
  OBVIOUS
<1>4. x.forecast = f /\ x.action = ActionAt(AskOf(b)) /\ x.at = tick
  BY <1>3
<1>5. PICK n : n = Len(db.tried)
  OBVIOUS
<1>6. /\ db'.tried = Append(db.tried, x) /\ db'.orders = db.orders /\ db'.position = db.position
      /\ n \in Nat /\ Len(db'.tried) = n + 1
      /\ \A k \in 1 .. n : db'.tried[k] = db.tried[k]
      /\ db'.tried[n + 1] = x
  <2>1. /\ db'.tried = Append(db.tried, x)
        /\ db'.orders = db.orders /\ db'.position = db.position
    BY <1>2, <1>3 DEF IInv, TypeOK, Database
  <2> DEFINE Tried == [forecast : Nat, action : {"BUY", "SKIP"}, at : Times]
  <2>2. db.tried \in Seq(Tried)
    BY DEF IInv, TypeOK, Database
  <2>3. x \in Tried
    <3>1. f \in Nat
      BY KnownRows, TablesAre DEF ForecastAt, IInv
    <3>2. tick \in Times
      BY <1>1, Types DEF IInv, StageInv, InTick
    <3> QED
      BY <1>3, <3>1, <3>2 DEF ActionAt
  <2> HIDE DEF Tried
  <2> QED
    BY <1>5, <2>1, <2>2, <2>3, AppendGrows
<1>7. Grows /\ TriedInv /\ OrderInv
  BY <1>1, RestingGrows DEF Reports
<1>8. /\ \A at : /\ ForecastAt(at)' = ForecastAt(at) /\ PricedAt(at)' = PricedAt(at)
                 /\ AsksAt(at)' = AsksAt(at) /\ BooksAt(at)' = BooksAt(at)
      /\ \A g : FirstTime(SignalTimes(g))' = FirstTime(SignalTimes(g))
  BY <1>1, <1>7, MemorySays, FirstsStay DEF FirstTime
<1>9. \A g : IsTried(g)' <=> IsTried(g) \/ g = f
  <2>1. \A g : IsTried(g) <=> \E k \in 1 .. n : db.tried[k].forecast = g
    BY <1>5, IsTriedAt
  <2>2. DOMAIN db'.tried = 1 .. (n + 1)
    <3>1. TypeOK'
      BY DEF IInv
    <3> DEFINE Tried == [forecast : Nat, action : {"BUY", "SKIP"}, at : Times]
    <3>2. db'.tried \in Seq(Tried)
      BY <3>1 DEF TypeOK, Database
    <3> HIDE DEF Tried
    <3> QED
      BY <1>6, <3>2
  <2>3. \A g : IsTried(g)' <=> \E k \in 1 .. (n + 1) : db'.tried[k].forecast = g
    BY <2>2 DEF IsTried
  <2>4. ASSUME NEW g, IsTried(g) \/ g = f PROVE IsTried(g)'
    <3>1. CASE IsTried(g)
      <4>1. PICK k \in 1 .. n : db.tried[k].forecast = g
        BY <2>1, <3>1
      <4>2. k \in 1 .. (n + 1) /\ db'.tried[k].forecast = g
        BY <1>6, <4>1
      <4> QED
        BY <2>3, <4>2
    <3>2. CASE g = f
      <4>1. n + 1 \in 1 .. (n + 1) /\ db'.tried[n + 1].forecast = g
        BY <1>4, <1>6, <3>2
      <4> QED
        BY <2>3, <4>1
    <3> QED
      BY <2>4, <3>1, <3>2
  <2>5. ASSUME NEW g, IsTried(g)' PROVE IsTried(g) \/ g = f
    <3>1. PICK k \in 1 .. (n + 1) : db'.tried[k].forecast = g
      BY <2>3, <2>5
    <3>2. CASE k \in 1 .. n
      BY <1>6, <2>1, <3>1, <3>2
    <3>3. CASE k = n + 1
      BY <1>4, <1>6, <3>1, <3>3
    <3> QED
      BY <1>6, <3>2, <3>3
  <2> QED
    BY <2>4, <2>5
<1>10. \A k \in 1 .. n : db.tried[k].forecast # f
  BY <1>2, <1>5, IsTriedAt
<1>11. tick \in FirstTime(SignalTimes(f))
  <2>1. tick \in ticks /\ ticks \subseteq Nat
    BY <1>1, Types DEF IInv, StageInv, InTick
  <2>2. tick \in SignalTimes(f)
    BY <1>2, <2>1 DEF SignalTimes
  <2>3. ASSUME NEW other \in SignalTimes(f) PROVE tick <= other
    <3>1. other \in ticks /\ f \in ForecastAt(other) /\ PricedAt(other) # {}
      BY <2>3 DEF SignalTimes
    <3>2. ~(other < tick)
      BY <1>1, <1>2, <1>7, <3>1 DEF TriedInv, SignalsOver
    <3> QED
      BY <2>1, <3>1, <3>2
  <2> QED
    BY <2>2, <2>3 DEF FirstTime
<1>12. x.action = "BUY" <=> "dear" \notin AsksAt(tick)
  <2>1. AsksAt(tick) = {AskOf(b)}
    BY OneAsk
  <2> QED
    BY <1>4, <2>1 DEF ActionAt
<1>13. \A k, j \in 1 .. (n + 1) : k # j => db'.tried[k].forecast # db'.tried[j].forecast
  <2> SUFFICES ASSUME NEW k \in 1 .. (n + 1), NEW j \in 1 .. (n + 1), k # j
               PROVE  db'.tried[k].forecast # db'.tried[j].forecast
    OBVIOUS
  <2>1. CASE k \in 1 .. n /\ j \in 1 .. n
    BY <1>1, <1>5, <1>6, <1>7, <2>1 DEF TriedInv
  <2>2. CASE k = n + 1
    BY <1>4, <1>6, <1>10, <2>2
  <2>3. CASE j = n + 1
    BY <1>4, <1>6, <1>10, <2>3
  <2> QED
    BY <1>6, <2>1, <2>2, <2>3
<1>14. ASSUME NEW k \in 1 .. (n + 1)
       PROVE  /\ db'.tried[k].at \in FirstTime(SignalTimes(db'.tried[k].forecast))
              /\ db'.tried[k].action = "BUY" <=> "dear" \notin AsksAt(db'.tried[k].at)
  <2>1. CASE k \in 1 .. n
    BY <1>1, <1>5, <1>6, <1>7, <2>1 DEF TriedInv
  <2>2. CASE k = n + 1
    BY <1>4, <1>6, <1>11, <1>12, <2>2
  <2> QED
    BY <1>6, <2>1, <2>2
<1>15. ASSUME NEW at \in ticks, SignalsOver(at)', NEW g \in ForecastAt(at), PricedAt(at) # {}
       PROVE  IsTried(g)'
  <2>1. at < tick \/ at = tick
    BY <1>1, <1>15 DEF SignalsOver
  <2>2. CASE at < tick
    BY <1>1, <1>7, <1>9, <1>15, <2>2 DEF TriedInv, SignalsOver
  <2>3. CASE at = tick
    BY <1>2, <1>9, <1>15, <2>3, OneForecast
  <2> QED
    BY <2>1, <2>2, <2>3
<1>16. TriedInv'
  BY <1>1, <1>6, <1>8, <1>13, <1>14, <1>15 DEF TriedInv
<1>17. OrdersOf(f) = {}
  BY <1>1, <1>2, <1>7, NextFields DEF OrderInv, OrdersOf, IInv
<1>18. /\ \A g : OrdersOf(g)' = OrdersOf(g)
       /\ FilledOrders' = FilledOrders
  BY <1>6 DEF OrdersOf, FilledOrders
<1>19. \A d, o : OrderFor(d, o)' <=> OrderFor(d, o)
  BY <1>6, <1>8, <1>18 DEF OrderFor
<1>20. ASSUME NEW k \in 1 .. (n + 1)
       PROVE  IF db'.tried[k].action = "BUY" /\ ~Pending(k)'
              THEN \E o \in 1 .. Len(db.orders) : OrderFor(db'.tried[k], o)
              ELSE OrdersOf(db'.tried[k].forecast) = {}
  <2>1. CASE k \in 1 .. n
    <3>1. ~Pending(k) /\ ~Pending(k)'
      BY <1>1, <1>6, <2>1 DEF Pending
    <3> QED
      BY <1>1, <1>5, <1>6, <1>7, <2>1, <3>1 DEF OrderInv
  <2>2. CASE k = n + 1
    <3>1. ~(db'.tried[k].action = "BUY" /\ ~Pending(k)')
      BY <1>2, <1>4, <1>6, <2>2 DEF Pending
    <3> QED
      BY <1>4, <1>6, <1>17, <2>2, <3>1
  <2>3. k \in 1 .. n \/ k = n + 1
    BY <1>6
  <2> QED
    BY <2>1, <2>2, <2>3
<1>21. stage' # "order" /\ stage # "order"
  BY <1>1, <1>2
<1>22. stage' = "execute" => db'.tried[n + 1].action = "BUY" /\ db'.tried[n + 1].at = tick'
  BY <1>1, <1>2, <1>4, <1>6
<1>23. \A o \in 1 .. Len(db.orders) : IsTried(db.orders[o].forecast)'
  BY <1>1, <1>6, <1>7, <1>9 DEF OrderInv
<1>24. db.position = Cardinality(FilledOrders)
  <2>1. db.position = Cardinality(FilledOrders) + 0 /\ db.position \in Nat
    BY <1>1, <1>7, NextFields DEF OrderInv, IInv
  <2>2. IsFiniteSet(FilledOrders)
    <3>1. FilledOrders \subseteq 1 .. Len(db.orders)
      BY NextFields DEF FilledOrders, IInv
    <3>2. IsFiniteSet(1 .. Len(db.orders))
      <4>1. Len(db.orders) \in Int /\ 1 \in Int
        BY NextFields DEF IInv
      <4> QED
        BY <4>1, FS_Interval
    <3> QED
      BY <3>1, <3>2, FS_Subset
  <2>3. Cardinality(FilledOrders) \in Nat
    BY <2>2, FS_CardinalityType
  <2> QED
    BY <2>1, <2>3
<1>25. db'.position = Cardinality(FilledOrders') + 0
  <2>1. db.position \in Nat
    BY NextFields DEF IInv
  <2> QED
    BY <1>6, <1>18, <1>24, <2>1
<1>26. OrderInv'
  BY <1>1, <1>6, <1>18, <1>19, <1>20, <1>21, <1>22, <1>23, <1>25 DEF OrderInv
<1> QED
  BY <1>16, <1>26

LEMMA FilledIsFinite ==
  ASSUME IInv
  PROVE  IsFiniteSet(FilledOrders) /\ Cardinality(FilledOrders) \in Nat
<1>1. FilledOrders \subseteq 1 .. Len(db.orders) /\ Len(db.orders) \in Int /\ 1 \in Int
  BY NextFields DEF FilledOrders, IInv
<1>2. IsFiniteSet(1 .. Len(db.orders))
  BY <1>1, FS_Interval
<1>3. IsFiniteSet(FilledOrders)
  BY <1>1, <1>2, FS_Subset
<1> QED
  BY <1>3, FS_CardinalityType

\* The last decision gets its order, by what the book of the time fills.
LEMMA OrderAdded ==
  ASSUME IInv, IInv', Reports, NEW status \in {"filled", "rejected"},
         stage \in {"execute", "order"}, stage' = "next",
         UNCHANGED <<recorderVars, kind, loaded, ticks, tick>>,
         db' = [db EXCEPT !.orders = Append(@, OrderOf(LastTried, status))],
         status = IF BooksAt(tick) = {"cheap"} THEN "filled" ELSE "rejected",
         stage = "order" <=> status = "filled"
  PROVE  TriedInv' /\ OrderInv'
<1>1. /\ kind = "experiment" /\ kind' = kind /\ tick \in Times /\ stage \notin {"signal"}
      /\ stage' \notin {"signal", "execute", "order"}
  BY Types DEF IInv, StageInv, InTick
<1>2. PICK n : n = Len(db.tried)
  OBVIOUS
<1>3. PICK m : m = Len(db.orders)
  OBVIOUS
<1>4. PICK d : d = db.tried[n]
  OBVIOUS
<1>5. n \in Nat /\ n # 0 /\ n \in 1 .. n /\ m \in Nat
  <2>1. n \in Nat /\ m \in Nat
    BY <1>2, <1>3, NextFields DEF IInv
  <2> DEFINE Tried == [forecast : Nat, action : {"BUY", "SKIP"}, at : Times]
  <2>2. db.tried \in Seq(Tried) /\ db.tried # <<>>
    BY DEF IInv, TypeOK, Database, StageInv
  <2> HIDE DEF Tried
  <2>3. n # 0
    BY <1>2, <2>2
  <2> QED
    BY <2>1, <2>3
<1>6. d.forecast \in Nat
  <2> DEFINE Tried == [forecast : Nat, action : {"BUY", "SKIP"}, at : Times]
  <2>1. db.tried \in Seq(Tried) /\ \A v \in Tried : v.forecast \in Nat
    BY DEF IInv, TypeOK, Database
  <2> HIDE DEF Tried
  <2>2. d \in Tried
    BY <1>2, <1>4, <1>5, <2>1
  <2> QED
    BY <2>1, <2>2
<1>7. PICK x : x = OrderOf(d.forecast, status)
  OBVIOUS
<1>8. x.forecast = d.forecast /\ x.status = status /\ x.at = tick
  BY <1>7 DEF OrderOf
<1>9. /\ db'.tried = db.tried /\ db'.position = db.position
      /\ Len(db'.orders) = m + 1 /\ DOMAIN db.orders = 1 .. m /\ DOMAIN db'.orders = 1 .. (m + 1)
      /\ \A o \in 1 .. m : db'.orders[o] = db.orders[o]
      /\ db'.orders[m + 1] = x
  <2> DEFINE Order == [forecast : Nat, status : {"filled", "rejected"}, at : Times]
  <2>1. db'.orders = Append(db.orders, x) /\ db'.tried = db.tried /\ db'.position = db.position
    BY <1>2, <1>4, <1>7 DEF IInv, TypeOK, Database, LastTried
  <2>2. db.orders \in Seq(Order)
    BY DEF IInv, TypeOK, Database
  <2>3. x \in Order
    BY <1>1, <1>6, <1>7 DEF OrderOf
  <2> HIDE DEF Order
  <2>4. /\ Append(db.orders, x) \in Seq(Order) /\ Len(Append(db.orders, x)) = m + 1
        /\ \A o \in 1 .. m : Append(db.orders, x)[o] = db.orders[o]
        /\ Append(db.orders, x)[m + 1] = x
    BY <1>3, <2>2, <2>3, AppendGrows
  <2> QED
    BY <1>3, <1>5, <2>1, <2>2, <2>4
<1>10. TriedInv /\ OrderInv /\ Grows
  BY RestingGrows DEF Reports
<1>11. TriedInv'
  BY <1>1, <1>9, TriedStays
<1>12. \A at : BooksAt(at)' = BooksAt(at)
  BY <1>10, MemorySays
<1>13. \A g : IsTried(g)' <=> IsTried(g)
  BY <1>9 DEF IsTried
<1>14. OrdersOf(d.forecast) = {} /\ d.at = tick /\ d.action = "BUY"
  BY <1>1, <1>2, <1>4, <1>5, <1>10 DEF OrderInv, Pending
<1>15. OrdersOf(d.forecast)' = {m + 1}
  <2>1. \A o \in 1 .. m : db.orders[o].forecast # d.forecast
    BY <1>9, <1>14 DEF OrdersOf
  <2>2. \A o \in 1 .. (m + 1) : db'.orders[o].forecast = d.forecast <=> o = m + 1
    BY <1>5, <1>8, <1>9, <2>1
  <2>3. \A o : o \in OrdersOf(d.forecast)' <=> o \in 1 .. (m + 1) /\ db'.orders[o].forecast = d.forecast
    BY <1>9 DEF OrdersOf
  <2>4. m + 1 \in 1 .. (m + 1)
    BY <1>5
  <2>5. \A o : o \in OrdersOf(d.forecast)' <=> o \in {m + 1}
    BY Zenon, <2>2, <2>3, <2>4
  <2> QED
    BY Zenon, <2>5
<1>16. \A g : g # d.forecast => OrdersOf(g)' = OrdersOf(g)
  <2> SUFFICES ASSUME NEW g, g # d.forecast PROVE OrdersOf(g)' = OrdersOf(g)
    OBVIOUS
  <2>1. \A o \in 1 .. (m + 1) : db'.orders[o].forecast = g <=> o \in 1 .. m /\ db.orders[o].forecast = g
    BY <1>5, <1>8, <1>9
  <2>2. \A o : o \in OrdersOf(g)' <=> o \in 1 .. (m + 1) /\ db'.orders[o].forecast = g
    BY <1>9 DEF OrdersOf
  <2>3. \A o : o \in OrdersOf(g) <=> o \in 1 .. m /\ db.orders[o].forecast = g
    BY <1>9 DEF OrdersOf
  <2>4. \A o \in 1 .. m : o \in 1 .. (m + 1)
    BY <1>5
  <2>5. \A o : o \in OrdersOf(g)' <=> o \in OrdersOf(g)
    BY Zenon, <2>1, <2>2, <2>3, <2>4
  <2> QED
    BY Zenon, <2>5
<1>17. ASSUME NEW k \in 1 .. n
       PROVE  (IF db.tried[k].action = "BUY" /\ ~Pending(k)
               THEN \E o \in 1 .. Len(db.orders) : OrderFor(db.tried[k], o)
               ELSE OrdersOf(db.tried[k].forecast) = {})'
  <2>1. PICK c : c = db.tried[k]
    OBVIOUS
  <2>2. c = db'.tried[k] /\ ~Pending(k)'
    BY <1>1, <1>9, <2>1 DEF Pending
  <2>3. CASE k = n
    <3>1. c = d
      BY <1>4, <2>1, <2>3
    <3>2. /\ OrdersOf(d.forecast)' = {m + 1} /\ db'.orders[m + 1].at = d.at
          /\ db'.orders[m + 1].status = IF BooksAt(d.at)' = {"cheap"} THEN "filled" ELSE "rejected"
      BY <1>8, <1>9, <1>12, <1>14, <1>15
    <3>3. OrderFor(d, m + 1)'
      BY <3>2 DEF OrderFor
    <3>4. m + 1 \in 1 .. Len(db'.orders)
      BY <1>5, <1>9
    <3> QED
      BY <1>14, <2>2, <3>1, <3>3, <3>4
  <2>4. CASE k # n
    <3>1. c.forecast # d.forecast
      BY <1>1, <1>2, <1>4, <1>5, <1>10, <2>1, <2>4 DEF TriedInv
    <3>2. IF c.action = "BUY" THEN \E o \in 1 .. m : OrderFor(c, o) ELSE OrdersOf(c.forecast) = {}
      BY <1>1, <1>2, <1>3, <1>10, <2>1, <2>4 DEF OrderInv, Pending
    <3>3. ASSUME NEW o \in 1 .. m, OrderFor(c, o) PROVE OrderFor(c, o)'
      BY <1>9, <1>12, <1>16, <3>1, <3>3 DEF OrderFor
    <3>4. \A o \in 1 .. m : o \in 1 .. Len(db'.orders)
      BY <1>5, <1>9
    <3> QED
      BY <1>16, <2>2, <3>1, <3>2, <3>3, <3>4
  <2> QED
    BY <2>3, <2>4
<1>18. (\A o \in 1 .. Len(db.orders) : IsTried(db.orders[o].forecast))'
  <2> SUFFICES ASSUME NEW o \in 1 .. (m + 1) PROVE IsTried(db.orders[o].forecast)'
    BY <1>9
  <2>1. CASE o \in 1 .. m
    BY <1>1, <1>3, <1>9, <1>10, <1>13, <2>1 DEF OrderInv
  <2>2. CASE o = m + 1
    <3>1. IsTried(d.forecast)
      BY <1>2, <1>4, <1>5, IsTriedAt
    <3> QED
      BY <1>8, <1>9, <1>13, <2>2, <3>1
  <2>3. o \in 1 .. m \/ o = m + 1
    BY <1>5
  <2> QED
    BY <2>1, <2>2, <2>3
<1>19. Cardinality(FilledOrders') = db.position
  <2>1. IsFiniteSet(FilledOrders) /\ Cardinality(FilledOrders) \in Nat
    BY FilledIsFinite
  <2>2. FilledOrders = {o \in 1 .. m : db.orders[o].status = "filled"}
    BY <1>9 DEF FilledOrders
  <2>3. FilledOrders' = {o \in 1 .. (m + 1) : db'.orders[o].status = "filled"}
    BY <1>9 DEF FilledOrders
  <2>4. m + 1 \notin FilledOrders
    BY <1>5, <2>2
  <2>5. db.position = Cardinality(FilledOrders) + IF stage = "order" THEN 1 ELSE 0
    BY <1>1, <1>10 DEF OrderInv
  <2>6. CASE status = "filled"
    <3>1. \A o : o \in FilledOrders' <=> o \in FilledOrders \/ o = m + 1
      BY <1>5, <1>8, <1>9, <2>2, <2>3, <2>6
    <3>2. FilledOrders' = FilledOrders \cup {m + 1}
      BY <3>1
    <3>3. Cardinality(FilledOrders \cup {m + 1}) = Cardinality(FilledOrders) + 1
      BY <2>1, <2>4, FS_AddElement
    <3> QED
      BY <2>5, <2>6, <3>2, <3>3
  <2>7. CASE status = "rejected"
    <3>1. \A o : o \in FilledOrders' <=> o \in FilledOrders
      BY <1>5, <1>8, <1>9, <2>2, <2>3, <2>7
    <3>2. FilledOrders' = FilledOrders
      BY <3>1
    <3>3. db.position = Cardinality(FilledOrders) + 0
      BY <2>5, <2>7
    <3> QED
      BY <2>1, <3>2, <3>3
  <2> QED
    BY <2>6, <2>7
<1>20. db'.position = Cardinality(FilledOrders') + IF stage' = "order" THEN 1 ELSE 0
  <2>1. db.position \in Nat
    BY NextFields DEF IInv
  <2>2. db'.position = Cardinality(FilledOrders') + 0
    BY <1>9, <1>19, <2>1
  <2> QED
    BY <1>1, <2>2
<1>21. Len(db'.tried) = n
  BY <1>2, <1>9
<1>22. OrderInv'
  BY <1>1, <1>17, <1>18, <1>20, <1>21 DEF OrderInv
<1> QED
  BY <1>11, <1>22

LEMMA ExecuteTried ==
  ASSUME IInv, IInv', Reports, Execute PROVE TriedInv' /\ OrderInv'
<1>1. /\ stage = "execute" /\ kind = "experiment" /\ tick \in ticks
      /\ UNCHANGED <<recorderVars, kind, loaded, ticks, tick>>
  BY DEF Execute, IInv, StageInv, InTick
<1>2. PICK b \in Latest("books", Known("books", tick)) :
        \/ /\ AskOf(b) # "cheap"
           /\ db' = [db EXCEPT !.orders = Append(@, OrderOf(LastTried, "rejected"))]
           /\ stage' = "next"
        \/ /\ AskOf(b) = "cheap"
           /\ db' = [db EXCEPT !.position = @ + 1]
           /\ stage' = "order"
  BY ReadsKnown DEF Execute
<1>3. BooksAt(tick) = {AskOf(b)}
  BY OneBook
<1>4. CASE /\ AskOf(b) # "cheap" /\ stage' = "next"
           /\ db' = [db EXCEPT !.orders = Append(@, OrderOf(LastTried, "rejected"))]
  <2>1. "rejected" = IF BooksAt(tick) = {"cheap"} THEN "filled" ELSE "rejected"
    BY <1>3, <1>4
  <2> QED
    BY <1>1, <1>4, <2>1, OrderAdded
<1>5. CASE /\ AskOf(b) = "cheap" /\ stage' = "order"
           /\ db' = [db EXCEPT !.position = @ + 1]
  <2>1. /\ db'.tried = db.tried /\ db'.orders = db.orders /\ db'.position = db.position + 1
        /\ db.position \in Nat
    BY <1>5, NextFields DEF IInv, TypeOK, Database
  <2>2. Grows /\ OrderInv
    BY <1>1, RestingGrows DEF Reports
  <2>3. TriedInv'
    BY <1>1, <1>5, <2>1, TriedStays
  <2>4. \A at : BooksAt(at)' = BooksAt(at)
    BY <1>1, <2>2, MemorySays
  <2>5. /\ \A f : OrdersOf(f)' = OrdersOf(f) /\ (IsTried(f)' <=> IsTried(f))
        /\ FilledOrders' = FilledOrders
    BY <2>1 DEF OrdersOf, IsTried, FilledOrders
  <2>6. \A d, o : OrderFor(d, o)' <=> OrderFor(d, o)
    BY <2>1, <2>4, <2>5 DEF OrderFor
  <2>7. \A k : Pending(k)' <=> Pending(k)
    BY <1>1, <1>5, <2>1 DEF Pending
  <2>8. (\A k \in 1 .. Len(db.tried) :
           IF db.tried[k].action = "BUY" /\ ~Pending(k)
           THEN \E o \in 1 .. Len(db.orders) : OrderFor(db.tried[k], o)
           ELSE OrdersOf(db.tried[k].forecast) = {})'
    <3> SUFFICES ASSUME NEW k \in 1 .. Len(db.tried)
                 PROVE  (IF db.tried[k].action = "BUY" /\ ~Pending(k)
                         THEN \E o \in 1 .. Len(db.orders) : OrderFor(db.tried[k], o)
                         ELSE OrdersOf(db.tried[k].forecast) = {})'
      BY <2>1
    <3>1. PICK d : d = db.tried[k]
      OBVIOUS
    <3>2. IF d.action = "BUY" /\ ~Pending(k) THEN \E o \in 1 .. Len(db.orders) : OrderFor(d, o)
                                             ELSE OrdersOf(d.forecast) = {}
      BY <1>1, <2>2, <3>1 DEF OrderInv
    <3>3. d = db'.tried[k] /\ (Pending(k)' <=> Pending(k))
      BY <2>1, <2>7, <3>1
    <3> QED
      BY <2>1, <2>5, <2>6, <3>2, <3>3
  <2>9. (\A o \in 1 .. Len(db.orders) : IsTried(db.orders[o].forecast))'
    BY <1>1, <2>1, <2>2, <2>5 DEF OrderInv
  <2>10. db'.position = Cardinality(FilledOrders') + 1
    <3>1. db.position = Cardinality(FilledOrders) + 0 /\ Cardinality(FilledOrders) \in Nat
      BY <1>1, <2>2, FilledIsFinite DEF OrderInv
    <3> QED
      BY <2>1, <2>5, <3>1
  <2>11. db.tried[Len(db.tried)].action = "BUY" /\ db.tried[Len(db.tried)].at = tick
    BY <1>1, <2>2 DEF OrderInv
  <2>12. BooksAt(tick)' = {"cheap"}
    BY <1>1, <1>3, <1>5, <2>4
  <2>13. OrderInv'
    BY <1>1, <1>5, <2>1, <2>8, <2>9, <2>10, <2>11, <2>12 DEF OrderInv
  <2> QED
    BY <2>3, <2>13
<1> QED
  BY <1>2, <1>4, <1>5

LEMMA RecordOrderTried ==
  ASSUME IInv, IInv', Reports, RecordOrder PROVE TriedInv' /\ OrderInv'
<1>1. /\ stage = "order" /\ stage' = "next" /\ kind = "experiment"
      /\ UNCHANGED <<recorderVars, kind, loaded, ticks, tick>>
      /\ db' = [db EXCEPT !.orders = Append(@, OrderOf(LastTried, "filled"))]
  BY DEF RecordOrder, IInv, StageInv
<1>2. BooksAt(tick) = {"cheap"}
  BY <1>1 DEF Reports, OrderInv
<1>3. "filled" = IF BooksAt(tick) = {"cheap"} THEN "filled" ELSE "rejected"
  BY <1>2
<1> QED
  BY <1>1, <1>3, OrderAdded

LEMMA ReportTried ==
  ASSUME IInv, Reports, Report, kind = "experiment" PROVE TriedInv' /\ OrderInv'
<1>1. /\ stage = "next" /\ stage' = "done"
      /\ UNCHANGED <<recorderVars, kind, db, loaded, ticks, tick>>
  BY DEF Report
<1>2. TriedInv'
  BY <1>1, TriedStays
<1>3. OrderInv'
  BY <1>1, OrdersRest
<1> QED
  BY <1>2, <1>3

\* Each replay has one report, the other one is empty.
LEMMA OtherKind ==
  ASSUME IInv
  PROVE  /\ kind' = "backtest" /\ OnceInv' => Reports'
         /\ kind' = "experiment" /\ TriedInv' /\ OrderInv' => Reports'
BY DEF Reports, OnceInv, TriedInv, OrderInv

LEMMA ReportsNext == IInv /\ IInv' /\ Reports /\ [Next]_vars => Reports'
<1> SUFFICES ASSUME IInv, IInv', Reports, [Next]_vars PROVE Reports'
  OBVIOUS
<1>1. kind = "backtest" \/ kind = "experiment"
  BY DEF IInv, TypeOK, Kinds
<1>2. CASE RecorderNext /\ UNCHANGED replayVars
  BY <1>2, RecorderActs, RestReports DEF IInv
<1>3. CASE UNCHANGED vars
  <2>1. UNCHANGED recorderVars /\ UNCHANGED replayVars
    BY <1>3 DEF vars
  <2> QED
    BY <2>1, RestingGrows, RestReports
<1>4. CASE Copy \/ ListTicks \/ (\E t \in Tables : Load(t)) \/ Leave
  BY <1>4, SetupReports
<1>5. CASE Ingest
  <2>1. kind' = kind
    BY <1>5 DEF Ingest
  <2> QED
    BY <1>1, <1>5, <2>1, IngestOnce, IngestTried, OtherKind
<1>6. CASE Decide \/ Cross \/ Stamp
  <2>1. kind = "backtest" /\ kind' = kind
    BY <1>6 DEF Decide, Cross, Stamp, IInv, StageInv
  <2>2. OnceInv'
    BY <1>6, <2>1, DecideOnce, CrossOnce, StampOnce
  <2> QED
    BY <2>1, <2>2, OtherKind
<1>7. CASE NoSignal \/ Signal \/ Execute \/ RecordOrder
  <2>1. kind = "experiment" /\ kind' = kind
    BY <1>7 DEF NoSignal, Signal, Execute, RecordOrder, IInv, StageInv
  <2>2. TriedInv' /\ OrderInv'
    BY <1>7, NoSignalTried, SignalTried, ExecuteTried, RecordOrderTried
  <2> QED
    BY <2>1, <2>2, OtherKind
<1>8. CASE Report
  <2>1. kind' = kind
    BY <1>8 DEF Report
  <2> QED
    BY <1>1, <1>8, <2>1, ReportOnce, ReportTried, OtherKind
<1> QED
  BY <1>2, <1>3, <1>4, <1>5, <1>6, <1>7, <1>8 DEF Next, Step

LEMMA ReportsInductive == Spec => [](IInv /\ Reports)
<1>1. Init => AtStart
  BY DEF Init, AtStart, Setup
<1>2. IInv /\ AtStart => Reports
  BY FreshReports DEF IInv
<1> QED
  BY <1>1, <1>2, ReplayStarts, ReportsNext, Inductive, PTL DEF Spec

\* The report of a backtest is the reference's: every event that the loaded
\* rows show at one of the times is decided once, at the first of them, and
\* nothing else is in it; only an entry on a sample that is old by the wall
\* clock is missing (backtest.py _reset_replay_tables, _ingest_until,
\* _stamp_new_paper_rows; runner.py _ocf_forecast_stale_reason).
THEOREM BacktestReports == Spec => []BacktestIsReference
<1>1. IInv /\ Reports => BacktestIsReference
  <2> SUFFICES ASSUME IInv, OnceInv, stage = "done", kind = "backtest"
               PROVE  BacktestIsReference
    BY DEF Reports, BacktestIsReference
  <2>1. DOMAIN db.made = 1 .. Len(db.made)
    BY NextFields DEF IInv
  <2>2. Dated = Len(db.made)
    BY DEF Dated, InTick
  <2>3. \A n \in 1 .. Len(db.made) : n <= Dated
    BY <2>2, Types DEF IInv
  <2>4. \A n \in 1 .. Len(db.made) : FirstKnown(db.made[n].event, db.made[n].at)
    BY <2>3 DEF OnceInv
  <2>5. ASSUME NEW at \in ticks PROVE Over(at)
    <3>1. at \in Nat /\ tick \in Nat /\ at <= tick
      BY Types DEF IInv, StageInv
    <3> QED
      BY <3>1 DEF Over, InTick
  <2>6. \A at \in ticks : \A p \in Neighbours(Known("readings", at)) :
           <<"reading", p>> \in Processed(db.made)
    <3> SUFFICES ASSUME NEW at \in ticks, NEW p \in Neighbours(Known("readings", at))
                 PROVE  <<"reading", p>> \in Processed(db.made)
      OBVIOUS
    <3>1. PICK n \in 1 .. Dated : db.made[n].event = <<"reading", p>>
      BY <2>5 DEF IInv, CrossInv
    <3> QED
      BY <2>1, <2>2, <3>1 DEF Processed
  <2>7. \A at \in ticks : \A s \in Latest("samples", Known("samples", at)) :
           <<"forecast", s>> \in Processed(db.made) \/ StaleByNow(s)
    BY <2>5 DEF OnceInv, LatestAt, Entered
  <2> QED
    BY <2>1, <2>4, <2>6, <2>7 DEF BacktestIsReference, OnceInv, FirstKnown
<1> QED
  BY <1>1, ReportsInductive, PTL

\* The report of an experiment is the reference's: one decision for each
\* forecast that was the newest when an ask was known, at the first such
\* time, one order for each decision to buy, filled if the book of that time
\* fills it, and a position that adds up the filled orders
\* (experiments/backtest.py; experimental_scheduler.py run_experiment_tick).
THEOREM ExperimentReports == Spec => []ExperimentIsReference
<1>1. IInv /\ Reports => ExperimentIsReference
  <2> SUFFICES ASSUME IInv, TriedInv, OrderInv, stage = "done", kind = "experiment"
               PROVE  ExperimentIsReference
    BY DEF Reports, ExperimentIsReference
  <2>1. DOMAIN db.tried = 1 .. Len(db.tried) /\ DOMAIN db.orders = 1 .. Len(db.orders)
    BY NextFields DEF IInv
  <2>2. ASSUME NEW f, NEW at \in FirstTime(SignalTimes(f))
        PROVE  \E k \in 1 .. Len(db.tried) : db.tried[k].forecast = f /\ db.tried[k].at = at
    <3>1. at \in ticks /\ f \in ForecastAt(at) /\ PricedAt(at) # {}
      BY <2>2 DEF FirstTime, SignalTimes
    <3>2. SignalsOver(at)
      <4>1. at \in Nat /\ tick \in Nat /\ at <= tick
        BY <3>1, Types DEF IInv, StageInv
      <4> QED
        BY <4>1 DEF SignalsOver
    <3>3. PICK k \in 1 .. Len(db.tried) : db.tried[k].forecast = f
      BY <3>1, <3>2, IsTriedAt DEF TriedInv
    <3>4. db.tried[k].at \in FirstTime(SignalTimes(f))
      BY <3>3 DEF TriedInv
    <3>5. SignalTimes(f) \subseteq Nat
      BY Types DEF SignalTimes, IInv
    <3>6. db.tried[k].at = at
      BY <2>2, <3>4, <3>5, FirstIsOne
    <3> QED
      BY <3>3, <3>6
  <2>3. \A f \in Known("forecasts", MaxTime) :
          LET tries == {k \in DOMAIN db.tried : db.tried[k].forecast = f}
          IN  {db.tried[k].at : k \in tries} = FirstTime(SignalTimes(f))
    <3> SUFFICES ASSUME NEW f
                 PROVE  {db.tried[k].at : k \in {j \in DOMAIN db.tried : db.tried[j].forecast = f}}
                          = FirstTime(SignalTimes(f))
      BY Zenon
    <3>1. \A k \in DOMAIN db.tried : db.tried[k].forecast = f => db.tried[k].at \in FirstTime(SignalTimes(f))
      BY <2>1 DEF TriedInv
    <3>2. \A at \in FirstTime(SignalTimes(f)) :
            \E k \in DOMAIN db.tried : db.tried[k].forecast = f /\ db.tried[k].at = at
      BY <2>1, <2>2
    <3> QED
      BY <3>1, <3>2
  <2>4. ASSUME NEW k \in DOMAIN db.tried, NEW d, d = db.tried[k]
        PROVE  /\ d.action = "BUY" <=> "dear" \notin AsksAt(d.at)
               /\ d.action = "SKIP" => OrdersOf(d.forecast) = {}
               /\ d.action = "BUY" => \E o \in OrdersOf(d.forecast) :
                    /\ OrdersOf(d.forecast) = {o} /\ db.orders[o].at = d.at
                    /\ db.orders[o].status = IF BooksAt(d.at) = {"cheap"} THEN "filled" ELSE "rejected"
    <3>1. d.action = "BUY" <=> "dear" \notin AsksAt(d.at)
      BY <2>1, <2>4 DEF TriedInv
    <3>2. ~Pending(k)
      BY DEF Pending
    <3>3. d.action # "BUY" => OrdersOf(d.forecast) = {}
      BY <2>1, <2>4, <3>2 DEF OrderInv
    <3>4. ASSUME d.action = "BUY"
          PROVE  \E o \in OrdersOf(d.forecast) :
                    /\ OrdersOf(d.forecast) = {o} /\ db.orders[o].at = d.at
                    /\ db.orders[o].status = IF BooksAt(d.at) = {"cheap"} THEN "filled" ELSE "rejected"
      <4>1. PICK o \in 1 .. Len(db.orders) : OrderFor(d, o)
        BY <2>1, <2>4, <3>2, <3>4 DEF OrderInv
      <4>2. o \in OrdersOf(d.forecast)
        BY <4>1 DEF OrderFor
      <4> QED
        BY <4>1, <4>2 DEF OrderFor
    <3> QED
      BY <3>1, <3>3, <3>4
  <2>5. \A k \in DOMAIN db.orders :
          \E j \in DOMAIN db.tried : db.tried[j].forecast = db.orders[k].forecast
    BY <2>1 DEF OrderInv, IsTried
  <2>6. db.position = Cardinality(FilledOrders)
    <3>1. db.position = Cardinality(FilledOrders) + 0 /\ Cardinality(FilledOrders) \in Nat
      BY FilledIsFinite DEF OrderInv
    <3> QED
      BY <3>1
  <2>7. \A k \in DOMAIN db.tried :
          LET d == db.tried[k]
              asks == {AskOf(b) : b \in PricedAt(d.at)}
              books == {AskOf(b) : b \in Latest("books", Known("books", d.at))}
          IN  /\ d.action = "BUY" <=> "dear" \notin asks
              /\ d.action = "SKIP" => OrdersOf(d.forecast) = {}
              /\ d.action = "BUY" => \E o \in OrdersOf(d.forecast) :
                   /\ OrdersOf(d.forecast) = {o} /\ db.orders[o].at = d.at
                   /\ db.orders[o].status = IF books = {"cheap"} THEN "filled" ELSE "rejected"
    BY Zenon, <2>4 DEF AsksAt, BooksAt
  <2> QED
    BY Zenon, <2>3, <2>5, <2>6, <2>7 DEF ExperimentIsReference
<1> QED
  BY <1>1, ReportsInductive, PTL
=============================================================================
