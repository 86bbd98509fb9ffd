------------------------------- MODULE Replay -------------------------------
(***************************************************************************)
(* The replay of a recorded day in a scratch database: backtest.py, which  *)
(* runs the paper tick, and experiments/backtest.py, which runs an         *)
(* experimental strategy.  Both copy the recorder's database, empty the    *)
(* copy, list the times to tick at, load the recorded rows in the order    *)
(* they became available, and at each time put in the rows available by    *)
(* then before the tick runs.  Meanwhile the recorder goes on recording.   *)
(*                                                                         *)
(* The experiment's forecasts fall in one bucket, whose YES token the      *)
(* books are for; a position counts the orders that filled it.             *)
(***************************************************************************)
EXTENDS Recorder, FiniteSets

CONSTANTS
  Day,         \* the times of the replayed day
  TickSources  \* what a replay may take its times from: sets of Sources

Sources == {"scheduler", "data", "books"}

Kinds == {"backtest", "experiment"}

ASSUME ReplayAssumption ==
  /\ Day \subseteq Times
  /\ TickSources \subseteq SUBSET Sources

VARIABLES
  stage,   \* what the replay does next
  kind,    \* which of the two replays it is
  db,      \* the scratch database
  loaded,  \* the recorded rows in memory, in the order of their availability
  index,   \* how many of them are in the scratch database
  ticks,   \* the times to tick at
  tick,    \* the time of the tick
  before,  \* how many decisions there were before the tick
  todo,    \* the events the paper tick has still to decide
  heard    \* history: the recorded decisions the times were listed from

replayVars == <<stage, kind, db, loaded, index, ticks, tick, before, todo, heard>>

vars == <<recorderVars, replayVars>>

\* The stages of a replay, in the order it goes through them; the last ones
\* are within a tick.
Setup == {"idle", "copied", "forecasts", "samples", "readings", "books"}
InTick == {"paper", "cross", "signal", "execute", "order"}
Stages == Setup \cup InTick \cup {"next", "done"}

\* The rows of each table, by id; the paper decisions; the experiment's
\* decisions and orders, by forecast; its position.
Database == [rows : [Tables -> SUBSET Nat], made : Seq(Decision),
             tried : Seq([forecast : Nat, action : {"BUY", "SKIP"}, at : Times]),
             orders : Seq([forecast : Nat, status : {"filled", "rejected"}, at : Times]),
             position : Nat]

Empty == [rows |-> [t \in Tables |-> {}], made |-> <<>>, tried |-> <<>>, orders |-> <<>>,
          position |-> 0]

Available == [id : Nat, at : Times]

-----------------------------------------------------------------------------
(* Setting up.                                                             *)

CopyOfSource == [Empty EXCEPT !.rows = SourceIds, !.made = decided]

\* Mutated: the decisions of the source stay.
ResetRows(d) == [d EXCEPT !.rows = Empty.rows]

Reset(d) == [d EXCEPT !.rows = Empty.rows, !.made = <<>>, !.tried = <<>>,
                      !.orders = <<>>, !.position = 0]

Copy ==
  /\ stage = "idle"
  /\ stage' = "copied"
  /\ kind' \in Kinds
  /\ db' = Reset(CopyOfSource)
  /\ UNCHANGED <<recorderVars, loaded, index, ticks, tick, before, todo, heard>>

StampsOf(t) == {source[t][i].at : i \in DOMAIN source[t]}

IsTickTime(from, at) ==
  \/ "scheduler" \in from /\ \E k \in DOMAIN decided : decided[k].at = at
  \/ "data" \in from /\ \E t \in {"forecasts", "samples", "readings"} : at \in StampsOf(t)
  \/ "books" \in from /\ at \in StampsOf("books")

\* Mutated: other days count as well.
TickTimesAnyDay(from) == {at \in Times : IsTickTime(from, at)}

TickTimes(from) == {at \in Day : IsTickTime(from, at)}

ListTicks ==
  /\ stage = "copied"
  /\ stage' = "forecasts"
  /\ \E from \in TickSources :
       /\ ticks' = TickTimes(from)
       /\ heard' = IF "scheduler" \in from THEN Len(decided) ELSE 0
  /\ UNCHANGED <<recorderVars, kind, db, loaded, index, tick, before, todo>>

\* Mutated: the rows come by id.
ByIdOnly(t, i, j) == i < j

\* Rows come by availability, then by id.
ComesFirst(t, i, j) == Newer(t, j, i)

Orderings(t) ==
  {p \in [DOMAIN source[t] -> DOMAIN source[t]] :
     /\ \A k \in DOMAIN source[t] : \E a \in DOMAIN source[t] : p[a] = k
     /\ \A a, b \in DOMAIN source[t] : a < b => ComesFirst(t, p[a], p[b])}

AfterLoad(t) ==
  CASE t = "forecasts" -> "samples" [] t = "samples" -> "readings"
    [] t = "readings" -> "books" [] t = "books" -> "next"

Load(t) ==
  /\ stage = t
  /\ stage' = AfterLoad(t)
  /\ \E p \in Orderings(t) :
       loaded' = [loaded EXCEPT ![t] =
         [i \in DOMAIN source[t] |-> [id |-> p[i], at |-> source[t][p[i]].at]]]
  /\ UNCHANGED <<recorderVars, kind, db, index, ticks, tick, before, todo, heard>>

-----------------------------------------------------------------------------
(* One tick.                                                               *)

\* Mutated: a row that came at the time of the tick waits for the next one.
DueEarlier(row, at) == row.at < at

Due(row, at) == row.at <= at

\* How far table t is read: up to the first row that is not due.
Stops(t, at) ==
  {n \in index[t] .. Len(loaded[t]) :
     /\ \A i \in (index[t] + 1) .. n : Due(loaded[t][i], at)
     /\ n < Len(loaded[t]) => ~Due(loaded[t][n + 1], at)}

Reaches(at) ==
  {[forecasts |-> f, samples |-> s, readings |-> r, books |-> b] :
     f \in Stops("forecasts", at), s \in Stops("samples", at),
     r \in Stops("readings", at), b \in Stops("books", at)}

\* The times still to come, and the first of them.
Ahead == {at \in ticks : at > tick}

NextTick == {at \in Ahead : \A other \in Ahead : at <= other}

\* All four tables are brought up to the time of the tick in one commit.
Ingest ==
  /\ stage = "next"
  /\ \E at \in NextTick : \E reach \in Reaches(at) :
       /\ tick' = at
       /\ index' = reach
       /\ db' = [db EXCEPT !.rows = [t \in Tables |-> @[t] \cup
            {loaded[t][i].id : i \in (index[t] + 1) .. reach[t]}]]
  /\ before' = Len(db.made)
  /\ \/ /\ kind = "backtest"
        /\ stage' = "paper"
        /\ todo' = ForecastEvents(db'.rows, db.made, now)
     \/ /\ kind = "experiment"
        /\ stage' = "signal"
        /\ todo' = {}
  /\ UNCHANGED <<recorderVars, kind, loaded, ticks, heard>>

\* The paper tick runs as it does in the loop, by the wall clock.
Decide ==
  /\ stage \in {"paper", "cross"}
  /\ \E e \in FirstOf(todo) :
       /\ db' = [db EXCEPT !.made = Append(@, [event |-> e, at |-> now])]
       /\ todo' = todo \ {e}
  /\ UNCHANGED <<recorderVars, stage, kind, loaded, index, ticks, tick, before, heard>>

Cross ==
  /\ stage = "paper" /\ todo = {}
  /\ stage' = "cross"
  /\ todo' = ReadingEvents(db.rows, db.made)
  /\ UNCHANGED <<recorderVars, kind, db, loaded, index, ticks, tick, before, heard>>

\* Mutated: every decision of the replay gets the stamp.
IsNewAlways(k) == TRUE

IsNew(k) == k > before

\* What the tick decided is dated back to its time.
Stamp ==
  /\ stage = "cross" /\ todo = {}
  /\ stage' = "next"
  /\ db' = [db EXCEPT !.made =
       [k \in DOMAIN @ |-> IF IsNew(k) THEN [@[k] EXCEPT !.at = tick] ELSE @[k]]]
  /\ UNCHANGED <<recorderVars, kind, loaded, index, ticks, tick, before, todo, heard>>

-----------------------------------------------------------------------------
(* The experiment's tick.                                                  *)

NewestForecast == {i \in db.rows["forecasts"] : \A j \in db.rows["forecasts"] : j <= i}

AskOf(i) == source["books"][i].ask

\* The last book with an ask sets the price; the order goes to the last book.
PricedBook == Latest("books", {i \in db.rows["books"] : AskOf(i) # "none"})

LastBook == Latest("books", db.rows["books"])

ActionAt(ask) == IF ask = "dear" THEN "SKIP" ELSE "BUY"

\* Mutated: the table takes a second decision of an event.
IsTriedNever(f) == FALSE

\* Decisions are unique by run and event.
IsTried(f) == \E k \in DOMAIN db.tried : db.tried[k].forecast = f

\* No forecast or no ask: no signal.
NoSignal ==
  /\ stage = "signal"
  /\ \/ NewestForecast = {} \/ PricedBook = {}
     \/ \E f \in NewestForecast : IsTried(f)
  /\ stage' = "next"
  /\ UNCHANGED <<recorderVars, kind, db, loaded, index, ticks, tick, before, todo, heard>>

Signal ==
  /\ stage = "signal"
  /\ \E f \in NewestForecast, b \in PricedBook :
       /\ ~IsTried(f)
       /\ db' = [db EXCEPT !.tried =
            Append(@, [forecast |-> f, action |-> ActionAt(AskOf(b)), at |-> tick])]
       /\ stage' = IF ActionAt(AskOf(b)) = "BUY" THEN "execute" ELSE "next"
  /\ UNCHANGED <<recorderVars, kind, loaded, index, ticks, tick, before, todo, heard>>

OrderOf(f, status) == [forecast |-> f, status |-> status, at |-> tick]

LastTried == db.tried[Len(db.tried)].forecast

\* A book that does not fill the order, or one that does: then the position
\* is committed before the order.
Execute ==
  /\ stage = "execute"
  /\ \E b \in LastBook :
       \/ /\ AskOf(b) # "cheap"
          /\ db' = [db EXCEPT !.orders = Append(@, OrderOf(LastTried, "rejected"))]
          /\ stage' = "next"
       \/ /\ AskOf(b) = "cheap"
          /\ db' = [db EXCEPT !.position = @ + 1]
          /\ stage' = "order"
  /\ UNCHANGED <<recorderVars, kind, loaded, index, ticks, tick, before, todo, heard>>

RecordOrder ==
  /\ stage = "order"
  /\ stage' = "next"
  /\ db' = [db EXCEPT !.orders = Append(@, OrderOf(LastTried, "filled"))]
  /\ UNCHANGED <<recorderVars, kind, loaded, index, ticks, tick, before, todo, heard>>

-----------------------------------------------------------------------------
\* No time is left: the result is read from the scratch database.
Report ==
  /\ stage = "next" /\ Ahead = {}
  /\ stage' = "done"
  /\ UNCHANGED <<recorderVars, kind, db, loaded, index, ticks, tick, before, todo, heard>>

\* The replay is over, or dies at any step.  Nothing reads the scratch
\* database it leaves: the next replay removes it before it copies.
Leave ==
  /\ stage # "idle"
  /\ stage' = "idle" /\ kind' = "backtest" /\ db' = Empty
  /\ loaded' = [t \in Tables |-> <<>>]
  /\ index' = [t \in Tables |-> 0]
  /\ ticks' = {} /\ tick' = 0 /\ before' = 0 /\ todo' = {} /\ heard' = 0
  /\ UNCHANGED recorderVars

Init ==
  /\ RecorderInit
  /\ stage = "idle" /\ kind = "backtest" /\ db = Empty
  /\ loaded = [t \in Tables |-> <<>>]
  /\ index = [t \in Tables |-> 0]
  /\ ticks = {} /\ tick = 0 /\ before = 0 /\ todo = {} /\ heard = 0

Step ==
  \/ Copy \/ ListTicks
  \/ \E t \in Tables : Load(t)
  \/ Ingest \/ Decide \/ Cross \/ Stamp
  \/ NoSignal \/ Signal \/ Execute \/ RecordOrder
  \/ Report \/ Leave

Next == Step \/ (RecorderNext /\ UNCHANGED replayVars)

Spec == Init /\ [][Next]_vars

-----------------------------------------------------------------------------
(* Properties.                                                             *)

\* State stays in its types; in memory and in the scratch database are rows
\* that the source has.
TypeOK ==
  /\ RecorderTypeOK
  /\ stage \in Stages /\ kind \in Kinds
  /\ db \in Database
  /\ loaded \in [Tables -> Seq(Available)]
  /\ index \in [Tables -> Nat]
  /\ ticks \subseteq Day /\ tick \in ticks \cup {0}
  /\ before \in 0 .. Len(db.made) /\ todo \subseteq Events /\ heard \in 0 .. Len(decided)
  /\ \A t \in Tables :
       /\ index[t] <= Len(loaded[t]) /\ Len(loaded[t]) <= Len(source[t])
       /\ db.rows[t] \subseteq DOMAIN source[t]

\* The loaded rows that were available at a time.
Known(t, at) == {loaded[t][i].id : i \in {j \in DOMAIN loaded[t] : loaded[t][j].at <= at}}

\* A replayed tick sees the loaded rows that were available at its time: none
\* that came later, and none of those held up by one that came later
\* (backtest.py _load_rows, _ingest_until).
AsOf ==
  stage \in InTick => \A t \in Tables : db.rows[t] = Known(t, tick)

\* A cross of readings that the live tick decided, and whose stamp the times
\* were listed from, is decided by the replay at that time at the latest:
\* the live tick saw nothing that was not available at its stamp, and rows
\* it did not see do not come between (backtest.py _tick_times).
RepeatsLive ==
  stage = "done" /\ kind = "backtest" =>
    \A k \in 1 .. heard :
      decided[k].event[1] = "reading" /\ decided[k].at \in Day =>
        \E n \in DOMAIN db.made :
          db.made[n].event = decided[k].event /\ db.made[n].at <= decided[k].at

\* Whichever of the times the event is known at.
FirstTime(times) == {at \in times : \A other \in times : at <= other}

CrossTimes(p) == {at \in ticks : p \in Neighbours(Known("readings", at))}

SampleTimes(s) == {at \in ticks : s \in Latest("samples", Known("samples", at))}

StaleByNow(s) == now - source["samples"][s].at >= FreshAge

\* The report of a backtest has every cross that the loaded readings show at
\* one of the times, once, at the first of them, and nothing of the source's
\* own decisions; an entry on a forecast likewise, unless the sample is old
\* by the wall clock: then the entry is missing (backtest.py
\* _reset_replay_tables, _stamp_new_paper_rows; runner.py
\* _ocf_forecast_stale_reason).
BacktestIsReference ==
  stage = "done" /\ kind = "backtest" =>
    /\ \A n, o \in DOMAIN db.made : n # o => db.made[n].event # db.made[o].event
    /\ \A n \in DOMAIN db.made :
         \/ db.made[n].event[1] = "reading" /\ db.made[n].at \in FirstTime(CrossTimes(db.made[n].event[2]))
         \/ db.made[n].event[1] = "forecast" /\ db.made[n].at \in FirstTime(SampleTimes(db.made[n].event[2]))
    /\ \A at \in ticks :
         /\ \A p \in Neighbours(Known("readings", at)) : <<"reading", p>> \in Processed(db.made)
         /\ \A s \in Latest("samples", Known("samples", at)) :
              <<"forecast", s>> \in Processed(db.made) \/ StaleByNow(s)

\* What the experiment reads at a time, from the rows in memory.
ForecastAt(at) == {i \in Known("forecasts", at) : \A j \in Known("forecasts", at) : j <= i}

PricedAt(at) == Latest("books", {i \in Known("books", at) : AskOf(i) # "none"})

SignalTimes(f) == {at \in ticks : f \in ForecastAt(at) /\ PricedAt(at) # {}}

OrdersOf(f) == {k \in DOMAIN db.orders : db.orders[k].forecast = f}

FilledOrders == {k \in DOMAIN db.orders : db.orders[k].status = "filled"}

\* The report of an experiment has one decision for each forecast that was
\* the newest when an ask was known, made at the first such time, and for
\* each decision to buy one order, filled if the book of that time fills it;
\* the position adds up the filled orders, whatever a replay that died
\* before had left (experimental_scheduler.py run_experiment_tick).
ExperimentIsReference ==
  stage = "done" /\ kind = "experiment" =>
    /\ \A f \in Known("forecasts", MaxTime) :
         LET tries == {k \in DOMAIN db.tried : db.tried[k].forecast = f}
         IN  {db.tried[k].at : k \in tries} = FirstTime(SignalTimes(f))
    /\ \A k \in DOMAIN db.tried :
         LET d == db.tried[k]
             asks == {AskOf(b) : b \in PricedAt(d.at)}
             books == {AskOf(b) : b \in Latest("books", Known("books", d.at))}
         IN  /\ d.action = "BUY" <=> "dear" \notin asks
             /\ d.action = "SKIP" => OrdersOf(d.forecast) = {}
             /\ d.action = "BUY" => \E o \in OrdersOf(d.forecast) :
                  /\ OrdersOf(d.forecast) = {o} /\ db.orders[o].at = d.at
                  /\ db.orders[o].status = IF books = {"cheap"} THEN "filled" ELSE "rejected"
    /\ \A k \in DOMAIN db.orders : \E j \in DOMAIN db.tried : db.tried[j].forecast = db.orders[k].forecast
    /\ db.position = Cardinality(FilledOrders)
=============================================================================
