------------------------------ MODULE Recorder ------------------------------
(***************************************************************************)
(* The four tables a replay reads (storage.py), as the scheduled loop and  *)
(* the poller's thread fill them (cli.py), and the decisions the loop's    *)
(* trading tick makes on them (runner.py).                                 *)
(*                                                                         *)
(* A fetch first commits the raw payload with the time it came, then the   *)
(* rows parsed from it; a row's availability is the time of its payload,   *)
(* so a row may be committed after one that is available later.  Samples   *)
(* and order books carry a time of their own.  Every reading goes beyond   *)
(* the one before it: others make no event.                                *)
(***************************************************************************)
EXTENDS Naturals, Sequences

CONSTANTS
  MaxTime,    \* the clock's last time
  FreshAge,   \* age at which a forecast sample is stale (90 minutes)
  Books,      \* the order books that can be published
  Bounds      \* bounds on the rows of the tables, one of which holds

Tables == {"forecasts", "samples", "readings", "books"}

Writers == {"loop", "poller"}

Times == 1 .. MaxTime

\* What the asks offer: nothing, too dear, cheap but too little, or enough.
Asks == {"none", "dear", "thin", "cheap"}

ASSUME RecorderAssumption ==
  /\ MaxTime \in Nat \ {0} /\ FreshAge \in Nat
  /\ Books \subseteq Asks
  /\ Bounds \subseteq [Tables -> Nat]

VARIABLES
  now,      \* the wall clock
  source,   \* the tables, in id order
  writer,   \* each thread's progress through a fetch or a tick
  decided   \* paper_decisions, in id order

recorderVars == <<now, source, writer, decided>>

Row == [at : Times, ask : Asks]

\* Two readings that follow each other, or one forecast sample.
Events == ({"reading"} \X (Nat \X Nat)) \cup ({"forecast"} \X Nat)

Decision == [event : Events, at : Times]

-----------------------------------------------------------------------------
(* What a tick reads from a database that holds the rows `seen' of each    *)
(* table, and the events in it that the decisions `done' do not have.      *)

Newer(t, i, j) ==
  \/ source[t][j].at < source[t][i].at
  \/ source[t][j].at = source[t][i].at /\ j < i

\* The latest row by time, then by id, as a set of at most one.
Latest(t, ids) == {i \in ids : \A j \in ids \ {i} : Newer(t, i, j)}

Neighbours(ids) ==
  {p \in ids \X ids : p[1] < p[2] /\ \A k \in ids : ~(p[1] < k /\ k < p[2])}

Processed(done) == {done[k].event : k \in DOMAIN done}

\* An entry on the latest forecast, unless the sample is stale.
ForecastEvents(seen, done, clock) ==
  {<<"forecast", i>> : i \in
     {j \in Latest("samples", seen["samples"]) : clock - source["samples"][j].at < FreshAge}}
  \ Processed(done)

ReadingEvents(seen, done) ==
  {<<"reading", p>> : p \in Neighbours(seen["readings"])} \ Processed(done)

\* Transitions are taken in the order of their ids.
Before(e, f) == e[1] = "reading" /\ f[1] = "reading" /\ e[2][2] < f[2][2]

FirstOf(events) == {e \in events : \A f \in events : ~Before(f, e)}

-----------------------------------------------------------------------------
Idle == [pc |-> "idle", stamp |-> 0, todo |-> {}]

SourceIds == [t \in Tables |-> DOMAIN source[t]]

HasRoom(t) ==
  \E bound \in Bounds :
    /\ Len(source[t]) < bound[t]
    /\ \A u \in Tables : Len(source[u]) <= bound[u]

Stored(t, at, ask) == [source EXCEPT ![t] = Append(@, [at |-> at, ask |-> ask])]

Clock ==
  /\ now < MaxTime
  /\ now' = now + 1
  /\ UNCHANGED <<source, writer, decided>>

\* The payload of a reading, or of a forecast, which only the loop fetches.
StoreRaw(w, t) ==
  /\ writer[w].pc = "idle" /\ HasRoom(t)
  /\ t = "readings" \/ (t = "forecasts" /\ w = "loop")
  /\ writer' = [writer EXCEPT ![w] = [Idle EXCEPT !.pc = t, !.stamp = now]]
  /\ UNCHANGED <<now, source, decided>>

\* The payload does not parse, the request for the next one fails, the
\* database is locked, or the process dies.
Fail(w) ==
  /\ writer[w].pc # "idle"
  /\ writer' = [writer EXCEPT ![w] = Idle]
  /\ UNCHANGED <<now, source, decided>>

StoreReading(w) ==
  /\ writer[w].pc = "readings" /\ HasRoom("readings")
  /\ source' = Stored("readings", writer[w].stamp, "none")
  /\ writer' = [writer EXCEPT ![w] = Idle]
  /\ UNCHANGED <<now, decided>>

StoreForecasts ==
  /\ writer["loop"].pc = "forecasts" /\ HasRoom("forecasts")
  /\ source' = Stored("forecasts", writer["loop"].stamp, "none")
  /\ writer' = [writer EXCEPT !["loop"] = [Idle EXCEPT !.pc = "samples"]]
  /\ UNCHANGED <<now, decided>>

StoreSamples ==
  /\ writer["loop"].pc = "samples" /\ HasRoom("samples")
  /\ source' = Stored("samples", now, "none")
  /\ writer' = [writer EXCEPT !["loop"] = Idle]
  /\ UNCHANGED <<now, decided>>

StoreBook ==
  /\ writer["loop"].pc = "idle" /\ HasRoom("books")
  /\ \E ask \in Books : source' = Stored("books", now, ask)
  /\ UNCHANGED <<now, writer, decided>>

-----------------------------------------------------------------------------
(* The trading tick of the loop: the forecast's entry, then the readings.  *)

TickForecast ==
  /\ writer["loop"].pc = "idle"
  /\ writer' = [writer EXCEPT !["loop"] =
       [Idle EXCEPT !.pc = "tick", !.todo = ForecastEvents(SourceIds, decided, now)]]
  /\ UNCHANGED <<now, source, decided>>

TickReadings ==
  /\ writer["loop"].pc = "tick" /\ writer["loop"].todo = {}
  /\ writer' = [writer EXCEPT !["loop"] =
       [Idle EXCEPT !.pc = "cross", !.todo = ReadingEvents(SourceIds, decided)]]
  /\ UNCHANGED <<now, source, decided>>

\* The event's decision carries the time it is made.
TickDecide ==
  /\ writer["loop"].pc \in {"tick", "cross"}
  /\ \E e \in FirstOf(writer["loop"].todo) :
       /\ decided' = Append(decided, [event |-> e, at |-> now])
       /\ writer' = [writer EXCEPT !["loop"].todo = @ \ {e}]
  /\ UNCHANGED <<now, source>>

TickEnd ==
  /\ writer["loop"].pc = "cross" /\ writer["loop"].todo = {}
  /\ writer' = [writer EXCEPT !["loop"] = Idle]
  /\ UNCHANGED <<now, source, decided>>

-----------------------------------------------------------------------------
RecorderInit ==
  /\ now = 1
  /\ source = [t \in Tables |-> <<>>]
  /\ writer = [w \in Writers |-> Idle]
  /\ decided = <<>>

RecorderNext ==
  \/ Clock
  \/ \E w \in Writers, t \in Tables : StoreRaw(w, t)
  \/ \E w \in Writers : Fail(w) \/ StoreReading(w)
  \/ StoreForecasts \/ StoreSamples \/ StoreBook
  \/ TickForecast \/ TickReadings \/ TickDecide \/ TickEnd

RecorderTypeOK ==
  /\ now \in Times
  /\ source \in [Tables -> Seq(Row)]
  /\ writer \in [Writers -> [pc : {"idle", "readings", "forecasts", "samples", "tick", "cross"},
                             stamp : Times \cup {0}, todo : SUBSET Events]]
  /\ decided \in Seq(Decision)
=============================================================================
