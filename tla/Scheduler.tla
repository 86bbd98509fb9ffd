------------------------------ MODULE Scheduler ------------------------------
(***************************************************************************)
(* run_scheduled_paper_loop of scheduler.py as the commands paper-scheduler*)
(* and live-scheduler start it.  A pass of the loop reads the clock, makes *)
(* the fetches that are due, runs one trading tick if none of them failed, *)
(* and sleeps.  The data lands in a database this module does not show     *)
(* (RunnerTick reads it): a payload is a version number, and `stored' is   *)
(* what the database holds.                                                *)
(*                                                                         *)
(* A pass, fetches, tick and sleep included, takes at most PassLimit units *)
(* of time.  A process keeps nothing but the database over a restart, so a *)
(* restart is a behaviour that begins at one of Starts.                    *)
(***************************************************************************)
EXTENDS PollPlans, Functions

CONSTANTS
  Starts, Horizon,   \* when the process may start, and the last instant
  BookEvery,         \* orderbook_interval_seconds
  DiscoverEvery,     \* market_discovery_interval_seconds
  PassLimit,         \* longest pass of the loop
  Versions,          \* source -> how many payload versions it publishes
  None

Sources == {"since_midnight", "bulletin"}

ASSUME LoopAssumption ==
  /\ Horizon \in Nat /\ Starts \subseteq 0..Horizon
  /\ {BookEvery, DiscoverEvery, PassLimit} \subseteq Nat \ {0}
  /\ Versions \in [Sources -> Nat \ {0}] /\ None \notin Int

VARIABLES
  clock,       \* now_fn()
  pc,          \* where the loop is
  now,         \* the clock as this pass read it
  todo,        \* fetches this pass has still to make
  plans,       \* source -> slot of the window it is fetched for in this pass
  failed,      \* data_failed
  completed,   \* state.completed_windows
  lastPoll,    \* state.last_source_poll_at
  seen,        \* state.last_hashes
  lastBooks,   \* state.last_orderbook_fetch_at
  lastMarket,  \* state.last_market_discovery_at
  actual,      \* state.last_current_temperature_fetch_at is set
  warm,        \* state.trading_warmed_up
  traded,      \* this pass ran the trading tick
  stop,        \* scheduler_stop
  learned,     \* minutes of the day learned for ocf_station, in the database
  version,     \* version each source publishes
  stored,      \* version the database holds
  publishedAt, \* history: when that version was published
  missed,      \* history: sources whose current version met a failed fetch
  started,     \* history: when the process started
  late         \* history: trading ticks run since the stop signal

loop == <<pc, now, todo, plans, failed, traded>>
state == <<completed, lastPoll, seen, lastBooks, lastMarket, actual, warm>>
feeds == <<version, publishedAt>>
vars == <<clock, loop, state, stop, learned, feeds, stored, missed, started, late>>

Init ==
  /\ clock \in Starts /\ started = clock
  /\ pc = "top" /\ now = clock /\ todo = {} /\ plans = [s \in {} |-> 0]
  /\ failed = FALSE /\ traded = FALSE
  /\ completed = {} /\ lastPoll = [k \in {} |-> 0] /\ seen = [s \in Sources |-> None]
  /\ lastBooks = None /\ lastMarket = None /\ actual = FALSE /\ warm = FALSE
  /\ stop = FALSE /\ late = 0
  /\ learned = {}
  /\ version = [s \in Sources |-> 1] /\ publishedAt = [s \in Sources |-> clock]
  /\ stored = [s \in Sources |-> 0] /\ missed = {}

-----------------------------------------------------------------------------
(* What a pass fetches. *)

\* Mutant: the loop asks for the actuals too.
DuePlansWithActuals(t) ==
  {p \in SincePlans \cup ActualPlans({}) : IsDue(p, t, lastPoll, completed)}

DuePlans(t) ==
  {p \in SincePlans \cup ActiveBulletin(t, completed, BulletinPlans(learned)) :
     IsDue(p, t, lastPoll, completed)}

Elapsed(last, t, interval) == last = None \/ t - last >= interval

\* The fetches of a pass that begins at t.  The poller's thread fetches the
\* actuals; the loop does so once, to warm up.
Fetches(t, sources) ==
  sources
  \cup {f \in {"aws_actual"} : ~warm /\ ~actual}
  \cup {f \in {"markets"} : Elapsed(lastMarket, t, DiscoverEvery)}
  \cup {f \in {"books"} : Elapsed(lastBooks, t, BookEvery)}

\* The order of the code.
Rank == [since_midnight |-> 1, bulletin |-> 2, aws_actual |-> 3, markets |-> 4, books |-> 5]
Upcoming(f) == pc = "fetch" /\ f \in todo /\ \A g \in todo : Rank[f] <= Rank[g]

\* Mutant: the loop is bounded by its tick count only.
RunningTicks == TRUE

\* The condition of the loop.
Running == ~stop

\* The code keeps every window and time it noted, and reads them only to ask
\* whether the window is completed and whether an interval has elapsed.  The
\* model drops a window that is over and a time that is an interval ago.
Forget ==
  LET ahead == NotOver(SincePlans \cup BulletinPlans(learned), clock)
      Recent(last, interval) == IF Elapsed(last, clock, interval) THEN None ELSE last
  IN  /\ completed' = completed \cap ahead
      /\ lastPoll' = Restrict(lastPoll, {k \in DOMAIN lastPoll \cap ahead : clock - lastPoll[k] < Cadence})
      /\ lastBooks' = Recent(lastBooks, BookEvery)
      /\ lastMarket' = Recent(lastMarket, DiscoverEvery)

\* The clock and the learned times are read once, and every decision about
\* what to fetch is made from them.  Of several windows due for a source the
\* pass keeps the last.
Begin ==
  /\ pc = "top" /\ Running
  /\ LET due == DuePlans(clock)
         sources == {p.source : p \in due}
     IN  /\ plans' = [s \in sources |-> Max({p.at : p \in {q \in due : q.source = s}})]
         /\ todo' = Fetches(clock, sources)
  /\ pc' = "fetch" /\ now' = clock /\ failed' = FALSE /\ traded' = FALSE
  /\ Forget
  /\ UNCHANGED <<clock, seen, actual, warm, stop, learned, feeds, stored, missed, started, late>>

-----------------------------------------------------------------------------
(* The fetches. *)

\* mark_source_fetch: the first payload of a process counts as a change, and
\* a change completes the window.
MarkFetch(source) ==
  LET key == <<source, plans[source]>>
  IN  /\ seen' = [seen EXCEPT ![source] = version[source]]
      /\ lastPoll' = [k \in DOMAIN lastPoll \cup {key} |-> IF k = key THEN now ELSE lastPoll[k]]
      /\ completed' = IF seen[source] = version[source] THEN completed ELSE completed \cup {key}

\* A source is fetched and stored; a forecast teaches its publication minute.
FetchSource(source) ==
  /\ Upcoming(source)
  /\ todo' = todo \ {source}
  /\ MarkFetch(source)
  /\ stored' = [stored EXCEPT ![source] = version[source]]
  /\ learned' = IF source = "bulletin" THEN learned \cup {publishedAt[source] \div Minute} ELSE learned
  /\ UNCHANGED <<clock, pc, now, plans, failed, traded, lastBooks, lastMarket, actual, warm,
                 stop, feeds, missed, started, late>>

\* The startup actual, market discovery and the order books leave their time.
FetchOther(f) ==
  /\ Upcoming(f)
  /\ todo' = todo \ {f}
  /\ actual' = (actual \/ f = "aws_actual")
  /\ lastMarket' = IF f = "markets" THEN now ELSE lastMarket
  /\ lastBooks' = IF f = "books" THEN now ELSE lastBooks
  /\ UNCHANGED <<clock, pc, now, plans, failed, traded, completed, lastPoll, seen, warm,
                 stop, learned, feeds, stored, missed, started, late>>

\* Mutant: order books and discovery that fail are only warned about.
FetchFailsWarning(f) ==
  /\ Upcoming(f)
  /\ todo' = todo \ {f}
  /\ failed' = (failed \/ f \in Sources)
  /\ missed' = missed \cup ({f} \cap Sources)
  /\ UNCHANGED <<clock, pc, now, plans, traded, state, stop, learned, feeds, stored,
                 started, late>>

\* A fetch that raises leaves no mark: it is due again in the next pass, if
\* its window is still open then.
FetchFails(f) ==
  /\ Upcoming(f)
  /\ todo' = todo \ {f}
  /\ failed' = TRUE
  /\ missed' = missed \cup ({f} \cap Sources)
  /\ UNCHANGED <<clock, pc, now, plans, traded, state, stop, learned, feeds, stored,
                 started, late>>

-----------------------------------------------------------------------------
(* The rest of a pass. *)

\* No trading after a failed fetch, nor in the pass that warms up.
Decide ==
  /\ pc = "fetch" /\ todo = {}
  /\ pc' = "sleep"
  /\ traded' = (~failed /\ warm)
  /\ warm' = (warm \/ ~failed)
  /\ late' = IF traded' /\ stop THEN late + 1 ELSE late
  /\ UNCHANGED <<clock, now, todo, plans, failed, completed, lastPoll, seen, lastBooks,
                 lastMarket, actual, stop, learned, feeds, stored, missed, started>>

GoTo(label) ==
  /\ pc' = label
  /\ UNCHANGED <<clock, now, todo, plans, failed, traded, state, learned, feeds, stored,
                 missed, started, late>>

\* The sleep ends, or the stop event cuts it short.
Wake == pc = "sleep" /\ GoTo("top") /\ UNCHANGED stop

\* The stop event is looked at only here.
Leave == pc = "top" /\ ~Running /\ GoTo("done") /\ UNCHANGED stop

\* SIGINT or SIGTERM: the first sets the event, the next one interrupts
\* whatever the loop is doing.
Signal == pc # "done" /\ GoTo(IF stop THEN "done" ELSE pc) /\ stop' = TRUE

\* An exception of the tick or of the learned times ends the loop.
Raise ==
  /\ \/ pc = "top" /\ Running
     \/ pc = "fetch" /\ todo = {} /\ ~failed /\ warm
  /\ GoTo("done") /\ UNCHANGED stop

Loop ==
  \/ Begin \/ Decide \/ Wake \/ Leave
  \/ \E s \in Sources : FetchSource(s)
  \/ \E f \in {"aws_actual", "markets", "books"} : FetchOther(f)
  \/ \E f \in DOMAIN Rank : FetchFails(f)

-----------------------------------------------------------------------------
(* Environment. *)

Publish(source) ==
  /\ version[source] < Versions[source]
  /\ version' = [version EXCEPT ![source] = @ + 1]
  /\ publishedAt' = [publishedAt EXCEPT ![source] = clock]
  /\ missed' = missed \ {source}
  /\ UNCHANGED <<clock, loop, state, stop, learned, stored, started, late>>

\* Time passes, but no pass exceeds its limit.
Pass ==
  /\ clock < Horizon
  /\ pc # "done" /\ clock < now + PassLimit
  /\ clock' = clock + 1
  /\ UNCHANGED <<loop, state, stop, learned, feeds, stored, missed, started, late>>

Next == Loop \/ Signal \/ Raise \/ Pass \/ \E s \in Sources : Publish(s)

Spec == Init /\ [][Next]_vars

-----------------------------------------------------------------------------
(* Properties. *)

\* Every variable holds a value of its kind.
TypeOK ==
  /\ {clock, now, started} \subseteq 0..Horizon
  /\ \A s \in Sources : publishedAt[s] \in 0..Horizon
  /\ pc \in {"top", "fetch", "sleep", "done"}
  /\ todo \subseteq DOMAIN Rank /\ DOMAIN plans \subseteq Sources
  /\ {lastBooks, lastMarket} \subseteq (0..Horizon) \cup {None}
  /\ {failed, warm, traded, stop, actual} \subseteq BOOLEAN
  /\ completed \cup DOMAIN lastPoll \subseteq Sources \X (0..Day)
  /\ \A s \in Sources : /\ version[s] \in 1..Versions[s]
                        /\ stored[s] \in 0..Versions[s]
                        /\ seen[s] \in (1..Versions[s]) \cup {None}
  /\ missed \subseteq Sources /\ late \in Nat

\* The trading tick runs only on data this process refreshed: every source
\* that was due when the pass began was read in it, order books and markets
\* are younger than their interval, and an actual was read at startup.
DecidesOnFreshData ==
  traded =>
    /\ \A s \in DOMAIN plans : /\ <<s, plans[s]>> \in DOMAIN lastPoll
                               /\ lastPoll[<<s, plans[s]>>] = now
    /\ lastBooks # None /\ now - lastBooks < BookEvery
    /\ lastMarket # None /\ now - lastMarket < DiscoverEvery
    /\ actual

\* When the next since-midnight window opens after t.
NextOpening(t) == Min({p.from : p \in {q \in SincePlans : q.from > t}} \cup {Day})

\* A window closes at the first change seen in it, and windows overlap at the
\* end of the hour; yet a since-midnight reading published while the process
\* runs waits at most for the next window to open, if no fetch of it failed.
ReadingsArrive ==
  LET s == "since_midnight" IN
    /\ pc # "done" /\ s \notin missed
    /\ version[s] > 1
    /\ clock >= NextOpening(publishedAt[s]) + 2 * PassLimit
    => stored[s] = version[s]

\* A stop signal lets at most one more trading tick run.
OneTickAfterStop == late <= 1
=============================================================================
