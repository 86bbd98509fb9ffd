---------------------------- MODULE RunnerTick ----------------------------
(***************************************************************************)
(* The trading tick of runner.py over one day's market of one kind, with   *)
(* the tables it reads and writes (storage.py) and the processes around    *)
(* it: the fetchers that append readings and forecast samples at any       *)
(* moment, other bots on the same database, and crashes.                   *)
(*                                                                         *)
(* A tick goes through the forecast-value entry, the forecast-change exits *)
(* and entries, the actual-cross entries and the exits of open positions.  *)
(* Every step below is one commit of that sequence or one read on which a  *)
(* later commit depends.  Order books, fills and the order life cycle are  *)
(* left to LiveExecution and PaperTrading: here a buy or a sell fills some *)
(* number of units or none.                                                *)
(***************************************************************************)
EXTENDS Markets, Sequences, FiniteSets

CONSTANTS
  Kind,          \* "highest" or "lowest"
  Outcomes,      \* the market's predicates, in the order the rows are listed
  Temps,         \* the temperatures that can be read
  LastHour,      \* the hours of the day are 1 .. LastHour
  LateHour,      \* the first late hour (21:00 in the code)
  FreshHours,    \* age at which a forecast sample is stale (90 minutes)
  Paths,         \* the hourly forecasts that can be published
  Stations,      \* where readings come from; "HKO" is the AWS feed
  Favorites,     \* <<favourite, ask>> pairs the books can show
  Budget,        \* units a position may hold
  Bots,          \* processes that run ticks
  MaxReadings,   \* bound on the readings stored
  MaxSamples,    \* bound on the forecast samples stored
  MaxCrashes,    \* bound on crashes
  LateReadings   \* whether an older payload may be served again

ASSUME RunnerAssumption ==
  /\ Kind \in Kinds
  /\ Outcomes \in Seq(Predicate)
  /\ Temps \subseteq Int
  /\ LastHour \in Nat \ {0} /\ LateHour \in Nat /\ FreshHours \in Nat /\ Budget \in Nat \ {0}
  /\ Paths \subseteq [1 .. LastHour -> Temps]
  /\ Favorites \subseteq (DOMAIN Outcomes) \X Nat
  /\ MaxReadings \in Nat /\ MaxSamples \in Nat /\ MaxCrashes \in Nat
  /\ LateReadings \in BOOLEAN

Hours == 1 .. LastHour

Tokens == (DOMAIN Outcomes) \X Sides

VARIABLES
  clock,      \* the hour
  readings,   \* hko_current_observations, in id order
  samples,    \* ocf_forecast_samples, in id order
  processed,  \* event keys of the 'EVENT processed' decisions
  held,       \* units of each token the account holds
  bot,        \* each bot's progress through its tick
  crashes,    \* crashes so far
  bought,     \* history: the buys filled, by event
  again       \* history: how a buy repeated an earlier one

vars == <<clock, readings, samples, processed, held, bot, crashes, bought, again>>

Pred(tk) == Outcomes[tk[1]]

-----------------------------------------------------------------------------
(* Queries of storage.py.                                                  *)

\* Readings with the same time, value and station are one group, which has
\* the highest id among them.
IsGroup(i) == \A j \in DOMAIN readings : j > i => readings[j] # readings[i]

GroupIds == {i \in DOMAIN readings : IsGroup(i)}

Follows(i, k) == i < k /\ \A j \in GroupIds : ~(i < j /\ j < k)

\* Mutated: only the last two groups are compared.
LastTransition ==
  {t \in GroupIds \X GroupIds :
     /\ Follows(t[1], t[2]) /\ t[2] = Len(readings)
     /\ Beyond(Kind, readings[t[2]].value, readings[t[1]].value)}

\* Pairs of neighbouring groups between which the extreme moved.
ObservedTransitions ==
  {t \in GroupIds \X GroupIds :
     /\ Follows(t[1], t[2])
     /\ Beyond(Kind, readings[t[2]].value, readings[t[1]].value)}

\* The last reading stored, whatever its station or time of observation.
LatestObserved == readings[Len(readings)].value

\* The feed that the spec of the system calls the source of truth.
LatestAws ==
  LET aws == {i \in DOMAIN readings : readings[i].station = "HKO"}
  IN  {i \in aws : \A k \in aws : k <= i}

IsAwsActual(t) == readings[t[1]].station = "HKO" /\ readings[t[2]].station = "HKO"

-----------------------------------------------------------------------------
(* Forecast queries of runner.py.  A value that may be missing is a set of *)
(* at most one value.                                                      *)

ForecastStale ==
  samples # <<>> /\ clock - samples[Len(samples)].fetched >= FreshHours

Effective(s) ==
  IF readings = <<>> THEN Peak(Kind, s.path)
  ELSE Furthest(Kind, LatestObserved, Peak(Kind, s.path))

\* Positions of the newest sample of each update time, newest first.
IsUpdate(i) == \A j \in DOMAIN samples : j > i => samples[j].upd # samples[i].upd

UpdateIds == {i \in DOMAIN samples : IsUpdate(i)}

EffectiveForecast == IF samples = <<>> THEN {} ELSE {Effective(samples[Len(samples)])}

HourlyForecast == samples[Len(samples)].path

\* The forecast that was on file when a reading was taken.
HourlyAsOf(hour) ==
  LET before == {i \in DOMAIN samples : samples[i].fetched <= hour}
  IN  {samples[i].path : i \in {j \in before : \A k \in before : k <= j}}

PeakHourSureBet(r) ==
  /\ samples # <<>>
  /\ \E path \in HourlyAsOf(r.at) :
       /\ Beyond(Kind, r.value, Peak(Kind, path))
       /\ path[r.at] = Peak(Kind, path)
  /\ \E h \in Hours : h > r.at
  /\ \A h \in Hours : h > r.at => HourlyForecast[h] < r.value

HourlyReason(tk) ==
  /\ samples # <<>> /\ ~ForecastStale
  /\ HourlyForecastInvalidation(Kind, Pred(tk), tk[2], HourlyForecast, LateHour)

\* The first listed bucket that holds the forecast.
ForecastMatching(f) ==
  {i \in DOMAIN Outcomes :
     /\ Matches(Outcomes[i], f)
     /\ \A j \in DOMAIN Outcomes : j < i => ~Matches(Outcomes[j], f)}

-----------------------------------------------------------------------------
(* The tick.                                                               *)

Idle == [pc |-> "idle", seen |-> {}, key |-> {}, event |-> {}, move |-> {},
         todo |-> {}, left |-> {}, check |-> {}, buy |-> {}, room |-> 0,
         back |-> "idle"]

At(b, pc) == bot[b].pc = pc

\* The locals of bot b when it goes on to pc with nothing in hand.
Cleared(b, pc) == [Idle EXCEPT !.pc = pc, !.seen = bot[b].seen]

GoTo(b, pc) == bot' = [bot EXCEPT ![b] = Cleared(b, pc)]

HeldTokens == {tk \in Tokens : held[tk] > 0}

StartTick(b) ==
  /\ At(b, "idle")
  /\ bot' = [bot EXCEPT ![b] = [Idle EXCEPT !.pc = "value",
       !.seen = LatestAws]]
  /\ UNCHANGED <<clock, readings, samples, processed, held, crashes, bought, again>>

\* The favourite leaves the forecast's bucket room to become the favourite.
FavoriteBehind(fav, i) ==
  /\ Outcomes[fav].type # "OTHER" /\ Outcomes[i].type # "OTHER"
  /\ Beyond(Kind, Outcomes[i].value, Outcomes[fav].value)

\* A cheap bucket that the forecast favours, and the event it makes.
ValueOffers ==
  {[type |-> "forecast_value", value |-> f, bucket |-> i, favorite |-> q[1], ask |-> q[2]] :
     f \in EffectiveForecast, i \in DOMAIN Outcomes, q \in Favorites}

IsValueOffer(o) ==
  /\ ~ForecastStale
  /\ o.bucket \in ForecastMatching(o.value)
  /\ ~ForecastValueGuard(Kind, Outcomes[o.bucket], "YES", HourlyForecast, LateHour)
  /\ FavoriteBehind(o.favorite, o.bucket)
  /\ o \notin processed

\* No offer, a price above the cheap threshold, a guard: nothing to do.
ValueSkip(b) ==
  /\ At(b, "value")
  /\ GoTo(b, "change")
  /\ UNCHANGED <<clock, readings, samples, processed, held, crashes, bought, again>>

\* The position's budget is read before the entry's other guards.
ValueOffer(b) ==
  /\ At(b, "value")
  /\ \E o \in ValueOffers :
       /\ IsValueOffer(o)
       /\ bot' = [bot EXCEPT ![b] = [Cleared(b, "value_mark") EXCEPT
                 !.key = {o}, !.event = {o}, !.back = "change", !.buy = {<<o.bucket, "YES">>}]]
  /\ UNCHANGED <<clock, readings, samples, processed, held, crashes, bought, again>>

\* Mutated: the budget forgets what is already held.
RemainingBudgetAll(tk) == Budget

RemainingBudget(tk) == IF held[tk] > Budget THEN 0 ELSE Budget - held[tk]

ValueMark(b) ==
  /\ At(b, "value_mark")
  /\ processed' = processed \cup bot[b].key
  /\ \E tk \in bot[b].buy : 
       bot' = [bot EXCEPT ![b].pc = "guard", ![b].room = RemainingBudget(tk)]
  /\ UNCHANGED <<clock, readings, samples, held, crashes, bought, again>>

-----------------------------------------------------------------------------
(* Forecast changes.                                                       *)

\* The newest two forecast updates, merged with the reading of this moment.
ForecastChanges ==
  {[type |-> "forecast_change", oldUpd |-> samples[p[1]].upd, old |-> Effective(samples[p[1]]),
    newUpd |-> samples[p[2]].upd, new |-> Effective(samples[p[2]])] :
     p \in {q \in UpdateIds \X UpdateIds :
             q[1] < q[2] /\ \A j \in UpdateIds : j <= q[1] \/ j = q[2]}}

IsFreshChange(c) == ~ForecastStale /\ c.old # c.new /\ c \notin processed

ChangeSkip(b) ==
  /\ At(b, "change")
  /\ \A c \in ForecastChanges : ~IsFreshChange(c)
  /\ GoTo(b, "actual")
  /\ UNCHANGED <<clock, readings, samples, processed, held, crashes, bought, again>>

ChangeRead(b) ==
  /\ At(b, "change")
  /\ \E c \in ForecastChanges :
       /\ IsFreshChange(c)
       /\ bot' = [bot EXCEPT ![b] = [Cleared(b, "change_exits") EXCEPT
                 !.key = {c}, !.move = {c}, !.check = HeldTokens,
                 !.event = {[type |-> "forecast_change", oldUpd |-> c.oldUpd, newUpd |-> c.newUpd]}]]
  /\ UNCHANGED <<clock, readings, samples, processed, held, crashes, bought, again>>

\* Mutated: what the bids take is not capped by the position.
SellBudget(tk) ==
  \E n \in 0 .. Budget : held' = [held EXCEPT ![tk] = @ - n]

\* A sell that executes some or none of the position.
Sell(tk) ==
  \E left \in 0 .. held[tk] : held' = [held EXCEPT ![tk] = left]

ForecastExit(b) ==
  /\ At(b, "change_exits")
  /\ \E tk \in bot[b].check, c \in bot[b].move :
       /\ bot' = [bot EXCEPT ![b].check = @ \ {tk}]
       /\ IF \/ HourlyReason(tk)
             \/ PositionInvalidatedByForecast(Pred(tk), tk[2], c.new)
          THEN Sell(tk) ELSE held' = held
  /\ UNCHANGED <<clock, readings, samples, processed, crashes, bought, again>>

\* The buckets whose asks are on file and have not moved with the forecast
\* become candidates, and the event is marked before the first buy.  With
\* no candidate and an ask missing it stays unmarked, for a later tick.
ChangeCandidates(b) ==
  /\ At(b, "change_exits") /\ bot[b].check = {}
  /\ \E c \in bot[b].move, missing \in BOOLEAN,
        chosen \in SUBSET {tk \in Tokens : \E d \in bot[b].move :
                             ForecastMoveCandidate(Pred(tk), tk[2], d.old, d.new)} :
       IF chosen = {}
       THEN /\ GoTo(b, "actual")
            /\ processed' = IF missing THEN processed ELSE processed \cup {c}
       ELSE /\ bot' = [bot EXCEPT ![b].pc = "change_buys", ![b].left = chosen]
            /\ processed' = processed \cup {c}
  /\ UNCHANGED <<clock, readings, samples, held, crashes, bought, again>>

ChangeBuy(b) ==
  /\ At(b, "change_buys")
  /\ \/ \E tk \in bot[b].left :
          bot' = [bot EXCEPT ![b].pc = "guard", ![b].left = @ \ {tk}, ![b].buy = {tk},
                              ![b].room = Budget, ![b].back = "change_buys"]
     \/ bot[b].left = {} /\ GoTo(b, "actual")
  /\ UNCHANGED <<clock, readings, samples, processed, held, crashes, bought, again>>

-----------------------------------------------------------------------------
(* Observed transitions.                                                   *)

Snapshot(t) == [oldId |-> t[1], newId |-> t[2], old |-> readings[t[1]], new |-> readings[t[2]]]

\* AWS transitions, when there are any, take the place of all others.
ActualStart(b) ==
  /\ At(b, "actual")
  /\ LET aws == {t \in ObservedTransitions : IsAwsActual(t)}
         todo == IF aws # {} THEN aws ELSE ObservedTransitions
     IN  bot' = [bot EXCEPT ![b] = [Cleared(b, "transition") EXCEPT
                   !.todo = {Snapshot(t) : t \in todo}]]
  /\ UNCHANGED <<clock, readings, samples, processed, held, crashes, bought, again>>

ActualKey(r, forecast) ==
  [type |-> "actual_cross", forecast |-> forecast, oldId |-> r.oldId, newId |-> r.newId]

ActualEvent(r) ==
  [type |-> "actual_cross", station |-> r.new.station, time |-> r.new.at,
   old |-> r.old.value, new |-> r.new.value]

CrossedTokens(r) ==
  {tk \in Tokens : CrossSide(Kind, Pred(tk), tk[2], r.old.value, r.new.value)}

\* The lowest-temperature handler does nothing without a forecast.
Transition(b) ==
  /\ At(b, "transition")
  /\ \E r \in bot[b].todo :
       /\ \A q \in bot[b].todo : r.newId <= q.newId
       /\ LET key == ActualKey(r, EffectiveForecast)
              rest == bot[b].todo \ {r}
          IN  IF key \in processed \/ (Kind = "lowest" /\ EffectiveForecast = {})
              THEN bot' = [bot EXCEPT ![b].todo = rest]
              ELSE bot' = [bot EXCEPT ![b] = [Cleared(b, "bucket") EXCEPT
                     !.todo = rest, !.key = {key}, !.event = {ActualEvent(r)},
                     !.move = {r}, !.left = CrossedTokens(r)]]
  /\ UNCHANGED <<clock, readings, samples, processed, held, crashes, bought, again>>

TransitionsDone(b) ==
  /\ At(b, "transition") /\ bot[b].todo = {}
  /\ bot' = [bot EXCEPT ![b] = [Cleared(b, "exits") EXCEPT !.check = HeldTokens]]
  /\ UNCHANGED <<clock, readings, samples, processed, held, crashes, bought, again>>

BucketsDone(b) ==
  /\ At(b, "bucket") /\ bot[b].left = {}
  /\ bot' = [bot EXCEPT ![b] = [Cleared(b, "transition") EXCEPT !.todo = bot[b].todo]]
  /\ UNCHANGED <<clock, readings, samples, processed, held, crashes, bought, again>>

\* An entry on YES that the forecast speaks against is decided without a
\* look at the books: the forecast is above the bucket, or the hourly
\* forecast does not confirm an exact one.
CrossRefused(tk, r, forecast) ==
  /\ Kind = "highest"
  /\ \/ \E f \in forecast : CrossGuardedByForecast(Pred(tk), tk[2], f)
     \/ tk[2] = "YES" /\ Pred(tk).type = "EXACT_C" /\ ~PeakHourSureBet(r.new)

BucketRefuse(b) ==
  /\ At(b, "bucket")
  /\ \E tk \in bot[b].left, r \in bot[b].move, k \in bot[b].key :
       /\ CrossRefused(tk, r, k.forecast)
       /\ bot' = [bot EXCEPT ![b].left = @ \ {tk}]
       /\ processed' = processed \cup {k}
  /\ UNCHANGED <<clock, readings, samples, held, crashes, bought, again>>

\* Without a prior and a current ask the event stays open for this bucket.
BucketMissing(b) ==
  /\ At(b, "bucket")
  /\ \E tk \in bot[b].left, r \in bot[b].move, k \in bot[b].key :
       /\ ~CrossRefused(tk, r, k.forecast)
       /\ bot' = [bot EXCEPT ![b].left = @ \ {tk}]
  /\ UNCHANGED <<clock, readings, samples, processed, held, crashes, bought, again>>

\* A new YES bucket whose ask has moved with the reading is not bought.
MoveMatters(tk) ==
  tk[2] = "YES" /\ ~(Kind = "highest" /\ Pred(tk).type = "EXACT_C")

\* Mutated: the event is marked once the tick is past its last bucket.
BucketTradeUnmarked(b) ==
  /\ At(b, "bucket")
  /\ \E tk \in bot[b].left, r \in bot[b].move, k \in bot[b].key :
       /\ ~CrossRefused(tk, r, k.forecast)
       /\ bot' = [bot EXCEPT ![b].left = @ \ {tk}, ![b].pc = "guard", ![b].buy = {tk},
                             ![b].room = Budget, ![b].back = "bucket"]
       /\ processed' = IF bot[b].left = {tk} THEN processed \cup {k} ELSE processed
  /\ UNCHANGED <<clock, readings, samples, held, crashes, bought, again>>

BucketTrade(b) ==
  /\ At(b, "bucket")
  /\ \E tk \in bot[b].left, r \in bot[b].move, k \in bot[b].key :
       /\ ~CrossRefused(tk, r, k.forecast)
       /\ \/ bot' = [bot EXCEPT ![b].left = @ \ {tk}, ![b].pc = "guard", ![b].buy = {tk},
                                ![b].room = Budget, ![b].back = "bucket"]
          \/ MoveMatters(tk) /\ bot' = [bot EXCEPT ![b].left = @ \ {tk}]
       /\ processed' = processed \cup {k}
  /\ UNCHANGED <<clock, readings, samples, held, crashes, bought, again>>

-----------------------------------------------------------------------------
(* A buy.                                                                  *)

\* The hourly forecast speaks against the entry.  Mutated form of the next
\* definition: nothing else does.
EntryRefusedByForecast(b, tk) ==
  \E k \in bot[b].key :
     /\ k.type \in {"forecast_value", "forecast_change"} /\ samples # <<>>
     /\ ForecastValueGuard(Kind, Pred(tk), tk[2], HourlyForecast, LateHour)

\* The reading, the hourly forecast, an open position or a spent budget
\* stops the entry.
EntryRefused(b, tk) ==
  \/ readings # <<>> /\ PositionInvalidated(Kind, Pred(tk), tk[2], LatestObserved)
  \/ EntryRefusedByForecast(b, tk)
  \/ held[tk] > 0 /\ \A k \in bot[b].key : k.type # "forecast_value"
  \/ bot[b].room = 0

BuyGuard(b) ==
  /\ At(b, "guard")
  /\ \E tk \in bot[b].buy :
       bot' = IF EntryRefused(b, tk)
              THEN [bot EXCEPT ![b].pc = bot[b].back, ![b].buy = {}, ![b].room = 0]
              ELSE [bot EXCEPT ![b].pc = "fill"]
  /\ UNCHANGED <<clock, readings, samples, processed, held, crashes, bought, again>>

Repeats(key, event, tk) ==
  {c \in {"key", "event"} :
     \E x \in bought : x.token = tk /\ (IF c = "key" THEN x.key = key ELSE x.event = event)}

BuyFill(b) ==
  /\ At(b, "fill")
  /\ bot' = [bot EXCEPT ![b].pc = bot[b].back, ![b].buy = {}, ![b].room = 0]
  /\ \E tk \in bot[b].buy, k \in bot[b].key, e \in bot[b].event, n \in 1 .. bot[b].room :
       /\ held' = [held EXCEPT ![tk] = @ + n]
       /\ bought' = bought \cup {[key |-> k, event |-> e, token |-> tk]}
       /\ again' = again \cup Repeats(k, e, tk)
  /\ UNCHANGED <<clock, readings, samples, processed, crashes>>

\* No fresh book, a price above the cap, no depth: the buy is missed.
BuyMiss(b) ==
  /\ At(b, "fill")
  /\ bot' = [bot EXCEPT ![b].pc = bot[b].back, ![b].buy = {}, ![b].room = 0]
  /\ UNCHANGED <<clock, readings, samples, processed, held, crashes, bought, again>>

-----------------------------------------------------------------------------
(* Exits of open positions.                                                *)

HeldToMaturity(tk) ==
  readings # <<>> /\ PositionCanHoldToMaturity(Kind, Pred(tk), tk[2], LatestObserved)

\* Mutated: only the forecast can end a position.
ExitDueHourly(tk) == ~HeldToMaturity(tk) /\ HourlyReason(tk)

ExitDue(tk) ==
  /\ ~HeldToMaturity(tk)
  /\ \/ readings # <<>> /\ PositionInvalidated(Kind, Pred(tk), tk[2], LatestObserved)
     \/ HourlyReason(tk)

OpenExit(b) ==
  /\ At(b, "exits")
  /\ \E tk \in bot[b].check :
       /\ bot' = [bot EXCEPT ![b].check = @ \ {tk}]
       /\ IF ExitDue(tk) THEN Sell(tk) ELSE held' = held
  /\ UNCHANGED <<clock, readings, samples, processed, crashes, bought, again>>

TickDone(b) ==
  /\ At(b, "exits") /\ bot[b].check = {}
  /\ bot' = [bot EXCEPT ![b] = Idle]
  /\ UNCHANGED <<clock, readings, samples, processed, held, crashes, bought, again>>

-----------------------------------------------------------------------------
(* Around the tick.                                                        *)

Crash(b) ==
  /\ ~At(b, "idle") /\ crashes < MaxCrashes
  /\ crashes' = crashes + 1
  /\ bot' = [bot EXCEPT ![b] = Idle]
  /\ UNCHANGED <<clock, readings, samples, processed, held, bought, again>>

PassHour ==
  /\ clock + 1 \in Hours
  /\ clock' = clock + 1
  /\ UNCHANGED <<readings, samples, processed, held, bot, crashes, bought, again>>

\* A station reports its extreme since midnight, which only moves one way.
StoreObservation ==
  /\ Len(readings) < MaxReadings
  /\ \E v \in Temps, s \in Stations :
       /\ \A i \in DOMAIN readings :
            readings[i].station = s => ~Beyond(Kind, readings[i].value, v)
       /\ readings' = Append(readings, [at |-> clock, value |-> v, station |-> s])
  /\ UNCHANGED <<clock, samples, processed, held, bot, crashes, bought, again>>

\* The feed is polled again before it moves on; every poll is stored.  A
\* feed behind caches may also serve a payload older than its last one.
StoreAgain ==
  /\ Len(readings) < MaxReadings
  /\ \E i \in DOMAIN readings :
       /\ \/ LateReadings
          \/ \A j \in DOMAIN readings : j > i => readings[j].station # readings[i].station
       /\ readings' = Append(readings, readings[i])
  /\ UNCHANGED <<clock, samples, processed, held, bot, crashes, bought, again>>

\* A new forecast, or another fetch of the last one.
StoreForecast ==
  /\ Len(samples) < MaxSamples
  /\ \/ \E path \in Paths :
          samples' = Append(samples, [upd |-> Cardinality(UpdateIds) + 1,
                                      fetched |-> clock, path |-> path])
     \/ /\ samples # <<>>
        /\ samples' = Append(samples, [samples[Len(samples)] EXCEPT !.fetched = clock])
  /\ UNCHANGED <<clock, readings, processed, held, bot, crashes, bought, again>>

Init ==
  /\ clock = 1 /\ readings = <<>> /\ samples = <<>>
  /\ processed = {} /\ held = [tk \in Tokens |-> 0]
  /\ bot = [b \in Bots |-> Idle]
  /\ crashes = 0 /\ bought = {} /\ again = {}

Tick(b) ==
  \/ StartTick(b) \/ ValueSkip(b) \/ ValueOffer(b) \/ ValueMark(b)
  \/ ChangeSkip(b) \/ ChangeRead(b) \/ ForecastExit(b) \/ ChangeCandidates(b)
  \/ ChangeBuy(b)
  \/ ActualStart(b) \/ Transition(b) \/ TransitionsDone(b) \/ BucketsDone(b)
  \/ BucketRefuse(b) \/ BucketMissing(b) \/ BucketTrade(b)
  \/ BuyGuard(b) \/ BuyFill(b) \/ BuyMiss(b)
  \/ OpenExit(b) \/ TickDone(b)

World == PassHour \/ StoreObservation \/ StoreAgain \/ StoreForecast

Next == World \/ \E b \in Bots : Tick(b) \/ Crash(b)

Spec == Init /\ [][Next]_vars

\* The scheduler runs tick after tick; a book that is asked for again and
\* again is there at some point, and so are bids for what is offered.
Fairness ==
  \A b \in Bots :
    /\ WF_vars(Tick(b))
    /\ SF_vars(BucketTrade(b))
    /\ \A tk \in Tokens : SF_vars((OpenExit(b) \/ ForecastExit(b)) /\ held'[tk] < held[tk])

FairSpec == Spec /\ Fairness

-----------------------------------------------------------------------------
(* Properties.                                                             *)

\* The tables and the bots' locals have their types.
TypeOK ==
  /\ clock \in Hours
  /\ readings \in Seq([at : Hours, value : Temps, station : Stations])
  /\ samples \in Seq([upd : Nat, fetched : Hours, path : Paths])
  /\ held \in [Tokens -> Nat] /\ crashes \in Nat
  /\ again \subseteq {"key", "event"}
  /\ \A b \in Bots : bot[b].buy \subseteq Tokens /\ bot[b].check \subseteq Tokens

\* No event key leads to two buys of a token, however ticks are interrupted
\* and repeated: the event is marked before its first buy (runner.py).
OncePerKey == "key" \notin again

\* One move of the observatory's reading or forecast is traded once.
OncePerEvent == "event" \notin again

\* No position grows above its budget, whatever adds to it tick after tick.
WithinBudget == \A tk \in Tokens : held[tk] <= Budget

\* After row i the feed served a payload older than its last one, which
\* takes its group of readings out of the order they came in.
Reordered(i) ==
  \E h, j, k \in DOMAIN readings :
    /\ h < j /\ j < k /\ i < k
    /\ readings[h] = readings[k] /\ readings[j] # readings[k]
    /\ readings[j].station = readings[k].station

\* A tick never buys a side which the AWS reading it started from had
\* already made worthless, unless an older payload has come since: the
\* guards go by the last row that was stored (runner.py
\* _actual_entry_guard_reason).
NoDeadEntries ==
  [][\A b \in Bots, tk \in Tokens :
       BuyFill(b) /\ held'[tk] > held[tk]
         => \A i \in bot[b].seen :
              Lost(Kind, Pred(tk), tk[2], readings[i].value, Temps) => Reordered(i)]_vars

\* The reading has moved in or out of the token's bucket with row i, and no
\* payload after it has taken the readings out of their order.
Crossed(tk) ==
  \E i \in DOMAIN readings :
    /\ i > 1 /\ ~Reordered(i)
    /\ CrossSide(Kind, Pred(tk), tk[2], readings[i - 1].value, readings[i].value)

DecidedCross(tk) ==
  \E k \in processed :
    /\ k.type = "actual_cross"
    /\ CrossSide(Kind, Pred(tk), tk[2], readings[k.oldId].value, readings[k.newId].value)

\* Every bucket the reading crosses has its event processed in the end: at
\* no time will there always be one that is left undecided, no matter how many
\* rows are stored before the next tick, and whatever older payloads came
\* before.  One that comes between the crossing and the tick hides it
\* (storage.py observed_max_increases).  On the lowest temperature this
\* needs a forecast on file.
CrossingsDecided ==
  []<>(\A tk \in Tokens :
         Crossed(tk) /\ (Kind = "highest" \/ samples # <<>>) => DecidedCross(tk))

\* A position that the last row has made worthless is sold in the end.
DeadPositionsSold ==
  []<>(\A tk \in Tokens :
         readings # <<>> /\ Lost(Kind, Pred(tk), tk[2], LatestObserved, Temps) => held[tk] = 0)
=============================================================================
