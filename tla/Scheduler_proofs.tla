--------------------------- MODULE Scheduler_proofs ---------------------------
(***************************************************************************)
(* DecidesOnFreshData, OneTickAfterStop and TypeOK, for every schedule,    *)
(* interval and pass limit, and however many fetches fail; ReadingsArrive  *)
(* for every schedule, as long as a pass is no longer than a window.       *)
(***************************************************************************)
EXTENDS Scheduler, FiniteSetTheorems, WellFoundedInduction, TLAPS

-----------------------------------------------------------------------------
(* Fresh data.  Whatever the pass still needs is ahead of it in `todo'; a *)
(* failure gives that up and sets `failed'.                               *)

SourceRead(s) ==
  /\ <<s, plans[s]>> \in DOMAIN lastPoll
  /\ lastPoll[<<s, plans[s]>>] = now

BooksFresh == lastBooks # None /\ now - lastBooks < BookEvery
MarketFresh == lastMarket # None /\ now - lastMarket < DiscoverEvery

PassOnTrack ==
  /\ \A s \in DOMAIN plans : s \in todo \/ SourceRead(s)
  /\ "books" \in todo \/ BooksFresh
  /\ "markets" \in todo \/ MarketFresh
  /\ warm \/ actual \/ "aws_actual" \in todo

FreshInv ==
  /\ lastBooks \in Int \cup {None} /\ lastMarket \in Int \cup {None}
  /\ clock \in Int /\ now \in Int
  /\ DOMAIN plans \subseteq Sources
  /\ warm => actual
  /\ pc = "fetch" => failed \/ PassOnTrack
  /\ traded => pc # "fetch"
  /\ DecidesOnFreshData

LEMMA InitialFresh == Init => FreshInv
<1> SUFFICES ASSUME Init PROVE FreshInv
  OBVIOUS
<1>1. clock \in Int
  BY LoopAssumption DEF Init
<1> QED
  BY <1>1 DEF Init, FreshInv, DecidesOnFreshData

LEMMA SourceOfPlan ==
  ASSUME NEW source, NEW at, NEW from, NEW to
  PROVE  Plan(source, at, from, to).source = source
BY DEF Plan

LEMMA DueSources ==
  ASSUME NEW t, NEW p \in DuePlans(t)
  PROVE  p.source \in Sources
<1>1. p \in SincePlans \/ p \in BulletinPlans(learned)
  BY DEF DuePlans, ActiveBulletin
<1>2. CASE p \in SincePlans
  <2>1. PICK at : p = Around("since_midnight", at, Minute, 2 * Minute)
    BY <1>2 DEF SincePlans
  <2> QED
    BY <2>1, SourceOfPlan DEF Around, Sources
<1>3. CASE p \in BulletinPlans(learned)
  <2>1. PICK at, to : p = Plan("bulletin", at, at, to)
    BY <1>3 DEF BulletinPlans
  <2> QED
    BY <2>1, SourceOfPlan DEF Sources
<1> QED
  BY <1>1, <1>2, <1>3

\* At the head of a pass everything that is not fresh enough is to be fetched.
LEMMA BeginFresh ==
  ASSUME FreshInv, Begin
  PROVE  FreshInv'
<1>1. pc' = "fetch" /\ now' = clock /\ clock' = clock /\ traded' = FALSE
      /\ warm' = warm /\ actual' = actual
  BY DEF Begin
<1>2. PICK sources : /\ sources \subseteq Sources
                     /\ DOMAIN plans' = sources /\ todo' = Fetches(clock, sources)
  <2> DEFINE S == {p.source : p \in DuePlans(clock)}
  <2>1. S \subseteq Sources
    BY DueSources
  <2>2. DOMAIN plans' = S /\ todo' = Fetches(clock, S)
    BY DEF Begin
  <2> QED
    BY <2>1, <2>2
<1>3. sources \subseteq todo'
      /\ ("aws_actual" \in todo' <=> "aws_actual" \in sources \/ (~warm /\ ~actual))
      /\ ("markets" \in todo' <=> "markets" \in sources \/ Elapsed(lastMarket, clock, DiscoverEvery))
      /\ ("books" \in todo' <=> "books" \in sources \/ Elapsed(lastBooks, clock, BookEvery))
  BY <1>2 DEF Fetches
<1>4. /\ lastBooks' = (IF Elapsed(lastBooks, clock, BookEvery) THEN None ELSE lastBooks)
      /\ lastMarket' = (IF Elapsed(lastMarket, clock, DiscoverEvery) THEN None ELSE lastMarket)
  BY DEF Begin, Forget
<1>5. BookEvery \in Int /\ DiscoverEvery \in Int /\ None \notin Int
  BY LoopAssumption
<1>6. "books" \in todo' \/ BooksFresh'
  BY <1>1, <1>3, <1>4, <1>5 DEF BooksFresh, Elapsed, FreshInv
<1>7. "markets" \in todo' \/ MarketFresh'
  BY <1>1, <1>3, <1>4, <1>5 DEF MarketFresh, Elapsed, FreshInv
<1>8. PassOnTrack'
  BY <1>1, <1>2, <1>3, <1>6, <1>7 DEF PassOnTrack
<1>9. lastBooks' \in Int \cup {None} /\ lastMarket' \in Int \cup {None}
  BY <1>4 DEF FreshInv
<1> QED
  BY <1>1, <1>2, <1>8, <1>9 DEF FreshInv, DecidesOnFreshData

\* A source that is read is marked at the time of the pass.
LEMMA SourceKeepsFresh ==
  ASSUME NEW source \in Sources, FreshInv, FetchSource(source)
  PROVE  FreshInv'
<1>1. pc = "fetch" /\ pc' = "fetch" /\ todo' = todo \ {source} /\ plans' = plans
      /\ now' = now /\ clock' = clock /\ failed' = failed /\ traded' = traded
      /\ lastBooks' = lastBooks /\ lastMarket' = lastMarket /\ actual' = actual /\ warm' = warm
  BY DEF FetchSource, Upcoming
<1>2. lastPoll' = [k \in DOMAIN lastPoll \cup {<<source, plans[source]>>} |->
                     IF k = <<source, plans[source]>> THEN now ELSE lastPoll[k]]
  BY DEF FetchSource, MarkFetch
<1>3. SourceRead(source)'
  BY <1>1, <1>2 DEF SourceRead
<1>4. ASSUME NEW s \in DOMAIN plans, SourceRead(s)
      PROVE  SourceRead(s)'
  BY <1>1, <1>2, <1>4 DEF SourceRead
<1>5. source \notin {"books", "markets", "aws_actual"}
  BY DEF Sources
<1>6. PassOnTrack => PassOnTrack'
  <2>1. ASSUME PassOnTrack, NEW s \in DOMAIN plans
        PROVE  s \in todo' \/ SourceRead(s)'
    BY <1>1, <1>3, <1>4, <2>1 DEF PassOnTrack
  <2> QED
    BY <1>1, <1>5, <2>1 DEF PassOnTrack, BooksFresh, MarketFresh
<1> QED
  BY <1>1, <1>6 DEF FreshInv, DecidesOnFreshData

LEMMA OtherKeepsFresh ==
  ASSUME NEW f \in {"aws_actual", "markets", "books"}, FreshInv, FetchOther(f)
  PROVE  FreshInv'
<1>1. pc = "fetch" /\ pc' = "fetch" /\ todo' = todo \ {f} /\ plans' = plans
      /\ now' = now /\ clock' = clock /\ failed' = failed /\ traded' = traded
      /\ lastPoll' = lastPoll /\ warm' = warm
      /\ actual' = (actual \/ f = "aws_actual")
      /\ lastMarket' = (IF f = "markets" THEN now ELSE lastMarket)
      /\ lastBooks' = (IF f = "books" THEN now ELSE lastBooks)
  BY DEF FetchOther, Upcoming
<1>2. BookEvery > 0 /\ DiscoverEvery > 0 /\ BookEvery \in Int /\ DiscoverEvery \in Int /\ None \notin Int
  BY LoopAssumption
<1>3. now \in Int
  BY DEF FreshInv
<1>4. f = "books" \/ BooksFresh => BooksFresh'
  BY <1>1, <1>2, <1>3 DEF BooksFresh
<1>5. f = "markets" \/ MarketFresh => MarketFresh'
  BY <1>1, <1>2, <1>3 DEF MarketFresh
<1>6. ASSUME PassOnTrack, NEW s \in DOMAIN plans, s # f
      PROVE  s \in todo' \/ SourceRead(s)'
  BY <1>1, <1>6 DEF PassOnTrack, SourceRead
<1>7. PassOnTrack => PassOnTrack'
  BY <1>1, <1>4, <1>5, <1>6 DEF PassOnTrack, Sources, FreshInv
<1> QED
  BY <1>1, <1>3, <1>7 DEF FreshInv, DecidesOnFreshData

\* The tick runs when nothing is left to fetch and nothing failed.
LEMMA DecideFresh ==
  ASSUME FreshInv, Decide
  PROVE  FreshInv'
<1>1. pc = "fetch" /\ todo = {} /\ pc' = "sleep" /\ traded' = (~failed /\ warm)
      /\ warm' = (warm \/ ~failed) /\ plans' = plans /\ now' = now /\ clock' = clock
      /\ lastPoll' = lastPoll /\ lastBooks' = lastBooks /\ lastMarket' = lastMarket
      /\ actual' = actual /\ failed' = failed
  BY DEF Decide
<1>2. failed \/ PassOnTrack
  BY <1>1 DEF FreshInv
<1>3. ~failed => actual
  BY <1>1, <1>2 DEF PassOnTrack, FreshInv
<1>4. ~failed => BooksFresh /\ MarketFresh /\ \A s \in DOMAIN plans : SourceRead(s)
  BY <1>1, <1>2 DEF PassOnTrack
<1> QED
  BY <1>1, <1>3, <1>4 DEF FreshInv, DecidesOnFreshData, BooksFresh, MarketFresh, SourceRead

LEMMA StepsKeepFresh ==
  ASSUME FreshInv, [Next]_vars
  PROVE  FreshInv'
<1>1. CASE Begin
  BY <1>1, BeginFresh
<1>2. CASE Decide
  BY <1>2, DecideFresh
<1>3. CASE \E s \in Sources : FetchSource(s)
  BY <1>3, SourceKeepsFresh
<1>4. CASE \E f \in {"aws_actual", "markets", "books"} : FetchOther(f)
  BY <1>4, OtherKeepsFresh
<1>5. CASE \E f \in DOMAIN Rank : FetchFails(f)
  <2>1. pc = "fetch" /\ pc' = pc /\ failed' = TRUE /\ UNCHANGED <<clock, now, plans, traded, state>>
    BY <1>5 DEF FetchFails, Upcoming
  <2> QED
    BY <2>1 DEF FreshInv, DecidesOnFreshData, state
<1>6. CASE Wake \/ Leave \/ Signal \/ Raise
  <2>1. /\ pc' \in {pc, "top", "done"}
        /\ UNCHANGED <<clock, now, todo, plans, failed, traded, state>>
    BY <1>6 DEF Wake, Leave, Signal, Raise, GoTo
  <2> QED
    BY <2>1 DEF FreshInv, PassOnTrack, SourceRead, BooksFresh, MarketFresh, DecidesOnFreshData, state
<1>7. CASE Pass
  <2>1. clock' = clock + 1 /\ UNCHANGED <<loop, state>>
    BY <1>7 DEF Pass
  <2> QED
    BY <2>1 DEF FreshInv, PassOnTrack, SourceRead, BooksFresh, MarketFresh, DecidesOnFreshData,
       state, loop
<1>8. CASE (\E s \in Sources : Publish(s)) \/ UNCHANGED vars
  <2>1. UNCHANGED <<clock, loop, state>>
    BY <1>8 DEF Publish, vars
  <2> QED
    BY <2>1 DEF FreshInv, PassOnTrack, SourceRead, BooksFresh, MarketFresh, DecidesOnFreshData,
       state, loop
<1> QED
  BY <1>1, <1>2, <1>3, <1>4, <1>5, <1>6, <1>7, <1>8 DEF Next, Loop

\* run_scheduled_paper_loop never runs the trading tick in a pass that could
\* not read what was due, on books or markets older than their interval, or
\* before an actual was read.
THEOREM TradesOnFreshData == Spec => []DecidesOnFreshData
<1>1. FreshInv => DecidesOnFreshData
  BY DEF FreshInv
<1> QED
  BY <1>1, InitialFresh, StepsKeepFresh, PTL DEF Spec

-----------------------------------------------------------------------------
(* Stopping. *)

StopInv ==
  /\ late \in {0, 1}
  /\ late = 1 => stop /\ pc # "fetch"

\* A pass that is under way when the signal comes still trades; the loop
\* looks at the signal before it begins another.
THEOREM StopsTrading == Spec => []OneTickAfterStop
<1>1. Init => StopInv
  <2>1. Init => late = 0
    BY DEF Init
  <2> QED
    BY <2>1 DEF StopInv
<1>2. StopInv /\ [Next]_vars => StopInv'
  <2> SUFFICES ASSUME StopInv, [Next]_vars PROVE StopInv'
    OBVIOUS
  <2>1. CASE Begin
    BY <2>1 DEF Begin, Running, StopInv
  <2>2. CASE Decide
    BY <2>2 DEF Decide, StopInv
  <2>3. CASE Wake \/ Leave \/ Signal \/ Raise
    BY <2>3 DEF Wake, Leave, Signal, Raise, GoTo, StopInv
  <2>4. CASE \/ \E s \in Sources : FetchSource(s) \/ Publish(s)
             \/ \E f \in {"aws_actual", "markets", "books"} : FetchOther(f)
             \/ \E f \in DOMAIN Rank : FetchFails(f)
             \/ Pass \/ UNCHANGED vars
    <3>1. UNCHANGED <<pc, stop, late>>
      BY <2>4 DEF FetchSource, Publish, FetchOther, FetchFails, Pass, vars, loop
    <3> QED
      BY <3>1 DEF StopInv
  <2> QED
    BY <2>1, <2>2, <2>3, <2>4 DEF Next, Loop
<1>3. StopInv => OneTickAfterStop
  BY DEF StopInv, OneTickAfterStop
<1> QED
  BY <1>1, <1>2, <1>3, PTL DEF Spec
-----------------------------------------------------------------------------
(* The windows.  A set of times that is not empty has a first and a last   *)
(* one: of the intervals that end in them, one contains no other.          *)

LEMMA FirstExists ==
  ASSUME NEW S, S \subseteq Nat, S # {}
  PROVE  \E x \in S : \A y \in S : x <= y
<1> DEFINE U == {0 .. n : n \in S}
           R == StrictSubsetOrdering(UNION U)
<1>1. \A n \in S : IsFiniteSet(0 .. n)
  <2> TAKE n \in S
  <2>1. n \in Int /\ 0 \in Int
    OBVIOUS
  <2> QED
    BY <2>1, FS_Interval
<1>2. U # {} /\ U \subseteq FiniteSubsetsOf(UNION U)
  BY <1>1 DEF FiniteSubsetsOf
<1>3. IsWellFoundedOn(R, FiniteSubsetsOf(UNION U))
  BY FS_StrictSubsetOrderingWellFounded
<1>4. \E s \in U : \A t \in U : <<t, s>> \notin R
  <2> HIDE DEF U, R
  <2> QED
    BY <1>2, <1>3, WFMin
<1>5. PICK s \in U : \A t \in U : t \subseteq s => t = s
  BY <1>4 DEF StrictSubsetOrdering
<1>6. PICK x \in S : s = 0 .. x
  BY <1>5
<1>7. ASSUME NEW y \in S, ~(x <= y) PROVE FALSE
  <2>1. 0 .. y \in U /\ 0 .. y \subseteq 0 .. x
    BY <1>7
  <2>2. 0 .. y = 0 .. x
    BY <1>5, <1>6, <2>1
  <2>3. x \in 0 .. x /\ x \notin 0 .. y
    BY <1>7
  <2> QED
    BY <2>2, <2>3
<1> QED
  BY <1>7

LEMMA MinIs ==
  ASSUME NEW S, S \subseteq Nat, S # {}
  PROVE  Min(S) \in S /\ \A y \in S : Min(S) <= y
<1>1. Min(S) = CHOOSE x \in S : \A y \in S : x =< y
  BY Zenon DEF Min
<1> QED
  BY <1>1, FirstExists

LEMMA MaxIs ==
  ASSUME NEW S, NEW N \in Nat, S \subseteq 0 .. N, S # {}
  PROVE  Max(S) \in S /\ \A y \in S : Max(S) >= y
<1>1. Max(S) = CHOOSE x \in S : \A y \in S : x >= y
  BY Zenon DEF Max
<1> DEFINE T == {N - x : x \in S}
<1>2. T \subseteq Nat /\ T # {}
  OBVIOUS
<1>3. PICK z \in T : \A y \in T : z <= y
  <2> HIDE DEF T
  <2> QED
    BY <1>2, FirstExists
<1>4. PICK x \in S : z = N - x
  BY <1>3
<1>5. \A y \in S : x >= y
  <2> TAKE y \in S
  <2>1. N - x <= N - y
    BY <1>3, <1>4
  <2> QED
    BY <2>1
<1> QED
  BY <1>1, <1>5

LEMMA Product ==
  ASSUME NEW a \in Nat, NEW b \in Nat, NEW c \in Nat, a <= b
  PROVE  a * c \in Nat /\ a * c <= b * c
OBVIOUS

LEMMA PlanTypes ==
  /\ Minute \in Nat /\ Minute > 0 /\ Hours \in Nat /\ Hours > 0
  /\ CatchUp \in Nat /\ Cadence \in Nat /\ Day \in Nat /\ Day > 0
<1>1. Minute \in Nat /\ Minute > 0 /\ Hours \in Nat /\ Hours > 0 /\ CatchUp \in Nat /\ Cadence \in Nat
  BY PlansAssumption
<1>2. 60 * Minute \in Nat /\ 60 * Minute > 0
  BY <1>1
<1>3. PICK n : n = 60 * Minute
  OBVIOUS
<1>4. n * Hours \in Nat /\ n * Hours > 0
  BY <1>1, <1>2, <1>3
<1> QED
  BY <1>1, <1>3, <1>4 DEF Day

LEMMA SlotTimes ==
  ASSUME NEW minutes, minutes \subseteq 0 .. 59
  PROVE  Slots(minutes) \subseteq 0 .. (Day - 1)
<1> SUFFICES ASSUME NEW h \in 0 .. (Hours - 1), NEW m \in 0 .. 59
             PROVE  (60 * h + m) * Minute \in 0 .. (Day - 1)
  BY DEF Slots
<1>1. PICK a : a = 60 * h + m
  OBVIOUS
<1>2. Hours \in Nat /\ Minute \in Nat /\ Minute > 0
  BY PlanTypes
<1>3. a \in Nat /\ a + 1 \in Nat /\ 60 * Hours \in Nat /\ a + 1 <= 60 * Hours
  BY <1>1, <1>2
<1>4. a * Minute \in Nat /\ (a + 1) * Minute <= (60 * Hours) * Minute
  BY <1>2, <1>3, Product
<1>5. (a + 1) * Minute = a * Minute + Minute
  BY <1>2, <1>3
<1>6. (60 * Hours) * Minute = Day
  BY <1>2 DEF Day
<1> QED
  BY <1>1, <1>2, <1>4, <1>5, <1>6, PlanTypes

LEMMA PairMax ==
  ASSUME NEW a \in Int, NEW b \in Int
  PROVE  Max({a, b}) = IF a >= b THEN a ELSE b
<1>1. Max({a, b}) = CHOOSE x \in {a, b} : \A y \in {a, b} : x >= y
  BY Zenon DEF Max
<1>2. \E x \in {a, b} : \A y \in {a, b} : x >= y
  OBVIOUS
<1> QED
  BY <1>1, <1>2

LEMMA PairMin ==
  ASSUME NEW a \in Int, NEW b \in Int
  PROVE  Min({a, b}) = IF a <= b THEN a ELSE b
<1>1. Min({a, b}) = CHOOSE x \in {a, b} : \A y \in {a, b} : x =< y
  BY Zenon DEF Min
<1>2. \E x \in {a, b} : \A y \in {a, b} : x <= y
  OBVIOUS
<1> QED
  BY <1>1, <1>2

LEMMA PlanFields ==
  ASSUME NEW source, NEW at, NEW from, NEW to
  PROVE  /\ Plan(source, at, from, to).source = source /\ Plan(source, at, from, to).at = at
         /\ Plan(source, at, from, to).from = from /\ Plan(source, at, from, to).to = to
         /\ WindowKey(Plan(source, at, from, to)) = <<source, at>>
BY DEF Plan, WindowKey

\* A since-midnight window opens a minute before its time and closes two
\* minutes after, or with the day.
LEMMA SinceWindow ==
  ASSUME NEW p \in SincePlans
  PROVE  /\ p.source = "since_midnight" /\ WindowKey(p) = <<"since_midnight", p.at>>
         /\ p.at \in 0 .. (Day - 1) /\ p.from \in 0 .. (Day - 1)
         /\ p.from > 0 => p.from = p.at - Minute
         /\ p.to = p.at + 2 * Minute \/ p.to = Day - 1
<1>1. PICK at \in Slots(SinceMinutes) : p = Around("since_midnight", at, Minute, 2 * Minute)
  BY DEF SincePlans
<1>2. at \in 0 .. (Day - 1) /\ Day \in Nat /\ Day > 0 /\ Minute \in Nat /\ Minute > 0
  BY PlanTypes, SlotTimes, PlansAssumption
<1>3. PICK from, to : from = Max({at - Minute, 0}) /\ to = Min({at + 2 * Minute, Day - 1})
  OBVIOUS
<1>4. p = Plan("since_midnight", at, from, to)
  BY <1>1, <1>3 DEF Around
<1>5. from = IF at - Minute >= 0 THEN at - Minute ELSE 0
  <2>1. at - Minute \in Int /\ 0 \in Int
    BY <1>2
  <2> QED
    BY <1>3, <2>1, PairMax
<1>6. to = IF at + 2 * Minute <= Day - 1 THEN at + 2 * Minute ELSE Day - 1
  <2>1. at + 2 * Minute \in Int /\ Day - 1 \in Int
    BY <1>2
  <2> QED
    BY <1>3, <2>1, PairMin
<1>7. /\ p.source = "since_midnight" /\ p.at = at /\ p.from = from /\ p.to = to
      /\ WindowKey(p) = <<"since_midnight", at>>
  BY <1>4, PlanFields
<1> QED
  BY <1>2, <1>5, <1>6, <1>7

LEMMA OneWindow ==
  ASSUME NEW p \in SincePlans, NEW q \in SincePlans, p.at = q.at
  PROVE  p = q
<1>1. PICK at : p = Around("since_midnight", at, Minute, 2 * Minute)
  BY DEF SincePlans
<1>2. PICK time : q = Around("since_midnight", time, Minute, 2 * Minute)
  BY DEF SincePlans
<1>3. p.at = at /\ q.at = time
  BY <1>1, <1>2, PlanFields DEF Around
<1> QED
  BY <1>1, <1>2, <1>3

LEMMA BulletinWindow ==
  ASSUME learned \subseteq Nat, NEW p \in BulletinPlans(learned)
  PROVE  p.source = "bulletin" /\ WindowKey(p) = <<"bulletin", p.at>> /\ p.at \in 0 .. (Day - 1)
<1>1. {t % 60 : t \in learned} \subseteq 0 .. 59
  OBVIOUS
<1>2. /\ Slots(ForecastMinutes) \subseteq 0 .. (Day - 1)
      /\ Slots({t % 60 : t \in learned}) \subseteq 0 .. (Day - 1)
  BY <1>1, SlotTimes, PlansAssumption
<1>3. \E at \in 0 .. (Day - 1) : \E to : p = Plan("bulletin", at, at, to)
  <2>1. CASE \E at \in Slots(ForecastMinutes) : p = Plan("bulletin", at, at, at + Cadence)
    BY <1>2, <2>1
  <2>2. CASE \E at \in Slots({t % 60 : t \in learned}) :
               p = Plan("bulletin", at, at, at + CatchUp * Minute)
    BY <1>2, <2>2
  <2> QED
    BY <2>1, <2>2 DEF BulletinPlans
<1> QED
  BY <1>3, PlanFields

LEMMA DueWindow ==
  ASSUME learned \subseteq Nat, NEW t, NEW p \in DuePlans(t)
  PROVE  /\ p.source \in Sources /\ p.at \in 0 .. (Day - 1)
         /\ p.source = "since_midnight" => p \in SincePlans /\ p.from <= t
<1>1. p \in SincePlans \/ p \in BulletinPlans(learned)
  BY DEF DuePlans, ActiveBulletin
<1>2. p.from <= t
  BY DEF DuePlans, IsDue, Open
<1> QED
  BY <1>1, <1>2, SinceWindow, BulletinWindow DEF Sources

\* The next window to open, or the end of the day.
LEMMA OpeningIs ==
  ASSUME NEW t \in 0 .. (Day - 1)
  PROVE  /\ NextOpening(t) \in Nat /\ NextOpening(t) > t
         /\ \/ NextOpening(t) = Day
            \/ \E p \in SincePlans : p.from = NextOpening(t)
<1> DEFINE S == {p.from : p \in {q \in SincePlans : q.from > t}} \cup {Day}
<1>1. \A x \in S : x \in Nat /\ x > t /\ (x = Day \/ \E p \in SincePlans : p.from = x)
  BY SinceWindow, PlanTypes
<1>2. NextOpening(t) = Min(S)
  BY Zenon DEF NextOpening
<1>3. Min(S) \in S
  <2>1. S \subseteq Nat /\ S # {}
    BY <1>1
  <2> HIDE DEF S
  <2> QED
    BY <2>1, MinIs
<1> HIDE DEF S
<1> QED
  BY <1>1, <1>2, <1>3
-----------------------------------------------------------------------------
(* Types.  A source to fetch has a window in this pass, and a window that  *)
(* was polled or completed had opened by then.                             *)

Since == "since_midnight"

Opened(at) == \E p \in SincePlans : p.at = at /\ p.from <= now

WindowInv ==
  /\ now <= clock /\ learned \subseteq Nat
  /\ todo \cap Sources \subseteq DOMAIN plans
  /\ \A s \in DOMAIN plans : plans[s] \in 0 .. Day
  /\ Since \in DOMAIN plans => Opened(plans[Since])
  /\ \A k \in completed \cup DOMAIN lastPoll : k[1] = Since => Opened(k[2])

FeedInv ==
  /\ DOMAIN version = Sources /\ DOMAIN stored = Sources
  /\ DOMAIN seen = Sources /\ DOMAIN publishedAt = Sources

LoopInv == TypeOK /\ WindowInv /\ FeedInv

LEMMA SourceNames ==
  /\ Sources = {"since_midnight", "bulletin"} /\ Since \in Sources
  /\ DOMAIN Rank = Sources \cup {"aws_actual", "markets", "books"}
  /\ {"aws_actual", "markets", "books"} \cap Sources = {}
BY DEF Sources, Since, Rank

LEMMA Limits ==
  /\ Horizon \in Nat /\ PassLimit \in Nat /\ PassLimit > 0 /\ Starts \subseteq 0 .. Horizon
  /\ \A s \in Sources : Versions[s] \in Nat /\ Versions[s] > 0
BY LoopAssumption

LEMMA FreshTypes == Init => LoopInv
<1> SUFFICES ASSUME Init PROVE LoopInv
  OBVIOUS
<1>1. clock \in 0 .. Horizon
  BY Limits DEF Init
<1>2. TypeOK
  <2>1. /\ {clock, now, started} \subseteq 0 .. Horizon
        /\ \A s \in Sources : publishedAt[s] \in 0 .. Horizon
    BY <1>1 DEF Init
  <2>2. /\ pc \in {"top", "fetch", "sleep", "done"}
        /\ todo \subseteq DOMAIN Rank /\ DOMAIN plans \subseteq Sources
        /\ {lastBooks, lastMarket} \subseteq (0 .. Horizon) \cup {None}
        /\ {failed, warm, traded, stop, actual} \subseteq BOOLEAN
        /\ completed \cup DOMAIN lastPoll \subseteq Sources \X (0 .. Day)
        /\ missed \subseteq Sources /\ late \in Nat
    BY DEF Init
  <2>3. \A s \in Sources : /\ version[s] \in 1 .. Versions[s]
                           /\ stored[s] \in 0 .. Versions[s]
                           /\ seen[s] \in (1 .. Versions[s]) \cup {None}
    BY Limits DEF Init
  <2> QED
    BY <2>1, <2>2, <2>3 DEF TypeOK
<1>3. WindowInv
  BY <1>1, Limits DEF Init, WindowInv
<1>4. FeedInv
  BY DEF Init, FeedInv
<1> QED
  BY <1>2, <1>3, <1>4 DEF LoopInv

LEMMA BeginTypes ==
  ASSUME LoopInv, Begin PROVE LoopInv'
<1>1. /\ pc' = "fetch" /\ now' = clock /\ failed' = FALSE /\ traded' = FALSE
      /\ UNCHANGED <<clock, seen, actual, warm, stop, learned, stored, missed, started, late>>
      /\ UNCHANGED <<version, publishedAt>>
  BY DEF Begin, feeds
<1>2. /\ clock \in 0 .. Horizon /\ now \in 0 .. Horizon /\ now <= clock /\ learned \subseteq Nat
      /\ Horizon \in Nat
  BY Limits DEF LoopInv, TypeOK, WindowInv
<1> DEFINE due == DuePlans(clock)
           At(s) == {p.at : p \in {q \in due : q.source = s}}
           S == {p.source : p \in due}
<1>3. DOMAIN plans' = S /\ todo' = Fetches(clock, S) /\ \A s \in S : plans'[s] = Max(At(s))
  BY DEF Begin
<1>4. S \subseteq Sources
  BY DueSources
<1>5. \A s \in S : Max(At(s)) \in At(s) /\ At(s) \subseteq 0 .. Day
  <2> TAKE s \in S
  <2>1. At(s) \subseteq 0 .. Day /\ At(s) # {} /\ Day \in Nat
    BY <1>2, DueWindow, PlanTypes
  <2> HIDE DEF due, S, At
  <2> QED
    BY <2>1, MaxIs
<1>6. \A s \in S : plans'[s] \in 0 .. Day
  BY <1>3, <1>5
<1>7. Since \in S => Opened(plans[Since])'
  <2> SUFFICES ASSUME Since \in S PROVE Opened(plans[Since])'
    OBVIOUS
  <2>1. PICK p \in due : p.source = Since /\ p.at = Max(At(Since))
    BY <1>5
  <2>2. p \in SincePlans /\ p.from <= clock
    BY <1>2, <2>1, DueWindow DEF Since
  <2> QED
    BY <1>1, <1>3, <2>1, <2>2 DEF Opened
<1>8. completed' \subseteq completed /\ DOMAIN lastPoll' \subseteq DOMAIN lastPoll
  BY DEF Begin, Forget, Restrict
<1>9. ASSUME NEW at, Opened(at) PROVE Opened(at)'
  <2>1. PICK p \in SincePlans : p.at = at /\ p.from <= now
    BY <1>9 DEF Opened
  <2>2. p.from \in Nat
    BY <2>1, SinceWindow
  <2> QED
    BY <1>1, <1>2, <2>1, <2>2 DEF Opened
<1>10. todo' \subseteq S \cup {"aws_actual", "markets", "books"}
  BY <1>3 DEF Fetches
<1>11. WindowInv'
  <2>1. \A k \in completed' \cup DOMAIN lastPoll' : k[1] = Since => Opened(k[2])'
    BY <1>8, <1>9 DEF LoopInv, WindowInv
  <2> HIDE DEF S, due, At
  <2>2. todo' \cap Sources \subseteq S
    BY <1>10, SourceNames
  <2> QED
    BY <1>1, <1>2, <1>3, <1>6, <1>7, <2>1, <2>2 DEF WindowInv
<1>12. lastBooks' \in {lastBooks, None} /\ lastMarket' \in {lastMarket, None}
  BY DEF Begin, Forget
<1>13. TypeOK'
  <2> HIDE DEF S, due, At
  <2>1. todo' \subseteq DOMAIN Rank /\ DOMAIN plans' \subseteq Sources
    BY <1>3, <1>4, <1>10, SourceNames
  <2>2. {lastBooks', lastMarket'} \subseteq (0 .. Horizon) \cup {None}
    BY <1>12 DEF LoopInv, TypeOK
  <2>3. completed' \cup DOMAIN lastPoll' \subseteq Sources \X (0 .. Day)
    BY <1>8 DEF LoopInv, TypeOK
  <2>4. {failed', warm', traded', stop', actual'} \subseteq BOOLEAN
    BY <1>1 DEF LoopInv, TypeOK
  <2> QED
    BY <1>1, <2>1, <2>2, <2>3, <2>4 DEF LoopInv, TypeOK
<1>14. FeedInv'
  BY <1>1 DEF LoopInv, FeedInv
<1> QED
  BY <1>11, <1>13, <1>14 DEF LoopInv

\* A source is fetched: its window is marked, and its version stored.
LEMMA SourceFetched ==
  ASSUME LoopInv, NEW s \in Sources, FetchSource(s)
  PROVE  /\ pc = "fetch" /\ s \in todo /\ todo' = todo \ {s}
         /\ UNCHANGED <<clock, pc, now, plans, failed, traded, lastBooks, lastMarket, actual, warm>>
         /\ UNCHANGED <<stop, version, publishedAt, missed, started, late>>
         /\ stored' = [stored EXCEPT ![s] = version[s]]
         /\ seen' = [seen EXCEPT ![s] = version[s]]
         /\ completed' \subseteq completed \cup {<<s, plans[s]>>}
         /\ DOMAIN lastPoll' = DOMAIN lastPoll \cup {<<s, plans[s]>>}
         /\ learned' \subseteq learned \cup {publishedAt[s] \div Minute}
         /\ s \in DOMAIN plans /\ plans[s] \in 0 .. Day
<1>1. s \in DOMAIN plans /\ plans[s] \in 0 .. Day
  BY DEF FetchSource, Upcoming, LoopInv, WindowInv
<1> QED
  BY <1>1 DEF FetchSource, Upcoming, MarkFetch, feeds

LEMMA SourceTypes ==
  ASSUME LoopInv, NEW s \in Sources, FetchSource(s) PROVE LoopInv'
<1>1. PICK key : key = <<s, plans[s]>>
  OBVIOUS
<1>2. key \in Sources \X (0 .. Day) /\ key[1] = s /\ key[2] = plans[s] /\ s \in DOMAIN plans
  BY <1>1, SourceFetched
<1>3. /\ completed' \cup DOMAIN lastPoll' \subseteq completed \cup DOMAIN lastPoll \cup {key}
      /\ UNCHANGED <<clock, pc, now, plans, failed, traded, lastBooks, lastMarket, actual, warm>>
      /\ UNCHANGED <<stop, version, publishedAt, missed, started, late>>
      /\ todo' = todo \ {s} /\ stored' = [stored EXCEPT ![s] = version[s]]
      /\ seen' = [seen EXCEPT ![s] = version[s]]
  BY <1>1, SourceFetched
<1>4. learned' \subseteq Nat
  <2>1. learned' \subseteq learned \cup {publishedAt[s] \div Minute}
    BY SourceFetched
  <2>2. publishedAt[s] \in Nat /\ Minute \in Nat /\ Minute > 0
    BY PlanTypes, Limits DEF LoopInv, TypeOK
  <2>3. publishedAt[s] \div Minute \in Nat
    BY <2>2
  <2> QED
    BY <2>1, <2>3 DEF LoopInv, WindowInv
<1>5. \A at : Opened(at)' <=> Opened(at)
  BY <1>3 DEF Opened
<1>6. WindowInv'
  <2>1. \A k \in completed' \cup DOMAIN lastPoll' : k[1] = Since => Opened(k[2])
    <3> SUFFICES ASSUME NEW k \in completed' \cup DOMAIN lastPoll', k[1] = Since
                 PROVE  Opened(k[2])
      OBVIOUS
    <3>1. CASE k = key
      BY <1>2, <3>1 DEF LoopInv, WindowInv
    <3>2. CASE k # key
      BY <1>3, <3>2 DEF LoopInv, WindowInv
    <3> QED
      BY <3>1, <3>2
  <2> QED
    BY <1>3, <1>4, <1>5, <2>1 DEF LoopInv, WindowInv
<1>7. TypeOK'
  <2>1. completed' \cup DOMAIN lastPoll' \subseteq Sources \X (0 .. Day)
    BY <1>2, <1>3 DEF LoopInv, TypeOK
  <2>2. todo' \subseteq DOMAIN Rank
    BY <1>3 DEF LoopInv, TypeOK
  <2>3. \A t \in Sources : /\ version'[t] \in 1 .. Versions[t]
                           /\ stored'[t] \in 0 .. Versions[t]
                           /\ seen'[t] \in (1 .. Versions[t]) \cup {None}
    <3> TAKE t \in Sources
    <3>1. version[s] \in 1 .. Versions[s] /\ version[s] \in 0 .. Versions[s]
      BY Limits DEF LoopInv, TypeOK
    <3>2. /\ stored'[t] = IF t = s THEN version[s] ELSE stored[t]
          /\ seen'[t] = IF t = s THEN version[s] ELSE seen[t]
      BY <1>3 DEF LoopInv, FeedInv
    <3> QED
      BY <1>3, <3>1, <3>2 DEF LoopInv, TypeOK
  <2> QED
    BY <1>3, <2>1, <2>2, <2>3 DEF LoopInv, TypeOK
<1>8. FeedInv'
  BY <1>3 DEF LoopInv, FeedInv
<1> QED
  BY <1>6, <1>7, <1>8 DEF LoopInv

\* Steps that note no window and read none.
LEMMA QuietWindows ==
  ASSUME LoopInv, clock <= clock', clock' \in Nat, todo' \subseteq todo, learned' = learned,
         UNCHANGED <<now, plans, completed, lastPoll>>
  PROVE  WindowInv'
<1>1. now' <= clock'
  BY Limits DEF LoopInv, TypeOK, WindowInv
<1>2. \A at : Opened(at)' <=> Opened(at)
  BY DEF Opened
<1> QED
  BY <1>1, <1>2 DEF LoopInv, WindowInv

LEMMA OtherTypes ==
  ASSUME LoopInv, NEW f \in {"aws_actual", "markets", "books"}, FetchOther(f) PROVE LoopInv'
<1>1. /\ todo' = todo \ {f}
      /\ UNCHANGED <<clock, pc, now, plans, failed, traded, completed, lastPoll, seen, warm>>
      /\ UNCHANGED <<stop, learned, version, publishedAt, stored, missed, started, late>>
      /\ lastMarket' \in {now, lastMarket} /\ lastBooks' \in {now, lastBooks}
      /\ actual' = (actual \/ f = "aws_actual")
  BY DEF FetchOther, feeds
<1>2. WindowInv'
  BY <1>1, QuietWindows, Limits DEF LoopInv, TypeOK
<1>3. {lastBooks', lastMarket'} \subseteq (0 .. Horizon) \cup {None}
  BY <1>1 DEF LoopInv, TypeOK
<1>4. TypeOK'
  <2>1. actual' \in BOOLEAN
    BY <1>1
  <2> QED
    BY <1>1, <1>3, <2>1 DEF LoopInv, TypeOK
<1>5. FeedInv'
  BY <1>1 DEF LoopInv, FeedInv
<1> QED
  BY <1>2, <1>4, <1>5 DEF LoopInv

LEMMA FailTypes ==
  ASSUME LoopInv, NEW f \in DOMAIN Rank, FetchFails(f) PROVE LoopInv'
<1>1. /\ todo' = todo \ {f} /\ failed' = TRUE /\ missed' = missed \cup ({f} \cap Sources)
      /\ UNCHANGED <<clock, pc, now, plans, traded, completed, lastPoll, seen, lastBooks>>
      /\ UNCHANGED <<lastMarket, actual, warm, stop, learned, version, publishedAt, stored>>
      /\ UNCHANGED <<started, late>>
  BY DEF FetchFails, feeds, state
<1>2. WindowInv'
  BY <1>1, QuietWindows, Limits DEF LoopInv, TypeOK
<1>3. TypeOK'
  BY <1>1 DEF LoopInv, TypeOK
<1>4. FeedInv'
  BY <1>1 DEF LoopInv, FeedInv
<1> QED
  BY <1>2, <1>3, <1>4 DEF LoopInv

LEMMA DecideTypes ==
  ASSUME LoopInv, Decide PROVE LoopInv'
<1>1. /\ pc' = "sleep" /\ traded' = (~failed /\ warm) /\ warm' = (warm \/ ~failed)
      /\ late' = (IF traded' /\ stop THEN late + 1 ELSE late)
      /\ UNCHANGED <<clock, now, todo, plans, failed, completed, lastPoll, seen, lastBooks>>
      /\ UNCHANGED <<lastMarket, actual, stop, learned, version, publishedAt, stored>>
      /\ UNCHANGED <<missed, started>>
  BY DEF Decide, feeds
<1>2. WindowInv'
  BY <1>1, QuietWindows, Limits DEF LoopInv, TypeOK
<1>3. traded' \in BOOLEAN /\ warm' \in BOOLEAN /\ late' \in Nat
  <2>1. late \in Nat
    BY DEF LoopInv, TypeOK
  <2>2. late' \in {late, late + 1}
    BY <1>1
  <2> QED
    BY <1>1, <2>1, <2>2
<1>4. TypeOK'
  BY <1>1, <1>3 DEF LoopInv, TypeOK
<1>5. FeedInv'
  BY <1>1 DEF LoopInv, FeedInv
<1> QED
  BY <1>2, <1>4, <1>5 DEF LoopInv

LEMMA LabelTypes ==
  ASSUME LoopInv, Wake \/ Leave \/ Signal \/ Raise PROVE LoopInv'
<1>1. /\ pc' \in {pc, "top", "done"} /\ stop' \in {stop, TRUE}
      /\ UNCHANGED <<clock, now, todo, plans, failed, traded, completed, lastPoll, seen>>
      /\ UNCHANGED <<lastBooks, lastMarket, actual, warm, learned, version, publishedAt>>
      /\ UNCHANGED <<stored, missed, started, late>>
  BY DEF Wake, Leave, Signal, Raise, GoTo, state, feeds
<1>2. WindowInv'
  BY <1>1, QuietWindows, Limits DEF LoopInv, TypeOK
<1>3. TypeOK'
  BY <1>1 DEF LoopInv, TypeOK
<1>4. FeedInv'
  BY <1>1 DEF LoopInv, FeedInv
<1> QED
  BY <1>2, <1>3, <1>4 DEF LoopInv

LEMMA PassTypes ==
  ASSUME LoopInv, Pass PROVE LoopInv'
<1>1. /\ clock' = clock + 1 /\ clock < Horizon
      /\ UNCHANGED <<pc, now, todo, plans, failed, traded, completed, lastPoll, seen, lastBooks>>
      /\ UNCHANGED <<lastMarket, actual, warm, stop, learned, version, publishedAt, stored>>
      /\ UNCHANGED <<missed, started, late>>
  BY DEF Pass, loop, state, feeds
<1>2. clock \in Nat /\ Horizon \in Nat
  BY Limits DEF LoopInv, TypeOK
<1>3. WindowInv'
  BY <1>1, <1>2, QuietWindows
<1>4. TypeOK'
  BY <1>1, <1>2 DEF LoopInv, TypeOK
<1>5. FeedInv'
  BY <1>1 DEF LoopInv, FeedInv
<1> QED
  BY <1>3, <1>4, <1>5 DEF LoopInv

LEMMA PublishTypes ==
  ASSUME LoopInv, NEW s \in Sources, Publish(s) PROVE LoopInv'
<1>1. /\ version[s] < Versions[s] /\ version' = [version EXCEPT ![s] = @ + 1]
      /\ publishedAt' = [publishedAt EXCEPT ![s] = clock] /\ missed' = missed \ {s}
      /\ UNCHANGED <<clock, pc, now, todo, plans, failed, traded, completed, lastPoll, seen>>
      /\ UNCHANGED <<lastBooks, lastMarket, actual, warm, stop, learned, stored, started, late>>
  BY DEF Publish, loop, state
<1>2. WindowInv'
  BY <1>1, QuietWindows, Limits DEF LoopInv, TypeOK
<1>3. \A t \in Sources : /\ version'[t] \in 1 .. Versions[t]
                         /\ publishedAt'[t] \in 0 .. Horizon
  <2> TAKE t \in Sources
  <2>1. version[s] + 1 \in 1 .. Versions[s]
    BY <1>1, Limits DEF LoopInv, TypeOK
  <2>2. /\ version'[t] = IF t = s THEN version[s] + 1 ELSE version[t]
        /\ publishedAt'[t] = IF t = s THEN clock ELSE publishedAt[t]
    BY <1>1 DEF LoopInv, FeedInv
  <2> QED
    BY <2>1, <2>2 DEF LoopInv, TypeOK
<1>4. TypeOK'
  BY <1>1, <1>3 DEF LoopInv, TypeOK
<1>5. FeedInv'
  BY <1>1 DEF LoopInv, FeedInv
<1> QED
  BY <1>2, <1>4, <1>5 DEF LoopInv

LEMMA StepTypes == LoopInv /\ [Next]_vars => LoopInv'
<1> SUFFICES ASSUME LoopInv, [Next]_vars PROVE LoopInv'
  OBVIOUS
<1>1. CASE UNCHANGED vars
  <2>1. /\ UNCHANGED <<clock, pc, now, todo, plans, failed, traded, completed, lastPoll, seen>>
        /\ UNCHANGED <<lastBooks, lastMarket, actual, warm, stop, learned, version>>
        /\ UNCHANGED <<publishedAt, stored, missed, started, late>>
    BY <1>1 DEF vars, loop, state, feeds
  <2>2. WindowInv'
    BY <2>1, QuietWindows, Limits DEF LoopInv, TypeOK
  <2> QED
    BY <2>1, <2>2 DEF LoopInv, TypeOK, FeedInv
<1>2. CASE Begin \/ Decide \/ Pass \/ Wake \/ Leave \/ Signal \/ Raise
  BY <1>2, BeginTypes, DecideTypes, PassTypes, LabelTypes
<1>3. CASE \E s \in Sources : FetchSource(s) \/ Publish(s)
  BY <1>3, SourceTypes, PublishTypes
<1>4. CASE \E f \in {"aws_actual", "markets", "books"} : FetchOther(f)
  BY <1>4, OtherTypes
<1>5. CASE \E f \in DOMAIN Rank : FetchFails(f)
  BY <1>5, FailTypes
<1> QED
  BY <1>1, <1>2, <1>3, <1>4, <1>5 DEF Next, Loop

LEMMA AlwaysTyped == Spec => []LoopInv
BY FreshTypes, StepTypes, PTL DEF Spec

\* Every variable of the loop keeps a value of its kind, whatever the sources
\* publish and whichever fetches fail (scheduler.py SchedulerState).
THEOREM TypeCorrect == Spec => []TypeOK
<1>1. LoopInv => TypeOK
  BY DEF LoopInv
<1> QED
  BY <1>1, AlwaysTyped, PTL
-----------------------------------------------------------------------------
(* Readings arrive.  A reading that is not stored yet waits for a window   *)
(* that opened after it was published and that no pass has polled; the     *)
(* first pass that begins in that window still has it to fetch.            *)

Opening == NextOpening(publishedAt[Since])

Awaited ==
  /\ \A p \in SincePlans :
       p.from > publishedAt[Since] => WindowKey(p) \notin completed \cup DOMAIN lastPoll
  /\ now < Opening \/ (now < Opening + PassLimit /\ pc = "fetch" /\ Since \in todo)

ArriveInv ==
  /\ clock <= now + PassLimit
  /\ pc = "done" \/ version[Since] = stored[Since] \/ Since \in missed \/ Awaited

LEMMA PublishedIn ==
  ASSUME LoopInv, Horizon < Day
  PROVE  /\ clock \in 0 .. (Day - 1) /\ now \in 0 .. (Day - 1) /\ now <= clock
         /\ publishedAt[Since] \in 0 .. (Day - 1)
         /\ Opening \in Nat /\ Opening > publishedAt[Since]
         /\ Opening = Day \/ \E p \in SincePlans : p.from = Opening
<1>1. /\ clock \in 0 .. Horizon /\ now \in 0 .. Horizon /\ now <= clock
      /\ publishedAt[Since] \in 0 .. Horizon /\ Horizon \in Nat /\ Day \in Nat
  BY Limits, PlanTypes, SourceNames DEF LoopInv, TypeOK, WindowInv
<1>2. PICK t : t = publishedAt[Since]
  OBVIOUS
<1>3. t \in 0 .. (Day - 1)
  BY <1>1, <1>2
<1> QED
  BY <1>1, <1>2, <1>3, OpeningIs DEF Opening

LEMMA AwaitedAtStart ==
  ASSUME Horizon < Day, Init PROVE ArriveInv
<1>1. LoopInv
  BY FreshTypes
<1>2. now = clock /\ publishedAt[Since] = clock /\ completed = {} /\ DOMAIN lastPoll = {}
  BY SourceNames DEF Init
<1>3. now < Opening
  BY <1>1, <1>2, PublishedIn
<1>4. clock <= now + PassLimit
  BY <1>1, <1>2, PublishedIn, Limits
<1> QED
  BY <1>2, <1>3, <1>4 DEF ArriveInv, Awaited

\* The first pass in the window fetches the source.
LEMMA BeginAwaits ==
  ASSUME LoopInv, ArriveInv, Horizon < Day, PassLimit <= 3 * Minute, Begin PROVE ArriveInv'
<1>1. /\ pc = "top" /\ pc' = "fetch" /\ now' = clock
      /\ UNCHANGED <<clock, version, publishedAt, stored, missed>>
      /\ Opening' = Opening
  BY DEF Begin, feeds, Opening
<1>2. completed' \subseteq completed /\ DOMAIN lastPoll' \subseteq DOMAIN lastPoll
  BY DEF Begin, Forget, Restrict
<1>3. clock' <= now' + PassLimit
  BY <1>1, PublishedIn, Limits
<1>4. ASSUME Awaited, clock >= Opening PROVE Since \in todo' /\ now' < Opening + PassLimit
  <2>1. /\ clock \in Nat /\ now \in Nat /\ Opening \in Nat /\ Day \in Nat /\ clock < Day
        /\ PassLimit \in Nat /\ Minute \in Nat
    BY PublishedIn, Limits, PlanTypes
  <2>2. now < Opening /\ clock <= now + PassLimit
    BY <1>1, <1>4 DEF Awaited, ArriveInv
  <2>3. PICK p \in SincePlans : p.from = Opening
    BY <1>4, <2>1, PublishedIn
  <2>4. /\ p.from > 0 /\ p.at \in Nat /\ p.from = p.at - Minute
        /\ p.to = p.at + 2 * Minute \/ p.to = Day - 1
    BY <2>1, <2>2, <2>3, SinceWindow
  <2>5. p.from <= clock /\ clock <= p.to
    BY <1>4, <2>1, <2>2, <2>3, <2>4
  <2>6. WindowKey(p) \notin completed /\ WindowKey(p) \notin DOMAIN lastPoll
    BY <1>4, <2>3, PublishedIn DEF Awaited
  <2>7. p \in DuePlans(clock)
    BY <2>3, <2>5, <2>6 DEF DuePlans, IsDue, Open
  <2>8. Since \in {q.source : q \in DuePlans(clock)}
    BY <2>7, SinceWindow DEF Since
  <2>9. Since \in todo'
    BY <2>8 DEF Begin, Fetches
  <2> QED
    BY <1>1, <2>1, <2>2, <2>9
<1>5. ASSUME Awaited PROVE Awaited'
  <2>1. \A p \in SincePlans :
          p.from > publishedAt'[Since] => WindowKey(p) \notin completed' \cup DOMAIN lastPoll'
    BY <1>1, <1>2, <1>5 DEF Awaited
  <2>2. clock < Opening \/ clock >= Opening
    BY PublishedIn
  <2>3. now' < Opening' \/ (now' < Opening' + PassLimit /\ pc' = "fetch" /\ Since \in todo')
    BY <1>1, <1>4, <1>5, <2>2
  <2> QED
    BY <2>1, <2>3 DEF Awaited
<1> QED
  BY <1>1, <1>3, <1>5 DEF ArriveInv

\* A step that neither begins a pass nor publishes a reading.
LEMMA AwaitsOn ==
  ASSUME LoopInv, ArriveInv,
         UNCHANGED <<now, version, publishedAt, stored>>, clock' <= now + PassLimit,
         missed \subseteq missed',
         \A k \in completed' \cup DOMAIN lastPoll' :
           k[1] = Since => k \in completed \cup DOMAIN lastPoll,
         pc' = "done" \/ pc' = pc \/ Since \notin todo \/ pc # "fetch",
         pc = "done" => pc' = "done",
         Since \in todo => Since \in todo' \/ Since \in missed'
  PROVE  ArriveInv'
<1>1. Opening' = Opening
  BY DEF Opening
<1>2. ASSUME Awaited, pc' # "done", Since \notin missed' PROVE Awaited'
  <2>1. \A p \in SincePlans : WindowKey(p)[1] = Since
    BY SinceWindow DEF Since
  <2>2. \A p \in SincePlans :
          p.from > publishedAt'[Since] => WindowKey(p) \notin completed' \cup DOMAIN lastPoll'
    BY <1>2, <2>1 DEF Awaited
  <2>3. now' < Opening' \/ (now' < Opening' + PassLimit /\ pc' = "fetch" /\ Since \in todo')
    BY <1>1, <1>2 DEF Awaited
  <2> QED
    BY <2>2, <2>3 DEF Awaited
<1> QED
  BY <1>2 DEF ArriveInv

LEMMA SourceAwaits ==
  ASSUME LoopInv, ArriveInv, NEW s \in Sources, FetchSource(s) PROVE ArriveInv'
<1>1. /\ UNCHANGED <<clock, pc, now, version, publishedAt, missed>>
      /\ stored' = [stored EXCEPT ![s] = version[s]] /\ todo' = todo \ {s}
      /\ completed' \cup DOMAIN lastPoll' \subseteq completed \cup DOMAIN lastPoll \cup {<<s, plans[s]>>}
  BY SourceFetched
<1>2. clock' <= now' + PassLimit
  BY <1>1 DEF ArriveInv
<1>3. CASE s = Since
  <2>1. version'[Since] = stored'[Since]
    BY <1>1, <1>3 DEF LoopInv, FeedInv
  <2> QED
    BY <1>2, <2>1 DEF ArriveInv
<1>4. CASE s # Since
  <2>1. stored'[Since] = stored[Since] /\ version'[Since] = version[Since]
    BY <1>1, <1>4, SourceNames DEF LoopInv, FeedInv
  <2>2. \A k \in completed' \cup DOMAIN lastPoll' :
          k[1] = Since => k \in completed \cup DOMAIN lastPoll
    BY <1>1, <1>4
  <2>3. Opening' = Opening
    BY <1>1 DEF Opening
  <2>4. ASSUME Awaited PROVE Awaited'
    <3>1. \A p \in SincePlans : WindowKey(p)[1] = Since
      BY SinceWindow DEF Since
    <3>2. \A p \in SincePlans :
            p.from > publishedAt'[Since] => WindowKey(p) \notin completed' \cup DOMAIN lastPoll'
      BY <1>1, <2>2, <2>4, <3>1 DEF Awaited
    <3>3. now' < Opening' \/ (now' < Opening' + PassLimit /\ pc' = "fetch" /\ Since \in todo')
      BY <1>1, <1>4, <2>3, <2>4 DEF Awaited
    <3> QED
      BY <3>2, <3>3 DEF Awaited
  <2> QED
    BY <1>1, <1>2, <2>1, <2>4 DEF ArriveInv
<1> QED
  BY <1>3, <1>4

\* A reading that is published now is later than every window that a pass
\* has seen open.
LEMMA PublishAwaits ==
  ASSUME LoopInv, LoopInv', ArriveInv, Horizon < Day, NEW s \in Sources, Publish(s)
  PROVE  ArriveInv'
<1>1. /\ UNCHANGED <<clock, pc, now, todo, completed, lastPoll, stored>>
      /\ version' = [version EXCEPT ![s] = @ + 1]
      /\ publishedAt' = [publishedAt EXCEPT ![s] = clock] /\ missed' = missed \ {s}
  BY DEF Publish, loop, state
<1>2. clock' <= now' + PassLimit
  BY <1>1 DEF ArriveInv
<1>3. CASE s = Since
  <2>1. publishedAt'[Since] = clock
    BY <1>1, <1>3 DEF LoopInv, FeedInv
  <2>2. now <= clock /\ clock \in 0 .. (Day - 1) /\ now \in Nat
    BY PublishedIn
  <2>3. Opening' \in Nat /\ Opening' > clock
    BY <2>1, <2>2, OpeningIs DEF Opening
  <2>4. ASSUME NEW p \in SincePlans, WindowKey(p) \in completed \cup DOMAIN lastPoll
        PROVE  p.from <= clock
    <3>1. WindowKey(p) = <<Since, p.at>>
      BY SinceWindow DEF Since
    <3>2. PICK q \in SincePlans : q.at = p.at /\ q.from <= now
      BY <2>4, <3>1 DEF LoopInv, WindowInv, Opened
    <3>3. p = q /\ p.from \in Nat
      BY <3>2, OneWindow, SinceWindow
    <3> QED
      BY <2>2, <3>2, <3>3
  <2>5. \A p \in SincePlans :
          p.from > publishedAt'[Since] => WindowKey(p) \notin completed' \cup DOMAIN lastPoll'
    <3> SUFFICES ASSUME NEW p \in SincePlans, p.from > clock
                 PROVE  WindowKey(p) \notin completed \cup DOMAIN lastPoll
      BY <1>1, <2>1
    <3>1. p.from \in Nat
      BY SinceWindow
    <3> QED
      BY <2>2, <2>4, <3>1
  <2>6. now' < Opening'
    BY <1>1, <2>2, <2>3
  <2> QED
    BY <1>2, <2>5, <2>6 DEF ArriveInv, Awaited
<1>4. CASE s # Since
  <2>1. /\ publishedAt'[Since] = publishedAt[Since] /\ version'[Since] = version[Since]
        /\ (Since \in missed' <=> Since \in missed)
    BY <1>1, <1>4, SourceNames DEF LoopInv, FeedInv
  <2>2. Opening' = Opening
    BY <2>1 DEF Opening
  <2>3. Awaited => Awaited'
    BY <1>1, <2>1, <2>2 DEF Awaited
  <2> QED
    BY <1>1, <1>2, <2>1, <2>3 DEF ArriveInv
<1> QED
  BY <1>3, <1>4

LEMMA StepAwaits ==
  ASSUME LoopInv, LoopInv', ArriveInv, Horizon < Day, PassLimit <= 3 * Minute, [Next]_vars
  PROVE  ArriveInv'
<1>1. CASE Begin
  BY <1>1, BeginAwaits
<1>2. CASE \E s \in Sources : FetchSource(s)
  BY <1>2, SourceAwaits
<1>3. CASE \E s \in Sources : Publish(s)
  BY <1>3, PublishAwaits
<1>4. CASE \E f \in {"aws_actual", "markets", "books"} : FetchOther(f)
  <2>1. PICK f \in {"aws_actual", "markets", "books"} : FetchOther(f)
    BY <1>4
  <2>2. /\ UNCHANGED <<clock, pc, now, version, publishedAt, stored, completed, lastPoll, missed>>
        /\ todo' = todo \ {f} /\ Since # f
    BY <2>1, SourceNames DEF FetchOther, feeds
  <2> QED
    BY <2>2, AwaitsOn DEF ArriveInv
<1>5. CASE \E f \in DOMAIN Rank : FetchFails(f)
  <2>1. PICK f \in DOMAIN Rank : FetchFails(f)
    BY <1>5
  <2>2. /\ UNCHANGED <<clock, pc, now, version, publishedAt, stored, completed, lastPoll>>
        /\ todo' = todo \ {f} /\ missed' = missed \cup ({f} \cap Sources)
    BY <2>1 DEF FetchFails, feeds, state
  <2>3. Since \in todo => Since \in todo' \/ Since \in missed'
    BY <2>2, SourceNames
  <2> QED
    BY <2>2, <2>3, AwaitsOn DEF ArriveInv
<1>6. CASE Decide
  <2>1. /\ pc = "fetch" /\ todo = {} /\ todo' = todo
        /\ UNCHANGED <<clock, now, version, publishedAt, stored, completed, lastPoll, missed>>
    BY <1>6 DEF Decide, feeds
  <2> QED
    BY <2>1, AwaitsOn DEF ArriveInv
<1>7. CASE Wake \/ Leave \/ Signal \/ Raise
  <2>1. /\ UNCHANGED <<clock, now, todo, version, publishedAt, stored, completed, lastPoll, missed>>
        /\ pc' = "done" \/ pc' = pc \/ pc # "fetch"
        /\ pc = "done" => pc' = "done"
    BY <1>7 DEF Wake, Leave, Signal, Raise, GoTo, state, feeds
  <2> QED
    BY <2>1, AwaitsOn DEF ArriveInv
<1>8. CASE Pass
  <2>1. /\ clock' = clock + 1 /\ clock < now + PassLimit
        /\ UNCHANGED <<pc, now, todo, version, publishedAt, stored, completed, lastPoll, missed>>
    BY <1>8 DEF Pass, loop, state, feeds
  <2>2. clock' <= now + PassLimit
    BY <2>1, PublishedIn, Limits
  <2> QED
    BY <2>1, <2>2, AwaitsOn
<1>9. CASE UNCHANGED vars
  <2>1. UNCHANGED <<clock, pc, now, todo, version, publishedAt, stored, completed, lastPoll, missed>>
    BY <1>9 DEF vars, loop, state, feeds
  <2> QED
    BY <2>1, AwaitsOn DEF ArriveInv
<1> QED
  BY <1>1, <1>2, <1>3, <1>4, <1>5, <1>6, <1>7, <1>8, <1>9 DEF Next, Loop

\* A reading published while the loop runs is stored once the next window has
\* opened and two passes are over, if no fetch of it failed: the window that
\* closed at an earlier reading is another one.  It takes a process that
\* lives within one day, and passes that do not sleep through a window
\* (scheduler.py mark_source_fetch, _since_midnight_plans).
THEOREM ReadingsCome ==
  ASSUME Horizon < Day, PassLimit <= 3 * Minute
  PROVE  Spec => []ReadingsArrive
<1>1. Init => ArriveInv
  BY AwaitedAtStart
<1>2. LoopInv /\ LoopInv' /\ ArriveInv /\ [Next]_vars => ArriveInv'
  BY StepAwaits
<1>3. LoopInv /\ ArriveInv => ReadingsArrive
  <2> SUFFICES ASSUME LoopInv, ArriveInv, pc # "done", Since \notin missed,
                      clock >= Opening + 2 * PassLimit, version[Since] # stored[Since]
               PROVE  FALSE
    BY DEF ReadingsArrive, Since, Opening
  <2>1. now < Opening + PassLimit \/ now < Opening
    BY DEF ArriveInv, Awaited
  <2>2. clock \in Nat /\ now \in Nat /\ Opening \in Nat /\ PassLimit \in Nat /\ clock <= now + PassLimit
    BY PublishedIn, Limits DEF ArriveInv
  <2> QED
    BY <2>1, <2>2
<1> QED
  BY <1>1, <1>2, <1>3, AlwaysTyped, PTL DEF Spec
=============================================================================
