------------------------------ MODULE PollPlans ------------------------------
(***************************************************************************)
(* When scheduler.py polls a source: the windows around the times a source *)
(* is known to publish at, as SourcePollPlan records, and the rule that    *)
(* makes a window due.  Time is a number of units since midnight, a Minute *)
(* of them to a minute; a day has Hours hours.  Payloads do not appear.    *)
(***************************************************************************)
EXTENDS Integers, FiniteSets, FiniteSetsExt

CONSTANTS
  Minute,            \* units of time per minute
  Hours,             \* hours in the day
  Cadence,           \* cadence_seconds of every plan
  SinceMinutes,      \* SINCE_MIDNIGHT_MINUTES
  ActualMinutes,     \* AWS_ACTUAL_POLL_MINUTES
  ForecastMinutes,   \* FORECAST_POLL_MINUTES
  CatchUp            \* FORECAST_CATCHUP_MINUTES

ASSUME PlansAssumption ==
  /\ {Minute, Hours, Cadence, CatchUp} \subseteq Nat \ {0}
  /\ SinceMinutes \subseteq 0..59 /\ ActualMinutes \subseteq 0..59
  /\ ForecastMinutes \subseteq 0..59

Day == 60 * Minute * Hours
Plan(source, at, from, to) == [source |-> source, at |-> at, from |-> from, to |-> to]
WindowKey(plan) == <<plan.source, plan.at>>

\* These minutes of every hour, as times.
Slots(minutes) == {(60 * h + m) * Minute : h \in 0..(Hours - 1), m \in minutes}

\* A window around a slot, clipped to the day.
Around(source, at, before, after) ==
  Plan(source, at, Max({at - before, 0}), Min({at + after, Day - 1}))

SincePlans ==
  {Around("since_midnight", at, Minute, 2 * Minute) : at \in Slots(SinceMinutes)}

\* The learned minutes of the day that are no regular slot, and every minute
\* with the same last digit.
PublishTimes(learned) ==
  LET news == {m \in learned : m * Minute \notin Slots(ActualMinutes)}
  IN  {m * Minute : m \in {k \in 0..(60 * Hours - 1) : \E n \in news : k % 10 = n % 10}}

ActualPlans(learned) ==
  {Around("aws_actual", at, Minute \div 2, Minute \div 2) : at \in Slots(ActualMinutes)}
  \cup {Around("aws_actual", at, 2 * Minute, 2 * Minute) : at \in PublishTimes(learned)}

\* A learned forecast minute counts in every hour of the day.
BulletinPlans(learned) ==
  {Plan("bulletin", at, at, at + Cadence) : at \in Slots(ForecastMinutes)}
  \cup {Plan("bulletin", at, at, at + CatchUp * Minute) : at \in Slots({t % 60 : t \in learned})}

\* Mutant: a window opens after its first instant.
OpenLate(plan, t) == plan.from < t /\ t <= plan.to

Open(plan, t) == plan.from <= t /\ t <= plan.to

\* A window is due while it is open and not completed, if its last poll is a
\* cadence ago: `polls' maps the windows polled to the time of their last poll.
IsDue(plan, t, polls, completed) ==
  /\ WindowKey(plan) \notin completed
  /\ Open(plan, t)
  /\ WindowKey(plan) \in DOMAIN polls => t - polls[WindowKey(plan)] >= Cadence

\* Only the latest of the open bulletin windows counts, even when it is
\* completed and an earlier one is not.
ActiveBulletin(t, completed, bulletins) ==
  LET open == {p \in bulletins : Open(p, t)}
  IN  {p \in open : WindowKey(p) \notin completed /\ \A q \in open : q.at <= p.at}

\* The windows that are still open at t, or will be.
NotOver(plans, t) == {WindowKey(p) : p \in {q \in plans : q.to >= t}}
=============================================================================
