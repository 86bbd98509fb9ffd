------------------------------ MODULE Markets ------------------------------
(***************************************************************************)
(* The predicates of a temperature market (markets.py) and the rules of    *)
(* runner.py that decide, from temperatures alone, which side of a bucket  *)
(* to buy, sell or hold.  Temperatures are integers, Deg units to a        *)
(* degree: with one unit per tenth of a degree they are the readings       *)
(* themselves.  Every rule has a form for markets on the day's highest     *)
(* temperature, whose reading only rises, and one for the lowest.          *)
(***************************************************************************)
EXTENDS Integers

CONSTANT Deg    \* units in a degree

ASSUME DegAssumption == Deg \in Nat \ {0}

Kinds == {"highest", "lowest"}
Sides == {"YES", "NO"}
Types == {"EXACT_C", "GTE_C", "BOTTOM_BUCKET_LTE_C", "OTHER"}

\* An outcome's predicate; its value is a whole degree, and means nothing
\* when the label has none (OTHER).
Predicate == [type : Types, value : Int]

Above(p) == p.value + Deg

Floor(t) == t \div Deg

Matches(p, t) ==
  \/ p.type = "EXACT_C" /\ p.value <= t /\ t < Above(p)
  \/ p.type = "GTE_C" /\ p.value <= t
  \/ p.type = "BOTTOM_BUCKET_LTE_C" /\ t < Above(p)

-----------------------------------------------------------------------------
(* What the day's reading can still do, and what it says of a position.    *)

\* a is further along the day's course than b: the reading of the highest
\* temperature only rises, that of the lowest only falls.
Beyond(kind, a, b) == IF kind = "highest" THEN a > b ELSE a < b

Furthest(kind, a, b) == IF Beyond(kind, a, b) THEN a ELSE b

\* The maximum has just entered the bucket.
RisesInto(p, old, new) ==
  /\ old < p.value /\ p.value <= new
  /\ p.type = "GTE_C" \/ (p.type = "EXACT_C" /\ new < Above(p))

\* The maximum has just left the bucket for good.
RisesPast(p, old, new) ==
  /\ p.type \in {"EXACT_C", "BOTTOM_BUCKET_LTE_C"}
  /\ old < Above(p) /\ Above(p) <= new

FallsInto(p, old, new) ==
  \/ p.type = "BOTTOM_BUCKET_LTE_C" /\ old >= Above(p) /\ Above(p) > new
  \/ p.type = "EXACT_C" /\ old >= Above(p) /\ p.value <= new /\ new < Above(p)

FallsPast(p, old, new) ==
  p.type \in {"EXACT_C", "GTE_C"} /\ old >= p.value /\ p.value > new

\* The side an observed transition makes attractive.
CrossSide(kind, p, side, old, new) ==
  IF kind = "highest"
  THEN IF side = "YES" THEN RisesInto(p, old, new) ELSE RisesPast(p, old, new)
  ELSE IF side = "YES" THEN FallsInto(p, old, new) ELSE FallsPast(p, old, new)

\* The forecast already points above the bucket the maximum has entered.
CrossGuardedByForecast(p, side, forecast) ==
  side = "YES" /\ p.type # "OTHER" /\ forecast >= Above(p)

\* A YES the reading has passed is lost; a NO whose bucket holds the present
\* reading counts as invalidated although the reading may still move on.
PositionInvalidated(kind, p, side, v) ==
  IF side = "NO" THEN Matches(p, v)
  ELSE IF kind = "highest"
  THEN p.type \in {"EXACT_C", "BOTTOM_BUCKET_LTE_C"} /\ v >= Above(p)
  ELSE p.type \in {"EXACT_C", "GTE_C"} /\ v < p.value

PositionInvalidatedByForecast(p, side, forecast) ==
  ~(side = "YES" <=> Matches(p, forecast))

PositionCanHoldToMaturity(kind, p, side, v) ==
  /\ side = "YES" /\ Matches(p, v)
  /\ p.type = IF kind = "highest" THEN "GTE_C" ELSE "BOTTOM_BUCKET_LTE_C"

-----------------------------------------------------------------------------
(* Forecast changes.                                                       *)

\* The side a move of the forecast from old to new makes attractive.
ForecastMoveSide(p, side, old, new) ==
  LET enters == Matches(p, new) /\ ~Matches(p, old)
  IN  IF side = "YES" THEN enters
      ELSE /\ ~enters
           /\ \/ /\ new > old /\ p.value < new
                 /\ p.type \in {"EXACT_C", "BOTTOM_BUCKET_LTE_C"}
              \/ /\ new < old /\ p.value > new
                 /\ p.type \in {"EXACT_C", "GTE_C"}

\* Only a move across a whole degree makes candidates.
ForecastMoveCandidate(p, side, old, new) ==
  Floor(old) # Floor(new) /\ ForecastMoveSide(p, side, old, new)

-----------------------------------------------------------------------------
(* Hourly forecasts: a path gives a temperature for every remaining hour.  *)

Peak(kind, path) ==
  CHOOSE t \in {path[h] : h \in DOMAIN path} :
    \A h \in DOMAIN path : ~Beyond(kind, path[h], t)

\* The first hour at or above the bucket's floor is a late one.
LateDayForecastGuard(p, path, lateHour) ==
  \E h \in DOMAIN path :
    /\ h >= lateHour /\ path[h] >= p.value
    /\ \A g \in DOMAIN path : g < h => path[g] < p.value

\* Why a bet on YES is refused on the forecast's word.
ForecastValueGuard(kind, p, side, path, lateHour) ==
  /\ side = "YES" /\ p.type # "OTHER"
  /\ IF kind = "highest"
     THEN Peak(kind, path) < p.value \/ LateDayForecastGuard(p, path, lateHour)
     ELSE ~Matches(p, Peak(kind, path))

HourlyForecastInvalidation(kind, p, side, path, lateHour) ==
  /\ p.type # "OTHER"
  /\ \/ PositionInvalidatedByForecast(p, side, Peak(kind, path))
     \/ /\ side = "YES" /\ kind = "highest"
        /\ LateDayForecastGuard(p, path, lateHour)

-----------------------------------------------------------------------------
(* What the market pays in the end: the reference for the rules above.     *)

\* The side pays out when the day's final reading is v.
Resolves(p, side, v) == side = "YES" <=> Matches(p, v)

\* Whatever the rest of the day brings (among temps), the side pays out.
Settled(kind, p, side, v, temps) ==
  \A w \in temps : ~Beyond(kind, v, w) => Resolves(p, side, w)

\* Whatever the rest of the day brings, the side is worthless.
Lost(kind, p, side, v, temps) ==
  \A w \in temps : ~Beyond(kind, v, w) => ~Resolves(p, side, w)
=============================================================================
