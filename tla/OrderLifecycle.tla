--------------------------- MODULE OrderLifecycle ---------------------------
(***************************************************************************)
(* What live order tracking promises about one accepted exchange order,    *)
(* whatever the interleaving of its handlers: it is placed, then either    *)
(* tracked by a live_orders row or orphaned, and a tracked order is        *)
(* resolved once, with an amount that is never revised.                    *)
(***************************************************************************)
EXTENDS Naturals

CONSTANT Orders

VARIABLES
  stage,    \* where each order is in its life
  booked    \* the shares recorded for it

Stage == {"new", "placed", "tracked", "resolved", "dropped", "orphan"}

TypeOK == stage \in [Orders -> Stage] /\ booked \in [Orders -> Nat]

Init == /\ stage = [o \in Orders |-> "new"]
        /\ booked = [o \in Orders |-> 0]

Move(o, from, to) == stage[o] = from /\ stage' = [stage EXCEPT ![o] = to]

\* The exchange accepts the order; the answer may be lost on the way back.
Place(o) == /\ Move(o, "new", "placed") \/ Move(o, "new", "orphan")
            /\ UNCHANGED booked

Track(o) == Move(o, "placed", "tracked") /\ UNCHANGED booked

\* The process dies between the answer and the row.
Orphan(o) == Move(o, "placed", "orphan") /\ UNCHANGED booked

Resolve(o) == /\ Move(o, "tracked", "resolved")
              /\ booked'[o] \in Nat \ {0}
              /\ booked' = [booked EXCEPT ![o] = booked'[o]]

\* The exchange's answer names no match: the row is not visited again.
Drop(o) == Move(o, "tracked", "dropped") /\ UNCHANGED booked

Next == \E o \in Orders : Place(o) \/ Track(o) \/ Orphan(o) \/ Resolve(o) \/ Drop(o)

Spec == Init /\ [][Next]_<<stage, booked>>
=============================================================================
