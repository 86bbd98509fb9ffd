--------------------------- MODULE MCLiveExecution ---------------------------
(* Constants for the TLC runs of LiveExecution.                            *)
EXTENDS LiveExecution

OneQuote  == {[size |-> 2, cost |-> 2]}
UnitQuote == {[size |-> 1, cost |-> 1]}
TwoQuotes == {[size |-> 2, cost |-> 2], [size |-> 2, cost |-> 1]}
=============================================================================
