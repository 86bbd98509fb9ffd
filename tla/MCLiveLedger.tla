---------------------------- MODULE MCLiveLedger ----------------------------
(* Small books for the run of LiveLedger: two levels out of order, a thin  *)
(* dear book, and one without bids.                                        *)
EXTENDS LiveLedger

MCBooks ==
  {[asks |-> <<<<3, 1>>, <<2, 1>>>>, bids |-> <<<<1, 1>>, <<2, 1>>>>],
   [asks |-> <<<<1, 2>>>>, bids |-> <<>>]}
=============================================================================
