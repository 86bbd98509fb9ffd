---------------------------- MODULE MCRunnerTick ----------------------------
(* Small markets, hours and forecasts for the runs of RunnerTick.          *)
EXTENDS RunnerTick

\* Two units to a degree.
MCLadder ==
  <<[type |-> "BOTTOM_BUCKET_LTE_C", value |-> 58],
    [type |-> "EXACT_C", value |-> 60],
    [type |-> "GTE_C", value |-> 62]>>

MCTwoBuckets ==
  <<[type |-> "EXACT_C", value |-> 60], [type |-> "GTE_C", value |-> 62]>>

\* The bottom bucket alone decides between these forecasts.
MCLowTemps == {57, 59}
MCLowPaths == {[h \in 1 .. 2 |-> t] : t \in MCLowTemps}

\* Its last bucket dies when the maximum rises, or the minimum falls, past it.
MCBottomLadder ==
  <<[type |-> "BOTTOM_BUCKET_LTE_C", value |-> 58],
    [type |-> "EXACT_C", value |-> 60]>>

MCTemps == {59, 60, 62}
MCFlatPaths == {[h \in 1 .. 2 |-> t] : t \in {59, 60}}
MCFavorites == {<<1, 1>>}
MCFallingAsks == {<<2, 1>>, <<2, 2>>}
=============================================================================
