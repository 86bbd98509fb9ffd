---------------------------- MODULE MCScheduler -----------------------------
(* The loop over the end of an hour, where the since-midnight windows of   *)
(* :58 and :00 overlap.                                                    *)
EXTENDS Scheduler

MCSince == {0, 9, 58}
MCActuals == {0, 5, 55}
MCForecasts == {0, 10}
MCVersions == [s \in Sources |-> IF s = "bulletin" THEN 1 ELSE 2]
MCStarts == {56}
=============================================================================
