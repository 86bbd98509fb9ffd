------------------------------ MODULE MCReplay ------------------------------
(***************************************************************************)
(* A small day for TLC.                                                    *)
(***************************************************************************)
EXTENDS Replay

\* Readings that overtake each other, alone and with a forecast; forecasts,
\* alone and with books.
MCBounds ==
  {[forecasts |-> f[1], samples |-> f[2], readings |-> f[3], books |-> f[4]] :
     f \in {<<0, 0, 3, 0>>, <<1, 1, 2, 0>>, <<2, 2, 0, 0>>, <<2, 0, 0, 2>>}}

MCDay == {2, 3}

MCSources == {{"scheduler"}, {"data"}, {"scheduler", "data", "books"}}

\* Once its rows are loaded the replay reads the source no more, and only
\* the clock still matters to it.
RestsDuringTicks == stage \in Setup \/ UNCHANGED <<source, writer, decided>>
=============================================================================
