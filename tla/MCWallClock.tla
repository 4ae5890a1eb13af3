----------------------------- MODULE MCWallClock -----------------------------
(* A day of two hours of two minutes of two seconds, for TLC. *)
EXTENDS WallClock

\* The last second of the day, and no time of the day.
MCSetTimes == {[h |-> 1, m |-> 1, s |-> 1], [h |-> 2, m |-> 0, s |-> 0]}
=============================================================================
