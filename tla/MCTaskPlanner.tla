--------------------------- MODULE MCTaskPlanner ---------------------------
(* A calendar for checking TaskPlanner: months begin in the middle of a week *)
(* and on a Monday.                                                          *)
EXTENDS TaskPlanner, TLC

MCMonthStarts == {1, 4}
=============================================================================
