--------------------------- MODULE MCScheduleAPI ---------------------------
(* A small instance of ScheduleAPI for TLC: requests are interchangeable,  *)
(* and so are the values of the parts of a task.                           *)
EXTENDS ScheduleAPI, TLC

Symmetry == Permutations(Requests) \cup Permutations(Data)
=============================================================================
