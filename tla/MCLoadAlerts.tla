--------------------------- MODULE MCLoadAlerts ---------------------------
(* A small instance of LoadAlerts for TLC. *)
EXTENDS LoadAlerts

\* Bound: of an edit, a failure and an overlap, two.
Budget == edits + faults + overlaps <= 2
=============================================================================
