-------------------------- MODULE MCEvalSchedule --------------------------
(* A small instance of EvalSchedule: two callers in one process, one in another. *)
EXTENDS EvalSchedule, TLC

CONSTANTS i1, i2, c1, c2, c3

MCHome == c1 :> i1 @@ c2 :> i1 @@ c3 :> i2
MCSteps == {5}

\* The two callers of one process are interchangeable.
Symmetry == Permutations({c1, c2})
=============================================================================
