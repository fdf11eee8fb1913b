---------------------------- MODULE MCAccounts ----------------------------
(* A small instance of Accounts for TLC: two handlers and two addresses. *)
EXTENDS Accounts, TLC

CONSTANTS r1, r2, a1, a2

Symmetry == Permutations({r1, r2}) \cup Permutations({a1, a2})
=============================================================================
