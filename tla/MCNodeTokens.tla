--------------------------- MODULE MCNodeTokens ---------------------------
(* A small instance of NodeTokens for TLC: two handlers, two identities. *)
EXTENDS NodeTokens, TLC

CONSTANTS r1, r2, h1, h2

Symmetry == Permutations({r1, r2}) \cup Permutations({h1, h2})
=============================================================================
