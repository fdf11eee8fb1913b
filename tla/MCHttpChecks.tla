--------------------------- MODULE MCHttpChecks ---------------------------
(* Small instances of HttpChecks for TLC. *)
EXTENDS HttpChecks, TLC
=============================================================================
