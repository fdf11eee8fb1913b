----------------------------- MODULE MCSettings -----------------------------
(* Two server processes; one request may reach either of them.              *)
EXTENDS Settings, TLC

CONSTANTS r1, r2, p1, p2

MCRequests == {r1, r2}
MCProcs    == {p1, p2}
MCRoutes   == (r1 :> {p1, p2}) @@ (r2 :> {p1})
=============================================================================
