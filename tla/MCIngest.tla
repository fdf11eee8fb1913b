----------------------------- MODULE MCIngest -----------------------------
(* Small instances of Ingest for TLC. *)
EXTENDS Ingest, TLC

Symmetry == Permutations(Requests)

\* Bound: either the machine reboots and its counter moves, or the administrator
\* deletes the node, takes its token away or edits its setting too early, and so
\* does a node that has the shared token; both do not fit into one instance.
Budget == \A n \in Nodes :
  inc[n] > 0 \/ token[n] = "shared" \/ edited[n] \/ (entitled[n] /\ token[n] = "none")
    => agent[n].epoch = 1 /\ agent[n].raw + agent[n].peak = 0
=============================================================================
