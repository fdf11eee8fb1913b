---------------------------- MODULE MCSelfUpdate ----------------------------
(* An agent, a good release and one that reports the wrong version.         *)
EXTENDS SelfUpdate
=============================================================================
