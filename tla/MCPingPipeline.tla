-------------------------- MODULE MCPingPipeline --------------------------
(* Small instances of PingPipeline for TLC. *)
EXTENDS PingPipeline, TLC
=============================================================================
