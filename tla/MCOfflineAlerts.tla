-------------------------- MODULE MCOfflineAlerts --------------------------
(* Small instances of OfflineAlerts for TLC. *)
EXTENDS OfflineAlerts, TLC
=============================================================================
