---------------------------- MODULE MCWsServer ----------------------------
(* A small instance of WsServer for TLC: two clients of one token and address. *)
EXTENDS WsServer, TLC

CONSTANTS s1, s2, t1, i1

OneToken == s1 :> t1 @@ s2 :> t1
OneIp == s1 :> i1 @@ s2 :> i1
=============================================================================
