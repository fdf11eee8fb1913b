---------------------------- MODULE ServerLists ----------------------------
(* The lists of servers a page makes of what it was sent: counted, filtered  *)
(* and sorted on the dashboard, grouped and chosen from in the form of a     *)
(* latency task.                                                             *)
EXTENDS Integers, FiniteSets

\* A server as these lists see it; key has the number each order goes by, names
\* and countries by their place in the alphabet.
Modes == {"custom", "name", "cpu", "mem", "country", "status", "netUp", "netDown",
          "netSent", "netRecv"}
Servers == [id : STRING, online : BOOLEAN, country : {"cn", "other", "unknown"},
            key : [Modes -> Int]]

Online(nodes) == {n \in nodes : n.online}
Offline(nodes) == Cardinality(nodes) - Cardinality(Online(nodes))

Filtered(nodes, region, status) ==
  {n \in nodes : /\ region = "all" \/ n.country = (IF region = "cn" THEN "cn" ELSE "other")
                 /\ status = "all" \/ n.online = (status = "online")}

\* Metrics, and who is online, come largest first; the rest smallest first.
Compare(a, b, mode) ==
  IF mode \in {"custom", "name", "country"} THEN a.key[mode] - b.key[mode]
  ELSE b.key[mode] - a.key[mode]
SortedBefore(a, b, mode, dir) ==
  IF dir = "asc" THEN Compare(a, b, mode) > 0 ELSE Compare(a, b, mode) < 0

-----------------------------------------------------------------------------
(* NodeMultiSelect *)

BuildGroups(nodes, groupBy) ==
  {g \in CASE groupBy = "none"   -> {nodes}
           [] groupBy = "status" -> {Online(nodes), nodes \ Online(nodes)}
           [] OTHER              -> {{n \in nodes : n.country = c} : c \in {"cn", "other", "unknown"}} :
     groupBy = "none" \/ g # {}}

Toggle(value, id) == IF id \in value THEN value \ {id} ELSE value \cup {id}

Summary(value, exclude) ==
  IF value = {} THEN "all" ELSE IF exclude THEN "all but" ELSE "only"
=============================================================================
