------------------------------- MODULE Reads -------------------------------
(* What the master answers to those who look: the list of nodes, the history *)
(* of one, and its latency.  Administrators see everything; guests see a     *)
(* public dashboard with the nodes' addresses taken out.                     *)
(*                                                                           *)
(* Rows are functions of the node's internal id, its hostname.  The averages *)
(* of a slice of time are left out: a slice stands for its point.            *)
EXTENDS Integers, FiniteSets

CONSTANTS
  Hosts,        \* internal ids
  OpaqueIds,    \* what encodeNodeId returns
  Decimal,      \* the ids of one to ten digits: the opaque ones, and what else looks so
  Opaque,       \* per host: its opaque id (OpaqueId shows that no two share one)
  Nothing,      \* null
  MinInterval,  \* HISTORY_MIN_INTERVAL_MS
  OfflineAfter, \* OFFLINE_AFTER_MS
  GuestWindow, MaxWindow, GuestLimit, MaxLimit

ReadsAssumption ==
  /\ Opaque \in [Hosts -> OpaqueIds]
  /\ \A m, n \in Hosts : Opaque[m] = Opaque[n] => m = n
  /\ OpaqueIds \subseteq Decimal /\ Nothing \notin Hosts
  /\ MinInterval \in Nat \ {0}
  /\ GuestWindow \in Nat \ {0} /\ MaxWindow \in Nat \ {0} /\ GuestWindow <= MaxWindow
  /\ GuestLimit \in Nat \ {0} /\ MaxLimit \in Nat \ {0} /\ GuestLimit <= MaxLimit

Smaller(a, b) == IF a < b THEN a ELSE b
Larger(a, b)  == IF a > b THEN a ELSE b

(***************************************************************************)
(* The list of nodes.                                                      *)
(***************************************************************************)
View(n, row, now) ==
  [id |-> n, opaqueId |-> Opaque[n], hostname |-> row.hostname, name |-> row.name,
   ip |-> row.ip, country |-> row.country, cpuTemp |-> row.cpuTemp, load |-> row.load,
   online |-> now - row.lastSeen < OfflineAfter, sortOrder |-> row.sortOrder]

ListNodes(rows, now) == {View(n, rows[n], now) : n \in DOMAIN rows}

PublicNode(v) ==
  [f \in DOMAIN v |-> IF f = "id" THEN v.opaqueId
                      ELSE IF f = "cpuTemp" THEN 0
                      ELSE IF f \in {"hostname", "ip"} THEN Nothing ELSE v[f]]
PublicNodes(views) == {PublicNode(v) : v \in views}

\* GET /api/nodes; spare is what the token bucket of the guest's address says.
NodesAnswer(user, public, spare, rows, now) ==
  IF ~user /\ ~public THEN [status |-> 401, nodes |-> {}]
  ELSE IF ~user /\ ~spare THEN [status |-> 429, nodes |-> {}]
  ELSE [status |-> 200,
        nodes  |-> IF user THEN ListNodes(rows, now) ELSE PublicNodes(ListNodes(rows, now))]

\* What the rows of two fleets have in common for a guest.
SameInPublic(r, s) ==
  /\ r.name = s.name /\ r.country = s.country /\ r.load = s.load
  /\ r.lastSeen = s.lastSeen /\ r.sortOrder = s.sortOrder

(***************************************************************************)
(* The history of a node.                                                  *)
(***************************************************************************)
\* Number(raw) || 240, and Number(raw) || 0: what is missing or no number is 0 here.
AskedLimit(limit)   == IF limit = 0 THEN 240 ELSE limit
AskedWindow(window) == Larger(window, 0)

HistoryStatus(user, public, spare, id, window) ==
  CASE ~user /\ ~public                           -> 401
    [] ~user /\ public /\ id \notin Decimal       -> 404
    [] ~user /\ public /\ id \in Decimal /\ ~spare -> 429
    [] ~user /\ public /\ id \in Decimal /\ spare
         /\ AskedWindow(window) > GuestWindow     -> 403
    [] OTHER                                      -> 200

HistoryLimit(user, limit) == Smaller(AskedLimit(limit), IF user THEN MaxLimit ELSE GuestLimit)

HistoryWindow(user, window) ==
  LET most == IF user THEN MaxWindow ELSE GuestWindow
  IN  IF AskedWindow(window) = 0 THEN most ELSE Smaller(AskedWindow(window), most)

\* An id of digits only is taken for an opaque one; another is the hostname.
ResolveInternalNodeId(id, rows) ==
  IF id \notin Decimal THEN id
  ELSE IF \E n \in DOMAIN rows : Opaque[n] = id THEN CHOOSE n \in DOMAIN rows : Opaque[n] = id
  ELSE Nothing

(***************************************************************************)
(* Slices of time.  A window is cut into as many as points were asked for, *)
(* none shorter than what lies between two rows, aligned to the epoch: one *)
(* more than were asked for can hold samples.  getHistory orders them by   *)
(* time and takes the first; the latency history takes the last.           *)
(***************************************************************************)
Ceiling(a, b) == (a + b - 1) \div b

BucketMs(window, limit) == Larger(MinInterval, Ceiling(Larger(1, window), Larger(1, limit)))

Slices(times, since, width) == {t \div width : t \in {x \in times : x >= since}}

GetHistory(times, now, window, limit) ==
  LET all == Slices(times, now - window, BucketMs(window, limit))
  IN  {s \in all : Cardinality({r \in all : r < s}) < limit}

LatencyHistoryForNode(times, now, window, limit) ==
  LET all == Slices(times, now - window, BucketMs(window, limit))
  IN  {s \in all : Cardinality({r \in all : r > s}) < limit}

(***************************************************************************)
(* Latency: the tasks of a node, and the last sample of each pair.         *)
(***************************************************************************)
AssignedTo(task, n) ==
  /\ task.enabled
  /\ IF task.exclude THEN n \notin task.nodeIds ELSE task.nodeIds = {} \/ n \in task.nodeIds

PingTasksForNode(tasks, n) == {t \in DOMAIN tasks : AssignedTo(tasks[t], n)}

\* The detail page: samples of the tasks the node has now, by task.
LatencyByTask(tasks, samples, n) ==
  [t \in PingTasksForNode(tasks, n) |-> {s \in samples : s.node = n /\ s.task = t}]

\* DISTINCT ON (task, node) ... ORDER BY ts DESC, joined with the tasks and the nodes.
LatestPingResults(tasks, samples, rows) ==
  {s \in samples :
    /\ s.task \in DOMAIN tasks /\ s.node \in DOMAIN rows
    /\ AssignedTo(tasks[s.task], s.node)
    /\ \A r \in samples : r.task = s.task /\ r.node = s.node => r.ts <= s.ts}
=============================================================================
