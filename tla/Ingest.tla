------------------------------ MODULE Ingest ------------------------------
(***************************************************************************)
(* The life of a report: a node samples its kernel traffic counter, POSTs  *)
(* it to /api/report, and the handler authorises it, stamps it and runs    *)
(* saveReport, whose three statements (node upsert, history claim and      *)
(* insert, offline bootstrap) are separate round trips to Postgres.        *)
(* Reports of one node are handled concurrently: the WebSocket server lets *)
(* eight frames of a connection be persisted at once, and an HTTP node     *)
(* whose POST timed out sends the next one while the first still runs.     *)
(* deleteNode is one transaction, but it can run between any two of those  *)
(* statements.                                                             *)
(*                                                                         *)
(* One traffic direction is modelled (netSent; netRecv is the same code).  *)
(* Fields named epoch, base, peak, inc and late, and the last three        *)
(* variables, are not in the code: they record what really happened, for   *)
(* the properties.                                                         *)
(***************************************************************************)
EXTENDS Integers, FiniteSets

CONSTANTS
  Nodes,            \* node ids (server-minted slugs)
  Requests,         \* handler invocations that can be in progress at once
  Slack,            \* bootTime may wander this far without a reboot (30 s)
  HistoryInterval,  \* HISTORY_MIN_INTERVAL_MS
  MaxClock,         \* bound on time
  MaxEpoch,         \* bound on boots of a node
  MaxRaw,           \* bound on the kernel counter
  MaxInc            \* bound on deletions of a node

ASSUME ConstantsAssumption ==
  /\ Slack \in Nat
  /\ HistoryInterval \in Nat \ {0}
  /\ MaxClock \in Nat /\ MaxEpoch \in Nat /\ MaxRaw \in Nat /\ MaxInc \in Nat

VARIABLES
  clock,       \* the master's Date.now()
  agent,       \* per node: the machine and its kernel counter
  req,         \* per request: where the handler is and what it carries
  token,       \* per node: what lets its agent in: a row of node_tokens, the
               \* setting nodeToken all nodes shared once, or nothing
  row,         \* per node: its row of the nodes table
  history,     \* metrics_history rows
  offline,     \* nodes with a row in offline_settings
  inc,         \* per node: how often it has been deleted
  raced,       \* per node: its last deletion met a report in progress
  entitled,    \* per node: since then it was given a token, or it kept the shared one
  edited       \* per node: since then its offline setting was saved without a row

ghosts == <<raced, entitled, edited>>
vars == <<clock, agent, req, token, row, history, offline, inc, raced, entitled, edited>>

Stages == {"free", "auth", "save", "upsert", "claim", "history", "bootstrap"}

\* Stages of a handler that authorizeReport has let in.
Admitted == Stages \ {"free", "auth"}

Free(n) == [stage |-> "free", node |-> n, boot |-> 0, raw |-> 0, now |-> 0,
            epoch |-> 0, base |-> 0, inc |-> 0]

NoRow == [present |-> FALSE, boot |-> 0, off |-> 0, last |-> 0, seen |-> 0,
          hist |-> 0, epoch |-> 0, base |-> 0, late |-> FALSE]

\* The bytes the machine really sent, over all its boots.
Lifetime(n) == agent[n].base + agent[n].peak

\* metrics.netSent as stored: off + raw.
StoredTotal(n) == row[n].off + row[n].last

\* The history row that a request holding a won claim is about to insert.
Pending(r) == [node |-> req[r].node, ts |-> req[r].now, inc |-> req[r].inc]

HistoryRows == history \cup {Pending(r) : r \in {q \in Requests : req[q].stage = "history"}}

Init ==
  /\ clock = HistoryInterval
  /\ agent = [n \in Nodes |-> [boot |-> 1, epoch |-> 1, raw |-> 0, peak |-> 0, base |-> 0]]
  /\ \E n \in Nodes : req = [r \in Requests |-> Free(n)]
  /\ token \in [Nodes -> {"none", "shared"}]
  /\ row = [n \in Nodes |-> NoRow]
  /\ history = {}
  /\ offline = {}
  /\ inc = [n \in Nodes |-> 0]
  /\ raced = [n \in Nodes |-> FALSE]
  /\ entitled = [n \in Nodes |-> token[n] = "shared"]
  /\ edited = [n \in Nodes |-> FALSE]

-----------------------------------------------------------------------------
(* The machine *)

Tick ==
  /\ clock < MaxClock
  /\ clock' = clock + 1
  /\ UNCHANGED <<agent, req, token, row, history, offline, inc, ghosts>>

Traffic(n) ==
  /\ agent[n].raw < MaxRaw
  /\ agent' = [agent EXCEPT ![n] = [agent[n] EXCEPT !.raw = agent[n].raw + 1,
                 !.peak = IF @ > agent[n].raw THEN @ ELSE agent[n].raw + 1]]
  /\ UNCHANGED <<clock, req, token, row, history, offline, inc, ghosts>>

\* An interface disappears (docker run --rm): the summed counter shrinks.
InterfaceGone(n) ==
  /\ \E v \in 0..agent[n].raw : v < agent[n].raw /\ agent' = [agent EXCEPT ![n].raw = v]
  /\ UNCHANGED <<clock, req, token, row, history, offline, inc, ghosts>>

Reboot(n) ==
  /\ agent[n].epoch < MaxEpoch
  /\ clock > agent[n].boot
  /\ agent' = [agent EXCEPT ![n] = [boot |-> clock, epoch |-> @.epoch + 1, raw |-> 0,
                                    peak |-> 0, base |-> @.base + @.peak]]
  /\ UNCHANGED <<clock, req, token, row, history, offline, inc, ghosts>>

-----------------------------------------------------------------------------
(* The report handler *)

\* col.Host and col.Collect, then the POST. bootTime is unreported (0) or the
\* boot time as the kernel now sees it, which clock steps move within Slack.
Send(n, r) ==
  /\ req[r].stage = "free"
  /\ \E b \in {0} \cup agent[n].boot..(agent[n].boot + Slack) :
       req' = [req EXCEPT ![r] = [Free(n) EXCEPT !.stage = "auth", !.boot = b,
                 !.raw = agent[n].raw, !.epoch = agent[n].epoch, !.base = agent[n].base]]
  /\ UNCHANGED <<clock, agent, token, row, history, offline, inc, ghosts>>

AuthorizeAnyone(r) ==
  /\ req[r].stage = "auth"
  /\ req' = [req EXCEPT ![r].stage = "save"]
  /\ UNCHANGED <<clock, agent, token, row, history, offline, inc, ghosts>>

\* authorizeReport: the token's row names the node, or the token is the shared
\* one (legacyTokenMatch) and the report names it; other reports are refused.
Authorize(r) ==
  /\ req[r].stage = "auth"
  /\ req' = [req EXCEPT ![r].stage = IF token[req[r].node] # "none" THEN "save" ELSE "free"]
  /\ UNCHANGED <<clock, agent, token, row, history, offline, inc, ghosts>>

\* saveReport takes Date.now() once, before its statements wait for a connection.
Stamp(r) ==
  /\ req[r].stage = "save"
  /\ req' = [req EXCEPT ![r].stage = "upsert", ![r].now = clock]
  /\ UNCHANGED <<clock, agent, token, row, history, offline, inc, ghosts>>

\* After the upsert the handler needs only the node's id and its stamp.
Upserted(q) == [Free(q.node) EXCEPT !.stage = "claim", !.now = q.now]

RebootedWithinSlack(prev, next) == prev > 0 /\ next >= prev + Slack

Rebooted(prev, next) == prev > 0 /\ next > prev + Slack

\* INSERT INTO nodes ... when the node has no row: columns take their defaults.
InsertRow(r) ==
  LET q == req[r] IN
  /\ q.stage = "upsert"
  /\ ~row[q.node].present
  /\ row' = [row EXCEPT ![q.node] =
       [NoRow EXCEPT !.present = TRUE, !.boot = q.boot, !.last = q.raw, !.seen = q.now,
                     !.epoch = q.epoch, !.base = q.base]]
  /\ req' = [req EXCEPT ![r] = Upserted(q)]
  /\ UNCHANGED <<clock, agent, token, history, offline, inc, ghosts>>

\* ... ON CONFLICT (id) DO UPDATE: bank the old counter on a reboot.
UpdateRow(r) ==
  LET q == req[r]
      o == row[q.node] IN
  /\ q.stage = "upsert"
  /\ o.present
  /\ row' = [row EXCEPT ![q.node] =
       [o EXCEPT !.off = @ + (IF Rebooted(o.boot, q.boot) THEN o.last ELSE 0),
                 !.boot = q.boot, !.last = q.raw, !.seen = q.now,
                 !.epoch = q.epoch, !.base = q.base, !.late = @ \/ q.epoch < o.epoch]]
  /\ req' = [req EXCEPT ![r] = Upserted(q)]
  /\ UNCHANGED <<clock, agent, token, history, offline, inc, ghosts>>

HistoryDueWhenNew(now, last) == now # last

HistoryDue(now, last) == now - last >= HistoryInterval

\* UPDATE nodes SET last_history_ts ... WHERE now - last_history_ts >= interval.
ClaimHistory(r) ==
  LET q == req[r]
      won == row[q.node].present /\ HistoryDue(q.now, row[q.node].hist) IN
  /\ q.stage = "claim"
  /\ row' = IF won THEN [row EXCEPT ![q.node].hist = q.now] ELSE row
  /\ req' = [req EXCEPT ![r].stage = IF won THEN "history" ELSE "bootstrap",
                        ![r].inc = inc[q.node]]
  /\ UNCHANGED <<clock, agent, token, history, offline, inc, ghosts>>

InsertHistory(r) ==
  /\ req[r].stage = "history"
  /\ history' = history \cup {Pending(r)}
  /\ req' = [req EXCEPT ![r].stage = "bootstrap"]
  /\ UNCHANGED <<clock, agent, token, row, offline, inc, ghosts>>

\* INSERT INTO offline_settings ... ON CONFLICT DO NOTHING, and the response.
Bootstrap(r) ==
  /\ req[r].stage = "bootstrap"
  /\ offline' = offline \cup {req[r].node}
  /\ req' = [req EXCEPT ![r] = Free(req[r].node)]
  /\ UNCHANGED <<clock, agent, token, row, history, inc, ghosts>>

\* A statement throws, or the process dies: earlier statements stay committed.
Abort(r) ==
  /\ req[r].stage # "free"
  /\ req' = [req EXCEPT ![r] = Free(req[r].node)]
  /\ UNCHANGED <<clock, agent, token, row, history, offline, inc, ghosts>>

-----------------------------------------------------------------------------
(* The admin *)

\* createUnboundToken or ensureTokenForNode, and the operator (re)installs the
\* node with what it drew.
Enroll(n) ==
  /\ token[n] # "own"
  /\ token' = [token EXCEPT ![n] = "own"]
  /\ entitled' = [entitled EXCEPT ![n] = TRUE]
  /\ UNCHANGED <<clock, agent, req, row, history, offline, inc, raced, edited>>

\* deleteNodeToken: the node stays, and its agent is refused.
DeleteToken(n) ==
  /\ token[n] = "own"
  /\ token' = [token EXCEPT ![n] = "none"]
  /\ UNCHANGED <<clock, agent, req, row, history, offline, inc, ghosts>>

\* POST /api/settings with rotateNodeToken: the shared token is another one.
RotateShared ==
  /\ \E n \in Nodes : token[n] = "shared"
  /\ token' = [n \in Nodes |-> IF token[n] = "shared" THEN "none" ELSE token[n]]
  /\ UNCHANGED <<clock, agent, req, row, history, offline, inc, ghosts>>

\* POST /api/offline: upsertOfflineSetting asks of no node whether it is there.
EditOffline(n) ==
  /\ offline' = offline \cup {n}
  /\ edited' = [edited EXCEPT ![n] = @ \/ ~row[n].present]
  /\ UNCHANGED <<clock, agent, req, token, row, history, inc, raced, entitled>>

InProgress(n) == {r \in Requests : req[r].node = n /\ req[r].stage \in Admitted}

DeleteNode(n) ==
  /\ row[n].present
  /\ inc[n] < MaxInc
  /\ history' = {h \in history : h.node # n}
  /\ offline' = offline \ {n}
  /\ token' = [token EXCEPT ![n] = IF @ = "own" THEN "none" ELSE @]
  /\ row' = [row EXCEPT ![n] = NoRow]
  /\ inc' = [inc EXCEPT ![n] = @ + 1]
  /\ raced' = [raced EXCEPT ![n] = InProgress(n) # {}]
  /\ entitled' = [entitled EXCEPT ![n] = token[n] = "shared"]
  /\ edited' = [edited EXCEPT ![n] = FALSE]
  /\ UNCHANGED <<clock, agent, req>>

Next ==
  \/ Tick \/ RotateShared
  \/ \E n \in Nodes :
       \/ Traffic(n) \/ InterfaceGone(n) \/ Reboot(n)
       \/ Enroll(n) \/ DeleteToken(n) \/ EditOffline(n) \/ DeleteNode(n)
  \/ \E n \in Nodes, r \in Requests : Send(n, r)
  \/ \E r \in Requests :
       \/ Authorize(r) \/ Stamp(r) \/ InsertRow(r) \/ UpdateRow(r)
       \/ ClaimHistory(r) \/ InsertHistory(r) \/ Bootstrap(r) \/ Abort(r)

Spec == Init /\ [][Next]_vars

-----------------------------------------------------------------------------
Agent == [boot : Nat, epoch : Nat, raw : Nat, peak : Nat, base : Nat]
Request == [stage : Stages, node : Nodes, boot : Nat, raw : Nat, now : Nat,
            epoch : Nat, base : Nat, inc : Nat]
Row == [present : BOOLEAN, boot : Nat, off : Nat, last : Nat, seen : Nat,
        hist : Nat, epoch : Nat, base : Nat, late : BOOLEAN]
HistoryRow == [node : Nodes, ts : Nat, inc : Nat]

\* The type invariant of every table and of the handlers' locals.
TypeOK ==
  /\ clock \in Nat
  /\ agent \in [Nodes -> Agent]
  /\ req \in [Requests -> Request]
  /\ token \in [Nodes -> {"own", "shared", "none"}]
  /\ row \in [Nodes -> Row]
  /\ history \subseteq HistoryRow
  /\ offline \subseteq Nodes
  /\ inc \in [Nodes -> Nat]
  /\ raced \in [Nodes -> BOOLEAN] /\ entitled \in [Nodes -> BOOLEAN]
  /\ edited \in [Nodes -> BOOLEAN]

\* The stored lifetime total never exceeds what the node really sent, through
\* reboots, dips of the counter, clock steps, unreported boot times and
\* overtaking reports, unless a report of an earlier boot landed after one of
\* a later boot (the REBOOTED expression of saveReport).
NeverInflated == \A n \in Nodes : ~row[n].late => StoredTotal(n) <= Lifetime(n)

\* History rows of one life of a node, inserted or about to be, are at least
\* HistoryInterval apart however its reports interleave (the claim UPDATE).
HistorySpaced ==
  \A g, h \in HistoryRows :
    g # h /\ g.node = h.node /\ g.inc = h.inc =>
      g.ts - h.ts >= HistoryInterval \/ h.ts - g.ts >= HistoryInterval

\* After a deletion that met no report in progress the node has a row again
\* only if it was enrolled since, or its agent holds the token all nodes shared
\* (authorizeReport falls back to it for whatever hostname the report names);
\* and no history outlives its row, nor an offline setting that was not saved
\* without one (upsertOfflineSetting).
DeletionSticks ==
  \A n \in Nodes : ~raced[n] =>
    /\ row[n].present => entitled[n]
    /\ n \in offline => row[n].present \/ edited[n]
    /\ \A h \in history : h.node = n => row[n].present
=============================================================================
