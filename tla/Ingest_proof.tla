--------------------------- MODULE Ingest_proof ---------------------------
(***************************************************************************)
(* Proofs about Ingest for every value of its constants: type correctness, *)
(* the spacing of history rows, and that a deletion which met no report in *)
(* progress sticks.                                                        *)
(***************************************************************************)
EXTENDS Ingest, TLAPS

\* The record updates the handlers make stay in their record types.
LEMMA RequestUpdates ==
  ASSUME NEW q \in Request, NEW s \in Stages, NEW k \in Nat
  PROVE  /\ [q EXCEPT !.stage = s] \in Request
         /\ [q EXCEPT !.stage = s, !.now = k] \in Request
         /\ [q EXCEPT !.stage = s, !.inc = k] \in Request
  BY DEF Request

LEMMA RequestResets ==
  ASSUME NEW q \in Request
  PROVE  q.node \in Nodes /\ Upserted(q) \in Request /\ Free(q.node) \in Request
  BY DEF Request, Upserted, Free, Stages

LEMMA RowUpdates ==
  ASSUME NEW o \in Row, NEW q \in Request, NEW k \in Nat
  PROVE  /\ [o EXCEPT !.hist = k] \in Row
         /\ [o EXCEPT !.off = k, !.boot = q.boot, !.last = q.raw, !.seen = q.now,
                      !.epoch = q.epoch, !.base = q.base, !.late = o.late \/ q.epoch < o.epoch]
              \in Row
  BY DEF Request, Row

LEMMA RowInserts ==
  ASSUME NEW q \in Request
  PROVE  [NoRow EXCEPT !.present = TRUE, !.boot = q.boot, !.last = q.raw, !.seen = q.now,
                       !.epoch = q.epoch, !.base = q.base] \in Row
  BY DEF Request, Row, NoRow

LEMMA AgentUpdates ==
  ASSUME NEW a \in Agent, NEW k \in Nat, NEW v \in Nat
  PROVE  /\ [a EXCEPT !.raw = k] \in Agent
         /\ [a EXCEPT !.raw = k, !.peak = v] \in Agent
  BY DEF Agent

\* Every field of every table and handler keeps its type.
LEMMA TypeStep == TypeOK /\ [Next]_vars => TypeOK'
<1> SUFFICES ASSUME TypeOK, [Next]_vars PROVE TypeOK'
  OBVIOUS
<1> USE ConstantsAssumption DEF TypeOK, ghosts
<1>1. CASE Tick
  BY <1>1 DEF Tick
<1>2. ASSUME NEW n \in Nodes, Traffic(n) PROVE TypeOK'
  <2> DEFINE peak == IF agent[n].peak > agent[n].raw THEN agent[n].peak ELSE agent[n].raw + 1
  <2>1. agent[n] \in Agent /\ agent[n].raw + 1 \in Nat /\ peak \in Nat
    BY DEF Agent
  <2>2. [agent[n] EXCEPT !.raw = agent[n].raw + 1, !.peak = peak] \in Agent
    BY <2>1, AgentUpdates
  <2>3. agent' = [agent EXCEPT ![n] = [agent[n] EXCEPT !.raw = agent[n].raw + 1, !.peak = peak]]
    BY <1>2 DEF Traffic
  <2>4. agent' \in [Nodes -> Agent]
    BY <2>2, <2>3
  <2>5. QED BY <1>2, <2>4 DEF Traffic
<1>3. ASSUME NEW n \in Nodes, InterfaceGone(n) PROVE TypeOK'
  <2>1. PICK v \in 0..agent[n].raw : agent' = [agent EXCEPT ![n].raw = v]
    BY <1>3 DEF InterfaceGone
  <2>2. [agent[n] EXCEPT !.raw = v] \in Agent
    BY DEF Agent
  <2>3. agent' \in [Nodes -> Agent]
    BY <2>1, <2>2
  <2>4. QED BY <1>3, <2>3 DEF InterfaceGone
<1>4. ASSUME NEW n \in Nodes, Reboot(n) PROVE TypeOK'
  BY <1>4 DEF Reboot, Agent
<1>5. ASSUME NEW n \in Nodes, Enroll(n) \/ DeleteToken(n) \/ EditOffline(n) PROVE TypeOK'
  BY <1>5 DEF Enroll, DeleteToken, EditOffline, ghosts
<1>18. CASE RotateShared
  BY <1>18 DEF RotateShared, ghosts
<1>6. ASSUME NEW n \in Nodes, DeleteNode(n) PROVE TypeOK'
  <2>1. NoRow \in Row
    BY DEF NoRow, Row
  <2>2. QED BY <1>6, <2>1 DEF DeleteNode
<1>7. ASSUME NEW n \in Nodes, NEW r \in Requests, Send(n, r) PROVE TypeOK'
  <2>1. PICK b \in {0} \cup agent[n].boot..(agent[n].boot + Slack) :
          req' = [req EXCEPT ![r] = [Free(n) EXCEPT !.stage = "auth", !.boot = b,
                    !.raw = agent[n].raw, !.epoch = agent[n].epoch, !.base = agent[n].base]]
    BY <1>7 DEF Send
  <2>2. b \in Nat
    BY DEF Agent
  <2>3. [Free(n) EXCEPT !.stage = "auth", !.boot = b, !.raw = agent[n].raw,
          !.epoch = agent[n].epoch, !.base = agent[n].base] \in Request
    BY <2>2 DEF Free, Request, Agent, Stages
  <2>4. QED BY <1>7, <2>1, <2>3 DEF Send
<1>8. ASSUME NEW r \in Requests, Authorize(r) PROVE TypeOK'
  BY <1>8, RequestUpdates DEF Authorize, Stages
<1>9. ASSUME NEW r \in Requests, Stamp(r) PROVE TypeOK'
  BY <1>9, RequestUpdates DEF Stamp, Stages
<1>10. ASSUME NEW r \in Requests, InsertRow(r) PROVE TypeOK'
  BY <1>10, RequestResets, RowInserts DEF InsertRow
<1>11. ASSUME NEW r \in Requests, UpdateRow(r) PROVE TypeOK'
  <2> DEFINE q == req[r]
             o == row[q.node]
             banked == o.off + (IF Rebooted(o.boot, q.boot) THEN o.last ELSE 0)
  <2>1. q \in Request /\ q.node \in Nodes /\ o \in Row
    BY DEF Request
  <2>2. banked \in Nat
    BY <2>1 DEF Row
  <2>3. row'[q.node] \in Row
    BY <1>11, <2>1, <2>2, RowUpdates DEF UpdateRow
  <2>4. QED BY <1>11, <2>1, <2>3, RequestResets DEF UpdateRow
<1>12. ASSUME NEW r \in Requests, ClaimHistory(r) PROVE TypeOK'
  <2>1. req[r] \in Request /\ req[r].node \in Nodes /\ req[r].now \in Nat
    BY DEF Request
  <2>2. row' \in [Nodes -> Row]
    BY <1>12, <2>1, RowUpdates DEF ClaimHistory
  <2>3. req' \in [Requests -> Request]
    BY <1>12, <2>1, RequestUpdates DEF ClaimHistory, Stages
  <2>4. QED BY <1>12, <2>2, <2>3 DEF ClaimHistory
<1>13. ASSUME NEW r \in Requests, InsertHistory(r) PROVE TypeOK'
  <2>1. Pending(r) \in HistoryRow
    BY DEF Pending, HistoryRow, Request
  <2>2. QED BY <1>13, <2>1, RequestUpdates DEF InsertHistory, Stages
<1>14. ASSUME NEW r \in Requests, Bootstrap(r) PROVE TypeOK'
  BY <1>14, RequestResets DEF Bootstrap
<1>15. ASSUME NEW r \in Requests, Abort(r) PROVE TypeOK'
  BY <1>15, RequestResets DEF Abort
<1>16. CASE UNCHANGED vars
  BY <1>16 DEF vars
<1>17. QED
  BY <1>1, <1>2, <1>3, <1>4, <1>5, <1>6, <1>7, <1>8, <1>9, <1>10, <1>11, <1>12, <1>13,
     <1>14, <1>15, <1>16, <1>18 DEF Next

THEOREM TypeCorrect == Spec => []TypeOK
<1>1. Init => TypeOK
  BY ConstantsAssumption DEF Init, TypeOK, Agent, Request, Row, HistoryRow, Free, NoRow, Stages
<1>2. QED BY <1>1, TypeStep, PTL DEF Spec

-----------------------------------------------------------------------------
(***************************************************************************)
(* Spacing of history rows.  HistorySpaced is not inductive: it needs that *)
(* last_history_ts is an upper bound of the stamps already claimed, which  *)
(* holds within one life of the row; claims that outlived a deletion       *)
(* belong to an earlier life.                                              *)
(***************************************************************************)
ClaimsBounded ==
  \A c \in HistoryRows :
    /\ c.inc <= inc[c.node]
    /\ c.inc = inc[c.node] => row[c.node].present /\ c.ts <= row[c.node].hist

HistoryInv == TypeOK /\ ClaimsBounded /\ HistorySpaced

LEMMA HistoryRowsType == TypeOK => HistoryRows \subseteq HistoryRow
  BY DEF TypeOK, HistoryRows, HistoryRow, Pending, Request

\* A step that claims nothing, and neither removes a row nor moves it back.
LEMMA NoNewClaim ==
  ASSUME HistoryInv, TypeOK', HistoryRows' \subseteq HistoryRows, UNCHANGED inc,
         \A n \in Nodes : row[n].present =>
           row'[n].present /\ row[n].hist <= row'[n].hist
  PROVE  HistoryInv'
<1>1. ClaimsBounded'
  <2> SUFFICES ASSUME NEW c \in HistoryRows'
               PROVE  /\ c.inc <= inc[c.node]
                      /\ c.inc = inc[c.node] =>
                           row'[c.node].present /\ c.ts <= row'[c.node].hist
    BY DEF ClaimsBounded
  <2>1. c \in HistoryRows /\ c.node \in Nodes /\ c.ts \in Nat
    BY HistoryRowsType DEF HistoryInv, HistoryRow
  <2>2. row[c.node].hist \in Nat /\ row'[c.node].hist \in Nat
    BY <2>1 DEF HistoryInv, TypeOK, Row
  <2>3. QED BY <2>1, <2>2 DEF HistoryInv, ClaimsBounded
<1>2. HistorySpaced'
  BY DEF HistoryInv, HistorySpaced
<1>3. QED BY <1>1, <1>2 DEF HistoryInv

LEMMA HistoryStep == HistoryInv /\ [Next]_vars => HistoryInv'
<1> SUFFICES ASSUME HistoryInv, [Next]_vars PROVE HistoryInv'
  OBVIOUS
<1>0. TypeOK /\ TypeOK'
  BY TypeStep DEF HistoryInv
<1> USE <1>0
<1>1. CASE \/ Tick \/ RotateShared \/ UNCHANGED vars
           \/ \E n \in Nodes : \/ Traffic(n) \/ InterfaceGone(n) \/ Reboot(n)
                             \/ Enroll(n) \/ DeleteToken(n) \/ EditOffline(n)
  <2>1. UNCHANGED <<req, row, history, inc>>
    BY <1>1 DEF Tick, RotateShared, Traffic, InterfaceGone, Reboot, Enroll, DeleteToken, EditOffline,
                vars
  <2>2. HistoryRows' = HistoryRows
    BY <2>1 DEF HistoryRows, Pending
  <2>3. QED BY <2>1, <2>2, NoNewClaim DEF TypeOK, Row
<1>2. ASSUME NEW n \in Nodes, DeleteNode(n) PROVE HistoryInv'
  <2>1. HistoryRows' \subseteq HistoryRows
    BY <1>2 DEF DeleteNode, HistoryRows, Pending
  <2>2. ClaimsBounded'
    <3> SUFFICES ASSUME NEW c \in HistoryRows'
                 PROVE  /\ c.inc <= inc'[c.node]
                        /\ c.inc = inc'[c.node] =>
                             row'[c.node].present /\ c.ts <= row'[c.node].hist
      BY DEF ClaimsBounded
    <3>1. c \in HistoryRows /\ c.node \in Nodes /\ c.inc \in Nat
      BY <2>1, HistoryRowsType DEF HistoryRow
    <3>2. c.inc <= inc[c.node] /\ inc[c.node] \in Nat
      BY <3>1 DEF HistoryInv, ClaimsBounded, TypeOK
    <3>3. CASE c.node = n
      BY <1>2, <3>1, <3>2, <3>3 DEF DeleteNode, TypeOK
    <3>4. CASE c.node # n
      BY <1>2, <3>1, <3>4 DEF DeleteNode, TypeOK, HistoryInv, ClaimsBounded
    <3>5. QED BY <3>3, <3>4
  <2>3. HistorySpaced'
    BY <2>1 DEF HistoryInv, HistorySpaced
  <2>4. QED BY <2>2, <2>3 DEF HistoryInv
<1>3. ASSUME NEW r \in Requests,
             \/ \E n \in Nodes : Send(n, r)
             \/ Authorize(r) \/ Stamp(r) \/ Bootstrap(r) \/ Abort(r)
      PROVE  HistoryInv'
  <2>1. /\ UNCHANGED <<row, history, inc>>
        /\ \A q \in Requests : req'[q].stage = "history" => req'[q] = req[q]
    <3>1. CASE \E n \in Nodes : Send(n, r)
      BY <3>1 DEF Send, TypeOK, Free
    <3>2. CASE Authorize(r)
      BY <3>2 DEF Authorize, TypeOK, Request
    <3>3. CASE Stamp(r)
      BY <3>3 DEF Stamp, TypeOK, Request
    <3>4. CASE Bootstrap(r)
      BY <3>4 DEF Bootstrap, TypeOK, Free
    <3>5. CASE Abort(r)
      BY <3>5 DEF Abort, TypeOK, Free
    <3>6. QED BY <1>3, <3>1, <3>2, <3>3, <3>4, <3>5
  <2>2. HistoryRows' \subseteq HistoryRows
    BY <2>1 DEF HistoryRows, Pending
  <2>3. QED BY <2>1, <2>2, NoNewClaim DEF TypeOK, Row
<1>4. ASSUME NEW r \in Requests, InsertRow(r) \/ UpdateRow(r) PROVE HistoryInv'
  <2>1. /\ UNCHANGED <<history, inc>>
        /\ \A q \in Requests : req'[q].stage = "history" => req'[q] = req[q]
    <3>1. UNCHANGED <<history, inc>> /\ req' = [req EXCEPT ![r] = Upserted(req[r])]
      BY <1>4 DEF InsertRow, UpdateRow
    <3>2. Upserted(req[r]).stage = "claim"
      BY DEF Upserted, Free
    <3>3. QED BY <3>1, <3>2 DEF TypeOK
  <2>2. HistoryRows' \subseteq HistoryRows
    BY <2>1 DEF HistoryRows, Pending
  <2>3. \A n \in Nodes : row[n].present => row'[n].present /\ row'[n].hist = row[n].hist
    <3> DEFINE m == req[r].node
    <3>1. m \in Nodes /\ row[m] \in Row
      BY DEF TypeOK, Request
    <3>2. CASE InsertRow(r)
      BY <3>1, <3>2 DEF InsertRow, TypeOK
    <3>3. CASE UpdateRow(r)
      <4>1. row'[m].present = row[m].present /\ row'[m].hist = row[m].hist
        BY <3>1, <3>3 DEF UpdateRow, TypeOK, Row
      <4>2. \A n \in Nodes \ {m} : row'[n] = row[n]
        BY <3>3 DEF UpdateRow, TypeOK
      <4>3. QED BY <4>1, <4>2
    <3>4. QED BY <1>4, <3>2, <3>3
  <2>4. QED BY <2>1, <2>2, <2>3, NoNewClaim DEF TypeOK, Row
<1>5. ASSUME NEW r \in Requests, InsertHistory(r) PROVE HistoryInv'
  <2>1. UNCHANGED <<row, inc>> /\ history' = history \cup {Pending(r)} /\ req[r].stage = "history"
    BY <1>5 DEF InsertHistory
  <2>2. \A q \in Requests : req'[q].stage = "history" => req'[q] = req[q]
    BY <1>5 DEF InsertHistory, TypeOK, Request
  <2>3. HistoryRows' \subseteq HistoryRows
    BY <2>1, <2>2 DEF HistoryRows, Pending
  <2>4. QED BY <2>1, <2>3, NoNewClaim DEF TypeOK, Row
<1>6. ASSUME NEW r \in Requests, ClaimHistory(r) PROVE HistoryInv'
  <2> DEFINE n == req[r].node
             c == [node |-> n, ts |-> req[r].now, inc |-> inc[n]]
  <2>1. UNCHANGED <<history, inc>>
    BY <1>6 DEF ClaimHistory
  <2>2. n \in Nodes /\ req[r].now \in Nat /\ row[n] \in Row /\ inc[n] \in Nat
    BY DEF TypeOK, Request
  <2>3. CASE ~(row[n].present /\ HistoryDue(req[r].now, row[n].hist))
    <3>1. row' = row
      BY <1>6, <2>3 DEF ClaimHistory
    <3>2. \A q \in Requests : req'[q].stage = "history" => req'[q] = req[q]
      BY <1>6, <2>3 DEF ClaimHistory, TypeOK, Request
    <3>3. HistoryRows' \subseteq HistoryRows
      BY <2>1, <3>2 DEF HistoryRows, Pending
    <3>4. QED BY <2>1, <3>1, <3>3, NoNewClaim DEF TypeOK, Row
  <2>4. CASE row[n].present /\ HistoryDue(req[r].now, row[n].hist)
    <3>1. row' = [row EXCEPT ![n] = [row[n] EXCEPT !.hist = req[r].now]]
      BY <1>6, <2>4 DEF ClaimHistory
    <3>2. row'[n].present /\ row'[n].hist = req[r].now /\ row[n].hist <= req[r].now
      BY <2>2, <2>4, <3>1, ConstantsAssumption DEF HistoryDue, Row, TypeOK
    <3>3. \A m \in Nodes \ {n} : row'[m] = row[m]
      BY <3>1 DEF TypeOK
    <3>4. \A q \in Requests : req'[q].stage = "history" =>
            \/ req'[q] = req[q]
            \/ q = r /\ Pending(q)' = c
      BY <1>6, <2>2, <2>4 DEF ClaimHistory, TypeOK, Request, Pending
    <3>5. HistoryRows' \subseteq HistoryRows \cup {c}
      BY <2>1, <3>4 DEF HistoryRows, Pending
    <3>6. \A g \in HistoryRows : g.node = n /\ g.inc = inc[n] => c.ts - g.ts >= HistoryInterval
      <4> SUFFICES ASSUME NEW g \in HistoryRows, g.node = n, g.inc = inc[n]
                   PROVE  req[r].now - g.ts >= HistoryInterval
        OBVIOUS
      <4>1. g.ts <= row[n].hist /\ g.ts \in Nat
        BY HistoryRowsType DEF HistoryInv, ClaimsBounded, HistoryRow
      <4>2. QED BY <2>2, <2>4, <4>1, ConstantsAssumption DEF HistoryDue, Row
    <3>7. HistorySpaced'
      <4> SUFFICES ASSUME NEW g \in HistoryRows \cup {c}, NEW h \in HistoryRows \cup {c},
                          g # h, g.node = h.node, g.inc = h.inc
                   PROVE  g.ts - h.ts >= HistoryInterval \/ h.ts - g.ts >= HistoryInterval
        BY <3>5 DEF HistorySpaced
      <4>1. CASE g \in HistoryRows /\ h \in HistoryRows
        BY <4>1 DEF HistoryInv, HistorySpaced
      <4>2. CASE g = c \/ h = c
        BY <3>6, <4>2
      <4>3. QED BY <4>1, <4>2
    <3>8. ClaimsBounded'
      <4> SUFFICES ASSUME NEW g \in HistoryRows \cup {c}
                   PROVE  /\ g.inc <= inc[g.node]
                          /\ g.inc = inc[g.node] =>
                               row'[g.node].present /\ g.ts <= row'[g.node].hist
        BY <2>1, <3>5 DEF ClaimsBounded
      <4>1. CASE g = c
        BY <2>2, <3>2, <4>1
      <4>2. CASE g \in HistoryRows
        <5>1. g.node \in Nodes /\ g.ts \in Nat /\ row[g.node].hist \in Nat
          BY <4>2, HistoryRowsType DEF HistoryRow, TypeOK, Row
        <5>2. row[g.node].present =>
                row'[g.node].present /\ row[g.node].hist <= row'[g.node].hist
          BY <2>2, <3>2, <3>3, <5>1
        <5>3. row'[g.node].hist \in Nat
          BY <5>1 DEF TypeOK, Row
        <5>4. QED BY <4>2, <5>1, <5>2, <5>3 DEF HistoryInv, ClaimsBounded
      <4>3. QED BY <4>1, <4>2
    <3>9. QED BY <3>7, <3>8 DEF HistoryInv
  <2>5. QED BY <2>3, <2>4
<1>7. QED BY <1>1, <1>2, <1>3, <1>4, <1>5, <1>6 DEF Next

\* However reports and deletions interleave, history rows of one life of a
\* node are HistoryInterval apart.
THEOREM HistoryIsSpaced == Spec => []HistorySpaced
<1>1. Init => HistoryInv
  <2>1. Init => HistoryRows = {}
    BY DEF Init, HistoryRows, Free
  <2>2. Init => TypeOK
    BY ConstantsAssumption DEF Init, TypeOK, Agent, Request, Row, HistoryRow, Free, NoRow, Stages
  <2>3. QED BY <2>1, <2>2 DEF HistoryInv, ClaimsBounded, HistorySpaced
<1>2. HistoryInv => HistorySpaced
  BY DEF HistoryInv
<1>3. QED BY <1>1, <1>2, HistoryStep, PTL DEF Spec

-----------------------------------------------------------------------------
(***************************************************************************)
(* Deletion.  An agent that is let in was entitled to it.  While a node's  *)
(* last deletion met no report in progress, an admitted handler implies as *)
(* much, and one past its upsert implies the row: so nothing it writes can *)
(* outlive the row.                                                        *)
(***************************************************************************)
PastUpsert == {"claim", "history", "bootstrap"}

HandlersCovered(n) ==
  \A r \in InProgress(n) :
    entitled[n] /\ (req[r].stage \in PastUpsert => row[n].present)

NodeSettled(n) ==
  /\ HandlersCovered(n)
  /\ row[n].present => entitled[n]
  /\ n \in offline => row[n].present \/ edited[n]
  /\ \A h \in history : h.node = n => row[n].present

Entitled == \A n \in Nodes : token[n] # "none" => entitled[n]

DeletionInv == TypeOK /\ Entitled /\ \A n \in Nodes : ~raced[n] => NodeSettled(n)

LEMMA EntitledStep == TypeOK /\ Entitled /\ [Next]_vars => Entitled'
<1> SUFFICES ASSUME TypeOK, Entitled, [Next]_vars PROVE Entitled'
  OBVIOUS
<1> USE DEF TypeOK, Entitled
<1>1. ASSUME NEW n \in Nodes, Enroll(n) PROVE Entitled'
  BY <1>1 DEF Enroll
<1>2. ASSUME NEW n \in Nodes, DeleteToken(n) PROVE Entitled'
  BY <1>2 DEF DeleteToken, ghosts
<1>3. ASSUME NEW n \in Nodes, DeleteNode(n) PROVE Entitled'
  BY <1>3 DEF DeleteNode
<1>4. CASE RotateShared
  BY <1>4 DEF RotateShared, ghosts
<1>5. CASE UNCHANGED <<token, entitled>>
  BY <1>5
<1>6. QED
  BY <1>1, <1>2, <1>3, <1>4, <1>5 DEF Next, vars, ghosts, Tick, Traffic, InterfaceGone, Reboot,
     EditOffline, Send, Authorize, Stamp, InsertRow, UpdateRow, ClaimHistory, InsertHistory,
     Bootstrap, Abort

LEMMA DeletionStep == DeletionInv /\ [Next]_vars => DeletionInv'
<1> SUFFICES ASSUME DeletionInv, [Next]_vars PROVE DeletionInv'
  OBVIOUS
<1>0. TypeOK /\ TypeOK' /\ Entitled /\ Entitled'
  BY TypeStep, EntitledStep DEF DeletionInv
<1> SUFFICES ASSUME NEW n \in Nodes, ~raced'[n] PROVE NodeSettled(n)'
  BY <1>0 DEF DeletionInv
<1> USE <1>0 DEF NodeSettled, HandlersCovered, InProgress, Admitted, PastUpsert, Stages
<1>1. CASE \/ Tick \/ RotateShared \/ UNCHANGED vars
           \/ \E m \in Nodes : Traffic(m) \/ InterfaceGone(m) \/ Reboot(m) \/ DeleteToken(m)
  <2>1. UNCHANGED <<req, row, history, offline, raced, entitled, edited>>
    BY <1>1 DEF Tick, RotateShared, Traffic, InterfaceGone, Reboot, DeleteToken, vars, ghosts
  <2>2. QED BY <2>1 DEF DeletionInv
<1>2. ASSUME NEW m \in Nodes, Enroll(m) PROVE NodeSettled(n)'
  BY <1>2 DEF Enroll, DeletionInv, TypeOK
<1>13. ASSUME NEW m \in Nodes, EditOffline(m) PROVE NodeSettled(n)'
  <2>1. /\ UNCHANGED <<req, row, history, raced, entitled>>
        /\ offline' = offline \cup {m}
        /\ edited' = [edited EXCEPT ![m] = @ \/ ~row[m].present]
    BY <1>13 DEF EditOffline
  <2>2. edited[n] => edited'[n]
    BY <2>1 DEF TypeOK
  <2>3. n = m => row[n].present \/ edited'[n]
    BY <2>1 DEF TypeOK
  <2>4. n \in offline' => row'[n].present \/ edited'[n]
    BY <2>1, <2>2, <2>3 DEF DeletionInv
  <2>5. QED BY <2>1, <2>4 DEF DeletionInv
<1>3. ASSUME NEW m \in Nodes, DeleteNode(m) PROVE NodeSettled(n)'
  <2>1. CASE m = n
    <3>1. InProgress(n) = {} /\ UNCHANGED req
      BY <1>3, <2>1 DEF DeleteNode, TypeOK
    <3>2. ~row'[n].present /\ n \notin offline' /\ \A h \in history' : h.node # n
      BY <1>3, <2>1 DEF DeleteNode, TypeOK, NoRow
    <3>3. QED BY <3>1, <3>2
  <2>2. CASE m # n
    <3>1. /\ raced'[n] = raced[n] /\ entitled'[n] = entitled[n] /\ edited'[n] = edited[n]
          /\ row'[n] = row[n]
          /\ UNCHANGED req
          /\ offline' \subseteq offline /\ history' \subseteq history
      BY <1>3, <2>2 DEF DeleteNode, TypeOK
    <3>2. QED BY <3>1 DEF DeletionInv
  <2>3. QED BY <2>1, <2>2
<1>4. ASSUME NEW m \in Nodes, NEW r \in Requests, Send(m, r) PROVE NodeSettled(n)'
  <2>1. /\ UNCHANGED <<row, history, offline, raced, entitled, edited>>
        /\ req'[r].stage = "auth"
        /\ \A q \in Requests \ {r} : req'[q] = req[q]
    BY <1>4 DEF Send, TypeOK, ghosts, Free
  <2>2. QED BY <2>1 DEF DeletionInv
<1>5. ASSUME NEW r \in Requests, Authorize(r) PROVE NodeSettled(n)'
  <2>1. /\ UNCHANGED <<row, history, offline, raced, entitled, edited>>
        /\ req'[r].node = req[r].node
        /\ req'[r].stage = "free" \/ (req'[r].stage = "save" /\ entitled[req[r].node])
        /\ \A q \in Requests \ {r} : req'[q] = req[q]
    <3>1. req[r].node \in Nodes
      BY DEF TypeOK, Request
    <3>2. QED BY <1>5, <3>1 DEF Authorize, TypeOK, Request, Entitled, ghosts
  <2>2. QED BY <2>1 DEF DeletionInv
<1>6. ASSUME NEW r \in Requests, Stamp(r) PROVE NodeSettled(n)'
  <2>1. /\ UNCHANGED <<row, history, offline, raced, entitled, edited>>
        /\ req[r].stage = "save" /\ req'[r].stage = "upsert" /\ req'[r].node = req[r].node
        /\ \A q \in Requests \ {r} : req'[q] = req[q]
    BY <1>6 DEF Stamp, TypeOK, ghosts, Request
  <2>2. QED BY <2>1 DEF DeletionInv
<1>7. ASSUME NEW r \in Requests, InsertRow(r) \/ UpdateRow(r) PROVE NodeSettled(n)'
  <2>1. req[r].node \in Nodes /\ row[req[r].node] \in Row
    BY DEF TypeOK, Request
  <2>2. /\ UNCHANGED <<history, offline, raced, entitled, edited>>
        /\ req[r].stage = "upsert" /\ req'[r].stage = "claim" /\ req'[r].node = req[r].node
        /\ \A q \in Requests \ {r} : req'[q] = req[q]
    <3>1. /\ UNCHANGED <<history, offline, raced, entitled, edited>>
          /\ req[r].stage = "upsert" /\ req' = [req EXCEPT ![r] = Upserted(req[r])]
      BY <1>7 DEF InsertRow, UpdateRow, ghosts
    <3>2. Upserted(req[r]).stage = "claim" /\ Upserted(req[r]).node = req[r].node
      BY DEF Upserted, Free
    <3>3. QED BY <3>1, <3>2 DEF TypeOK
  <2>3. row'[req[r].node].present
    <3>1. CASE InsertRow(r)
      BY <2>1, <3>1 DEF InsertRow, TypeOK, NoRow
    <3>2. CASE UpdateRow(r)
      BY <2>1, <3>2 DEF UpdateRow, TypeOK, Row
    <3>3. QED BY <1>7, <3>1, <3>2
  <2>4. \A m \in Nodes \ {req[r].node} : row'[m] = row[m]
    BY <1>7 DEF InsertRow, UpdateRow, TypeOK
  <2>5. QED BY <2>1, <2>2, <2>3, <2>4 DEF DeletionInv
<1>8. ASSUME NEW r \in Requests, ClaimHistory(r) PROVE NodeSettled(n)'
  <2>1. /\ UNCHANGED <<history, offline, raced, entitled, edited>>
        /\ req[r].stage = "claim" /\ req'[r].stage \in PastUpsert /\ req'[r].node = req[r].node
        /\ \A q \in Requests \ {r} : req'[q] = req[q]
    BY <1>8 DEF ClaimHistory, TypeOK, Request, ghosts
  <2>2. \A m \in Nodes : row'[m].present = row[m].present
    BY <1>8 DEF ClaimHistory, TypeOK, Row
  <2>3. QED BY <2>1, <2>2 DEF DeletionInv
<1>9. ASSUME NEW r \in Requests, InsertHistory(r) PROVE NodeSettled(n)'
  <2>1. /\ UNCHANGED <<row, offline, raced, entitled, edited>>
        /\ req[r].stage = "history" /\ req'[r].stage = "bootstrap" /\ req'[r].node = req[r].node
        /\ \A q \in Requests \ {r} : req'[q] = req[q]
    BY <1>9 DEF InsertHistory, TypeOK, ghosts, Request
  <2>2. history' = history \cup {Pending(r)} /\ Pending(r).node = req[r].node
    BY <1>9 DEF InsertHistory, Pending
  <2>3. QED BY <2>1, <2>2 DEF DeletionInv
<1>10. ASSUME NEW r \in Requests, Bootstrap(r) PROVE NodeSettled(n)'
  <2>1. /\ UNCHANGED <<row, history, raced, entitled, edited>>
        /\ offline' = offline \cup {req[r].node}
        /\ req[r].stage = "bootstrap" /\ req'[r].stage = "free"
        /\ \A q \in Requests \ {r} : req'[q] = req[q]
    BY <1>10 DEF Bootstrap, TypeOK, ghosts, Free
  <2>2. QED BY <2>1 DEF DeletionInv
<1>11. ASSUME NEW r \in Requests, Abort(r) PROVE NodeSettled(n)'
  <2>1. /\ UNCHANGED <<row, history, offline, raced, entitled, edited>>
        /\ req'[r].stage = "free"
        /\ \A q \in Requests \ {r} : req'[q] = req[q]
    BY <1>11 DEF Abort, TypeOK, ghosts, Free
  <2>2. QED BY <2>1 DEF DeletionInv
<1>12. QED
  BY <1>1, <1>2, <1>3, <1>4, <1>5, <1>6, <1>7, <1>8, <1>9, <1>10, <1>11, <1>13 DEF Next

\* After a deletion that met no report in progress a node has a row again only
\* if it was enrolled since or kept the shared token (deleteNode,
\* authorizeReport), and nothing of it outlives that row but an offline setting
\* saved without one.
THEOREM DeletionIsFinal == Spec => []DeletionSticks
<1>1. Init => DeletionInv
  <2>1. Init => TypeOK
    BY ConstantsAssumption DEF Init, TypeOK, Agent, Request, Row, HistoryRow, Free, NoRow, Stages
  <2>2. Init => Entitled
    BY DEF Init, Entitled
  <2>3. ASSUME Init, NEW n \in Nodes PROVE NodeSettled(n)
    BY <2>3 DEF Init, NodeSettled, HandlersCovered, InProgress, Admitted, NoRow, Free
  <2>4. QED BY <2>1, <2>2, <2>3 DEF DeletionInv
<1>2. DeletionInv => DeletionSticks
  BY DEF DeletionInv, DeletionSticks, NodeSettled
<1>3. QED BY <1>1, <1>2, DeletionStep, PTL DEF Spec

-----------------------------------------------------------------------------
(***************************************************************************)
(* Lifetime traffic.  A sample is what a report says of the machine; the   *)
(* row keeps the last one applied.  Two samples of one boot agree on what  *)
(* earlier boots sent and on the boot time up to Slack, and a sample of an *)
(* earlier boot is covered by what a later one counts as already sent.     *)
(* Hence a bank is made only when the boots differ, and what it banks the  *)
(* later boot's base already contains.                                     *)
(***************************************************************************)
Sample(e, b, v, t) == [epoch |-> e, base |-> b, raw |-> v, boot |-> t]

Carrying == {"auth", "save", "upsert"}

ReportSample(r) == Sample(req[r].epoch, req[r].base, req[r].raw, req[r].boot)
RowSample(n) == Sample(row[n].epoch, row[n].base, row[n].last, row[n].boot)

Samples(n) ==
  {ReportSample(r) : r \in {q \in Requests : req[q].stage \in Carrying /\ req[q].node = n}}
    \cup {s \in {RowSample(n)} : row[n].present}

\* What sample s may say, given the machine a it was taken from.
Truthful(s, a) ==
  /\ s.epoch <= a.epoch
  /\ s.epoch = a.epoch => /\ s.base = a.base /\ s.raw <= a.peak
                          /\ s.boot > 0 => a.boot <= s.boot /\ s.boot <= a.boot + Slack
  /\ s.epoch < a.epoch => s.base + s.raw <= a.base

Consistent(s, t) ==
  /\ s.epoch = t.epoch => /\ s.base = t.base
                          /\ s.boot > 0 /\ t.boot > 0 => t.boot <= s.boot + Slack
  /\ s.epoch < t.epoch => s.base + s.raw <= t.base

SamplesAgree(n) ==
  /\ agent[n].raw <= agent[n].peak
  /\ \A s \in Samples(n) : Truthful(s, agent[n])
  /\ \A s, t \in Samples(n) : Consistent(s, t)

BankCovered(n) ==
  /\ row[n].present /\ ~row[n].late => row[n].off <= row[n].base
  /\ ~row[n].present => row[n] = NoRow

TrafficInv == TypeOK /\ \A n \in Nodes : SamplesAgree(n) /\ BankCovered(n)

LEMMA TrafficImplies == TrafficInv => NeverInflated
<1> SUFFICES ASSUME TrafficInv, NEW n \in Nodes, ~row[n].late
             PROVE  StoredTotal(n) <= Lifetime(n)
  BY DEF NeverInflated
<1>1. row[n] \in Row /\ agent[n] \in Agent
  BY DEF TrafficInv, TypeOK
<1>2. CASE ~row[n].present
  BY <1>1, <1>2 DEF TrafficInv, BankCovered, NoRow, StoredTotal, Lifetime, Agent
<1>3. CASE row[n].present
  <2>1. RowSample(n) \in Samples(n)
    BY <1>3 DEF Samples
  <2>2. Truthful(RowSample(n), agent[n])
    BY <2>1 DEF TrafficInv, SamplesAgree
  <2>3. row[n].off <= row[n].base
    BY <1>3 DEF TrafficInv, BankCovered
  <2>4. row[n].base + row[n].last <= agent[n].base + agent[n].peak
    <3> DEFINE a == agent[n]
    <3>1. /\ row[n].epoch <= a.epoch
          /\ row[n].epoch = a.epoch => row[n].base = a.base /\ row[n].last <= a.peak
          /\ row[n].epoch < a.epoch => row[n].base + row[n].last <= a.base
      BY <2>2 DEF Truthful, RowSample, Sample
    <3>2. CASE row[n].epoch = a.epoch
      BY <1>1, <3>1, <3>2 DEF Row, Agent
    <3>3. CASE row[n].epoch < a.epoch
      BY <1>1, <3>1, <3>3 DEF Row, Agent
    <3>4. QED BY <1>1, <3>1, <3>2, <3>3, SMTT(60) DEF Row, Agent
  <2>5. QED BY <1>1, <2>3, <2>4 DEF StoredTotal, Lifetime, Row, Agent
<1>4. QED BY <1>2, <1>3

LEMMA SamplesType ==
  ASSUME TypeOK, NEW n \in Nodes
  PROVE  Samples(n) \subseteq [epoch : Nat, base : Nat, raw : Nat, boot : Nat]
  BY DEF TypeOK, Samples, Sample, ReportSample, RowSample, Request, Row

\* A step that takes no new sample and leaves the machine as it is.
LEMMA NoNewSample ==
  ASSUME TrafficInv, TypeOK', NEW n \in Nodes, agent'[n] = agent[n],
         Samples(n)' \subseteq Samples(n)
  PROVE  SamplesAgree(n)'
  BY DEF TrafficInv, SamplesAgree

LEMMA TrafficStep == TrafficInv /\ [Next]_vars => TrafficInv'
<1> SUFFICES ASSUME TrafficInv, [Next]_vars PROVE TrafficInv'
  OBVIOUS
<1>0. TypeOK /\ TypeOK'
  BY TypeStep DEF TrafficInv
<1> SUFFICES ASSUME NEW n \in Nodes PROVE SamplesAgree(n)' /\ BankCovered(n)'
  BY <1>0 DEF TrafficInv
<1>a. SamplesAgree(n) /\ BankCovered(n)
  BY DEF TrafficInv
<1>b. agent[n] \in Agent /\ row[n] \in Row
  BY <1>0 DEF TypeOK
<1>1. CASE \/ Tick \/ RotateShared \/ UNCHANGED vars
           \/ \E m \in Nodes : Enroll(m) \/ DeleteToken(m) \/ EditOffline(m)
  <2>1. UNCHANGED <<agent, req, row>>
    BY <1>1 DEF Tick, RotateShared, Enroll, DeleteToken, EditOffline, vars
  <2>2. Samples(n)' = Samples(n)
    BY <2>1 DEF Samples, ReportSample, RowSample
  <2>3. QED BY <1>0, <1>a, <2>1, <2>2, NoNewSample DEF BankCovered
<1>2. ASSUME NEW m \in Nodes, Traffic(m) \/ InterfaceGone(m) PROVE SamplesAgree(n)' /\ BankCovered(n)'
  <2>1. UNCHANGED <<req, row>>
    BY <1>2 DEF Traffic, InterfaceGone
  <2>2. Samples(n)' = Samples(n)
    BY <2>1 DEF Samples, ReportSample, RowSample
  <2>3. /\ agent'[n].epoch = agent[n].epoch /\ agent'[n].base = agent[n].base
        /\ agent'[n].boot = agent[n].boot
        /\ agent'[n].peak >= agent[n].peak /\ agent'[n].raw <= agent'[n].peak
    <3>1. CASE m # n
      BY <1>2, <1>0, <1>a, <1>b, <3>1 DEF Traffic, InterfaceGone, TypeOK, SamplesAgree, Agent
    <3>2. CASE m = n /\ Traffic(m)
      <4> DEFINE p == IF agent[n].peak > agent[n].raw THEN agent[n].peak ELSE agent[n].raw + 1
      <4>1. agent'[n] = [agent[n] EXCEPT !.raw = agent[n].raw + 1, !.peak = p]
        BY <1>0, <3>2 DEF Traffic, TypeOK
      <4>2. p >= agent[n].peak /\ p >= agent[n].raw + 1
        BY <1>a, <1>b DEF SamplesAgree, Agent
      <4>3. QED BY <1>b, <4>1, <4>2 DEF Agent
    <3>3. CASE m = n /\ InterfaceGone(m)
      <4>1. PICK v \in 0..agent[n].raw : v < agent[n].raw /\ agent' = [agent EXCEPT ![n].raw = v]
        BY <3>3 DEF InterfaceGone
      <4>2. agent'[n] = [agent[n] EXCEPT !.raw = v]
        BY <1>0, <4>1 DEF TypeOK
      <4>3. QED BY <1>a, <1>b, <4>1, <4>2 DEF SamplesAgree, Agent
    <3>4. QED BY <1>2, <3>1, <3>2, <3>3
  <2>4. ASSUME NEW s \in Samples(n) PROVE Truthful(s, agent[n])'
    <3>1. s.raw \in Nat /\ agent'[n] \in Agent /\ Truthful(s, agent[n])
      BY <1>0, <1>a, SamplesType DEF TypeOK, SamplesAgree
    <3>2. QED BY <1>b, <2>3, <3>1 DEF Truthful, Agent
  <2>5. SamplesAgree(n)'
    BY <1>a, <2>2, <2>3, <2>4 DEF SamplesAgree
  <2>6. QED BY <1>a, <2>1, <2>5 DEF BankCovered
<1>3. ASSUME NEW m \in Nodes, Reboot(m) PROVE SamplesAgree(n)' /\ BankCovered(n)'
  <2>1. UNCHANGED <<req, row>>
    BY <1>3 DEF Reboot
  <2>2. Samples(n)' = Samples(n)
    BY <2>1 DEF Samples, ReportSample, RowSample
  <2>3. CASE m # n
    <3>1. agent'[n] = agent[n]
      BY <1>0, <1>3, <2>3 DEF Reboot, TypeOK
    <3>2. QED BY <1>0, <1>a, <2>1, <2>2, <3>1, NoNewSample DEF BankCovered
  <2>4. CASE m = n
    <3>1. /\ agent'[n].epoch = agent[n].epoch + 1 /\ agent'[n].raw = 0 /\ agent'[n].peak = 0
          /\ agent'[n].base = agent[n].base + agent[n].peak
      BY <1>0, <1>3, <2>4 DEF Reboot, TypeOK
    <3>2. ASSUME NEW s \in Samples(n) PROVE Truthful(s, agent[n])'
      <4>1. s \in [epoch : Nat, base : Nat, raw : Nat, boot : Nat] /\ Truthful(s, agent[n])
        BY <1>0, <1>a, SamplesType DEF SamplesAgree
      <4>2. s.epoch < agent'[n].epoch /\ s.base + s.raw <= agent'[n].base
        <5> DEFINE a == agent[n]
        <5>1. a.epoch \in Nat /\ a.base \in Nat /\ a.peak \in Nat
          BY <1>b DEF Agent
        <5>2. s.epoch \in Nat /\ s.base \in Nat /\ s.raw \in Nat /\ s.epoch <= a.epoch
          BY <4>1 DEF Truthful
        <5>3. s.base + s.raw <= a.base + a.peak
          <6>1. CASE s.epoch = a.epoch
            BY <4>1, <5>1, <5>2, <6>1 DEF Truthful
          <6>2. CASE s.epoch < a.epoch
            BY <4>1, <5>1, <5>2, <6>2 DEF Truthful
          <6>3. QED BY <5>1, <5>2, <6>1, <6>2
        <5>4. QED BY <3>1, <5>1, <5>2, <5>3
      <4>3. QED BY <1>b, <3>1, <4>1, <4>2 DEF Truthful, Agent
    <3>3. SamplesAgree(n)'
      BY <1>a, <2>2, <3>1, <3>2 DEF SamplesAgree
    <3>4. QED BY <1>a, <2>1, <3>3 DEF BankCovered
  <2>5. QED BY <2>3, <2>4
<1>4. ASSUME NEW m \in Nodes, DeleteNode(m) PROVE SamplesAgree(n)' /\ BankCovered(n)'
  <2>1. UNCHANGED <<agent, req>>
    BY <1>4 DEF DeleteNode
  <2>2. row'[n] = row[n] \/ row'[n] = NoRow
    BY <1>0, <1>4 DEF DeleteNode, TypeOK
  <2>3. Samples(n)' \subseteq Samples(n)
    BY <2>1, <2>2 DEF Samples, ReportSample, RowSample, NoRow
  <2>4. BankCovered(n)'
    BY <1>a, <2>2 DEF BankCovered, NoRow
  <2>5. QED BY <1>0, <2>1, <2>3, <2>4, NoNewSample
<1>5. ASSUME NEW m \in Nodes, NEW r \in Requests, Send(m, r)
      PROVE  SamplesAgree(n)' /\ BankCovered(n)'
  <2>1. UNCHANGED <<agent, row>>
    BY <1>5 DEF Send
  <2>2. PICK b \in {0} \cup agent[m].boot..(agent[m].boot + Slack) :
          req' = [req EXCEPT ![r] = [Free(m) EXCEPT !.stage = "auth", !.boot = b,
                    !.raw = agent[m].raw, !.epoch = agent[m].epoch, !.base = agent[m].base]]
    BY <1>5 DEF Send
  <2> DEFINE new == Sample(agent[n].epoch, agent[n].base, agent[n].raw, b)
  <2>3. /\ \A q \in Requests \ {r} : req'[q] = req[q]
        /\ req'[r].node = m /\ req'[r].boot = b /\ req'[r].raw = agent[m].raw
        /\ req'[r].epoch = agent[m].epoch /\ req'[r].base = agent[m].base
    BY <1>0, <2>2 DEF TypeOK, Free
  <2>4. CASE m # n
    <3>1. Samples(n)' \subseteq Samples(n)
      BY <2>1, <2>3, <2>4 DEF Samples, ReportSample, RowSample
    <3>2. QED BY <1>0, <1>a, <2>1, <3>1, NoNewSample DEF BankCovered
  <2>5. CASE m = n
    <3>1. Samples(n)' \subseteq Samples(n) \cup {new}
      BY <2>1, <2>3, <2>5 DEF Samples, ReportSample, RowSample, Sample
    <3>2. /\ b \in Nat
          /\ b > 0 => agent[n].boot <= b /\ b <= agent[n].boot + Slack
      BY <1>b, <2>5, ConstantsAssumption DEF Agent
    <3>3. Truthful(new, agent[n])
      BY <1>a, <1>b, <3>2 DEF Truthful, Sample, SamplesAgree, Agent
    <3>4. ASSUME NEW s \in Samples(n) PROVE Consistent(s, new) /\ Consistent(new, s)
      <4>1. s \in [epoch : Nat, base : Nat, raw : Nat, boot : Nat] /\ Truthful(s, agent[n])
        BY <1>0, <1>a, SamplesType DEF SamplesAgree
      <4>2. QED
        BY <1>b, <3>2, <4>1, ConstantsAssumption DEF Consistent, Truthful, Sample, Agent
    <3>5. Consistent(new, new)
      BY <1>b, <3>2, ConstantsAssumption DEF Consistent, Sample, Agent
    <3>6. SamplesAgree(n)'
      BY <1>a, <2>1, <3>1, <3>3, <3>4, <3>5 DEF SamplesAgree
    <3>7. QED BY <1>a, <2>1, <3>6 DEF BankCovered
  <2>6. QED BY <2>4, <2>5
<1>6. ASSUME NEW r \in Requests,
             \/ Authorize(r) \/ Stamp(r) \/ InsertHistory(r) \/ Bootstrap(r) \/ Abort(r)
      PROVE  SamplesAgree(n)' /\ BankCovered(n)'
  <2>1. /\ UNCHANGED <<agent, row>>
        /\ \A q \in Requests \ {r} : req'[q] = req[q]
    BY <1>0, <1>6 DEF Authorize, Stamp, InsertHistory, Bootstrap, Abort, TypeOK
  <2>2. req'[r].stage \in Carrying =>
          /\ req[r].stage \in Carrying
          /\ req'[r].node = req[r].node /\ ReportSample(r)' = ReportSample(r)
    <3>1. CASE Authorize(r)
      BY <1>0, <3>1 DEF Authorize, Carrying, ReportSample, TypeOK, Request
    <3>2. CASE Stamp(r)
      BY <1>0, <3>2 DEF Stamp, Carrying, ReportSample, TypeOK, Request
    <3>3. CASE InsertHistory(r)
      BY <1>0, <3>3 DEF InsertHistory, Carrying, TypeOK, Request
    <3>4. CASE Bootstrap(r)
      BY <1>0, <3>4 DEF Bootstrap, Carrying, TypeOK, Free
    <3>5. CASE Abort(r)
      BY <1>0, <3>5 DEF Abort, Carrying, TypeOK, Free
    <3>6. QED BY <1>6, <3>1, <3>2, <3>3, <3>4, <3>5
  <2>3. Samples(n)' \subseteq Samples(n)
    BY <2>1, <2>2 DEF Samples, ReportSample, RowSample
  <2>4. QED BY <1>0, <1>a, <2>1, <2>3, NoNewSample DEF BankCovered
<1>7. ASSUME NEW r \in Requests, ClaimHistory(r) PROVE SamplesAgree(n)' /\ BankCovered(n)'
  <2>1. /\ UNCHANGED agent
        /\ \A q \in Requests \ {r} : req'[q] = req[q]
        /\ req'[r].stage \notin Carrying
    BY <1>0, <1>7 DEF ClaimHistory, TypeOK, Carrying, Request
  <2>2. \/ row'[n] = row[n]
        \/ row[n].present /\ row'[n] = [row[n] EXCEPT !.hist = req[r].now]
    BY <1>0, <1>7 DEF ClaimHistory, TypeOK
  <2>3. Samples(n)' \subseteq Samples(n) /\ BankCovered(n)'
    <3>1. CASE row'[n] = row[n]
      BY <1>a, <2>1, <3>1 DEF Samples, ReportSample, RowSample, BankCovered
    <3>2. CASE row[n].present /\ row'[n] = [row[n] EXCEPT !.hist = req[r].now]
      <4>1. /\ RowSample(n)' = RowSample(n) /\ row'[n].present /\ row'[n].late = row[n].late
            /\ row'[n].off = row[n].off /\ row'[n].base = row[n].base
        BY <1>b, <3>2 DEF RowSample, Row
      <4>2. QED BY <1>a, <2>1, <3>2, <4>1 DEF Samples, ReportSample, BankCovered
    <3>3. QED BY <2>2, <3>1, <3>2
  <2>4. QED BY <1>0, <2>1, <2>3, NoNewSample
<1>8. ASSUME NEW r \in Requests, InsertRow(r) \/ UpdateRow(r)
      PROVE  SamplesAgree(n)' /\ BankCovered(n)'
  <2> DEFINE q == req[r]
  <2>1. /\ UNCHANGED agent /\ q.stage = "upsert" /\ q \in Request
        /\ req' = [req EXCEPT ![r] = Upserted(q)]
    BY <1>0, <1>8 DEF InsertRow, UpdateRow, TypeOK
  <2>2. /\ \A p \in Requests \ {r} : req'[p] = req[p]
        /\ req'[r].stage \notin Carrying
    BY <1>0, <2>1 DEF TypeOK, Upserted, Free, Carrying
  <2>3. CASE q.node # n
    <3>1. row'[n] = row[n]
      BY <1>0, <1>8, <2>3 DEF InsertRow, UpdateRow, TypeOK
    <3>2. Samples(n)' \subseteq Samples(n)
      BY <2>2, <3>1 DEF Samples, ReportSample, RowSample
    <3>3. QED BY <1>0, <1>a, <2>1, <3>1, <3>2, NoNewSample DEF BankCovered
  <2>4. CASE q.node = n
    <3>1. ReportSample(r) \in Samples(n)
      BY <2>1, <2>4 DEF Samples, Carrying
    <3>2. row'[n].present /\ RowSample(n)' = ReportSample(r)
      <4>1. CASE InsertRow(r)
        BY <1>0, <2>4, <4>1 DEF InsertRow, TypeOK, NoRow, RowSample, ReportSample, Sample
      <4>2. CASE UpdateRow(r)
        BY <1>0, <1>b, <2>4, <4>2 DEF UpdateRow, TypeOK, Row, RowSample, ReportSample, Sample
      <4>3. QED BY <1>8, <4>1, <4>2
    <3>3. Samples(n)' \subseteq Samples(n)
      BY <2>2, <3>1, <3>2 DEF Samples, ReportSample
    <3>4. BankCovered(n)'
      <4>1. CASE InsertRow(r)
        BY <1>0, <2>1, <2>4, <4>1 DEF InsertRow, TypeOK, NoRow, BankCovered, Request
      <4>2. CASE UpdateRow(r)
        <5> DEFINE o == row[n]
                   banked == IF Rebooted(o.boot, q.boot) THEN o.last ELSE 0
        <5>1. o.present
          BY <2>4, <4>2 DEF UpdateRow
        <5>2. /\ row'[n].off = o.off + banked /\ row'[n].base = q.base
              /\ row'[n].late = (o.late \/ q.epoch < o.epoch)
          BY <1>0, <1>b, <2>4, <4>2 DEF UpdateRow, TypeOK, Row
        <5>3. Consistent(RowSample(n), ReportSample(r))
          BY <1>a, <3>1, <5>1 DEF SamplesAgree, Samples
        <5>4. ASSUME ~row'[n].late PROVE row'[n].off <= row'[n].base
          <6>1. o.off <= o.base /\ o.epoch <= q.epoch
            BY <1>a, <1>b, <2>1, <5>1, <5>2, <5>4 DEF BankCovered, Row, Request
          <6>2. CASE o.epoch = q.epoch
            <7>1. ~Rebooted(o.boot, q.boot) /\ q.base = o.base
              BY <1>b, <2>1, <5>3, <6>2, ConstantsAssumption
                 DEF Consistent, RowSample, ReportSample, Sample, Rebooted, Row, Request
            <7>2. QED BY <1>b, <5>2, <6>1, <7>1 DEF Row
          <6>3. CASE o.epoch < q.epoch
            <7>1. o.base + o.last <= q.base
              BY <5>3, <6>3 DEF Consistent, RowSample, ReportSample, Sample
            <7>2. banked <= o.last /\ banked \in Nat
              BY <1>b DEF Row
            <7>3. QED BY <1>b, <2>1, <5>2, <6>1, <7>1, <7>2 DEF Row, Request
          <6>4. QED BY <1>b, <2>1, <6>1, <6>2, <6>3 DEF Row, Request
        <5>5. QED BY <3>2, <5>4 DEF BankCovered
      <4>3. QED BY <1>8, <4>1, <4>2
    <3>5. QED BY <1>0, <2>1, <3>3, <3>4, NoNewSample
  <2>5. QED BY <2>3, <2>4
<1>9. QED
  BY <1>1, <1>2, <1>3, <1>4, <1>5, <1>6, <1>7, <1>8 DEF Next

\* The stored lifetime total never exceeds what the node sent, unless a report
\* of an earlier boot was applied after one of a later boot.
THEOREM TrafficNeverInflated == Spec => []NeverInflated
<1>1. Init => TrafficInv
  <2>1. Init => TypeOK
    BY ConstantsAssumption DEF Init, TypeOK, Agent, Request, Row, HistoryRow, Free, NoRow, Stages
  <2>2. ASSUME Init, NEW n \in Nodes PROVE SamplesAgree(n) /\ BankCovered(n)
    <3>1. Samples(n) = {}
      BY <2>2 DEF Init, Samples, NoRow, Free, Carrying
    <3>2. QED BY <2>2, <3>1 DEF Init, SamplesAgree, BankCovered, NoRow
  <2>3. QED BY <2>1, <2>2 DEF TrafficInv
<1>2. QED BY <1>1, TrafficImplies, TrafficStep, PTL DEF Spec
=============================================================================
