---------------------------- MODULE LoadAlerts ----------------------------
(***************************************************************************)
(* evaluateLoadAlerts: an evaluation that has read the nodes lists the     *)
(* rules and, rule by rule, aggregates the metrics history, reads the      *)
(* rule's alert_state rows, sends the pages (alert, reminder, recovery),   *)
(* and writes all of the rule's states back in one upsert.  A query that   *)
(* throws gives up the rule, not the evaluation.  Evaluations can overlap; *)
(* rules and nodes are edited and deleted meanwhile, and a page can be out *)
(* whose state is then never written.                                      *)
(*                                                                         *)
(* hot stands for the aggregate over the rule's window: at least two       *)
(* samples, of which the rule's ratio reached the threshold.               *)
(***************************************************************************)
EXTENDS Integers, Sequences, FiniteSets

CONSTANTS
  Rules, Nodes,
  Broken,      \* rules whose aggregate query throws every time
  Evaluators,  \* evaluations that can be in progress at once
  Loop,        \* the one the server's own loop starts again and again
  Renotify,    \* RENOTIFY_MS
  MaxClock, MaxFlips, MaxEdits, MaxFaults,  \* bounds: time, load, admin, failures
  MaxOverlaps  \* bound on evaluations started while another is in progress

ASSUME ConstantsAssumption ==
  /\ Broken \subseteq Rules
  /\ Loop \in Evaluators
  /\ Renotify \in Nat \ {0}
  /\ MaxClock \in Nat /\ MaxFlips \in Nat /\ MaxEdits \in Nat /\ MaxFaults \in Nat
  /\ MaxOverlaps \in Nat

VARIABLES
  clock,
  present,   \* nodes with a row in the nodes table
  hot,       \* pairs <<rule, node>> whose history calls for an alert
  rule,      \* per rule: its alert_rules row
  purging,   \* rules deleted whose alert_state rows are still to be deleted
  state,     \* per pair: its alert_state row
  ev,        \* per evaluation: where it is and what it has read
  pages,     \* per pair: the pages sent since its state was last deleted
  flips, edits, faults,
  raced,     \* a deletion met an evaluation in progress, or was cut short
  overlaps   \* evaluations started while another was in progress

tables == <<present, hot, rule, purging, state, raced>>
vars == <<clock, tables, ev, pages, flips, edits, faults, overlaps>>

Pairs == Rules \X Nodes

\* notified is 0 for NULL.
NoState == [exists |-> FALSE, firing |-> FALSE, notified |-> 0]
NoRule == [exists |-> FALSE, enabled |-> FALSE, targets |-> {}, exclude |-> FALSE]
Everywhere == [exists |-> TRUE, enabled |-> TRUE, targets |-> {}, exclude |-> FALSE]

\* jobs: the rules still to do, each with the nodes it applies to; over: the
\* nodes found hot; send: pages to send, as node and level; rows: to be written.
Idle == [pc |-> "idle", now |-> 0, nodes |-> {}, jobs |-> {}, rule |-> "", scope |-> {},
         over |-> {}, send |-> {}, rows |-> {}]

Init ==
  /\ clock = Renotify
  /\ present = Nodes
  /\ hot = {}
  /\ rule = [r \in Rules |-> Everywhere]
  /\ purging = {}
  /\ state = [p \in Pairs |-> NoState]
  /\ ev = [e \in Evaluators |-> Idle]
  /\ pages = [p \in Pairs |-> <<>>]
  /\ flips = 0 /\ edits = 0 /\ faults = 0
  /\ raced = FALSE
  /\ overlaps = 0

InProgress == \E e \in Evaluators : ev[e].pc # "idle"

Tick ==
  /\ clock < MaxClock
  /\ clock' = clock + 1
  /\ UNCHANGED <<tables, ev, pages, flips, edits, faults, overlaps>>

-----------------------------------------------------------------------------
(* Nodes and the admin *)

\* New samples, or old ones leaving the window, turn a pair hot or cool; nobody
\* learns which of the pairs of a broken rule are.
Flip(p) ==
  /\ flips < MaxFlips
  /\ p[1] \notin Broken /\ p[2] \in present
  /\ hot' = IF p \in hot THEN hot \ {p} ELSE hot \cup {p}
  /\ flips' = flips + 1
  /\ UNCHANGED <<clock, present, rule, purging, state, ev, pages, edits, faults, raced, overlaps>>

\* A deleted node is enrolled again and reports.
Return(n) ==
  /\ n \notin present
  /\ present' = present \cup {n}
  /\ UNCHANGED <<clock, hot, rule, purging, state, ev, pages, flips, edits, faults, raced,
                 overlaps>>

\* upsertAlertRule: the whole row is written as sent, whatever was there; a
\* target may be of a node that is gone (the form is older than its deletion).
UpsertRule(r, targets, exclude, enabled) ==
  /\ edits < MaxEdits
  /\ rule' = [rule EXCEPT ![r] = [exists |-> TRUE, enabled |-> enabled,
                                  targets |-> targets, exclude |-> exclude]]
  /\ edits' = edits + 1
  /\ UNCHANGED <<clock, present, hot, purging, state, ev, pages, flips, faults, raced, overlaps>>

\* deleteAlertRule, first statement.
DeleteRule(r) ==
  /\ edits < MaxEdits
  /\ rule[r].exists
  /\ rule' = [rule EXCEPT ![r] = NoRule]
  /\ purging' = purging \cup {r}
  /\ edits' = edits + 1
  /\ raced' = (raced \/ InProgress)
  /\ UNCHANGED <<clock, present, hot, state, ev, pages, flips, faults, overlaps>>

\* The state and the pages of the pairs in q are forgotten.
Forget(q) ==
  /\ state' = [p \in Pairs |-> IF p \in q THEN NoState ELSE state[p]]
  /\ pages' = [p \in Pairs |-> IF p \in q THEN <<>> ELSE pages[p]]

\* deleteAlertRule, second statement.
DeleteStates(r) ==
  /\ r \in purging
  /\ purging' = purging \ {r}
  /\ Forget({r} \X Nodes)
  /\ UNCHANGED <<clock, present, hot, rule, ev, flips, edits, faults, raced, overlaps>>

\* It throws, or the process stops in front of it.
DeleteStatesFails(r) ==
  /\ faults < MaxFaults
  /\ r \in purging
  /\ purging' = purging \ {r}
  /\ faults' = faults + 1
  /\ raced' = TRUE
  /\ UNCHANGED <<clock, present, hot, rule, state, ev, pages, flips, edits, overlaps>>

ForgottenButStates(n) == UNCHANGED <<state, pages>>

Forgotten(n) == Forget(Rules \X {n})

\* deleteNode: one transaction, which also prunes the id out of every target list.
DeleteNode(n) ==
  /\ edits < MaxEdits
  /\ n \in present
  /\ present' = present \ {n}
  /\ hot' = hot \ (Rules \X {n})
  /\ Forgotten(n)
  /\ rule' = [r \in Rules |-> [rule[r] EXCEPT !.targets = rule[r].targets \ {n}]]
  /\ edits' = edits + 1
  /\ raced' = (raced \/ InProgress)
  /\ UNCHANGED <<clock, purging, ev, flips, faults, overlaps>>

-----------------------------------------------------------------------------
(* An evaluation *)

Start(e) ==
  /\ ev[e].pc = "idle"
  /\ ev' = [ev EXCEPT ![e] = [Idle EXCEPT !.pc = "list", !.now = clock, !.nodes = present]]
  /\ IF ~InProgress THEN UNCHANGED overlaps
     ELSE overlaps < MaxOverlaps /\ overlaps' = overlaps + 1
  /\ UNCHANGED <<clock, tables, pages, flips, edits, faults>>

\* A blacklist takes every node but its targets, an empty allowlist every node.
Scope(c, nodes) ==
  IF c.exclude THEN nodes \ c.targets
  ELSE IF c.targets # {} THEN nodes \cap c.targets ELSE nodes

Jobs(nodes) ==
  {j \in {[rule |-> r, scope |-> Scope(rule[r], nodes)] :
            r \in {q \in Rules : rule[q].exists /\ rule[q].enabled}} : j.scope # {}}

\* Where an evaluation turns when a rule is done: to the next one, or on.
Onward(q, jobs) ==
  IF jobs = {} THEN Idle
  ELSE [Idle EXCEPT !.pc = "rule", !.now = q.now, !.nodes = q.nodes, !.jobs = jobs]

ListRules(e) ==
  /\ ev[e].pc = "list"
  /\ ev' = [ev EXCEPT ![e] = Onward(ev[e], Jobs(ev[e].nodes))]
  /\ UNCHANGED <<clock, tables, pages, flips, edits, faults, overlaps>>

Aggregate(e) ==
  /\ ev[e].pc = "rule"
  /\ \E j \in ev[e].jobs :
       /\ j.rule \notin Broken
       /\ ev' = [ev EXCEPT ![e] = [ev[e] EXCEPT !.pc = "states", !.rule = j.rule,
                   !.scope = j.scope, !.jobs = ev[e].jobs \ {j},
                   !.over = {n \in j.scope : <<j.rule, n>> \in hot}]]
  /\ UNCHANGED <<clock, tables, pages, flips, edits, faults, overlaps>>

AfterErrorAbandon(q, jobs) == Idle

\* try { ... } catch: the next rule is evaluated all the same.
AfterError(q, jobs) == Onward(q, jobs)

\* The aggregate query of a broken rule throws.
AggregateThrows(e) ==
  /\ ev[e].pc = "rule"
  /\ \E j \in ev[e].jobs :
       /\ j.rule \in Broken
       /\ ev' = [ev EXCEPT ![e] = AfterError(ev[e], ev[e].jobs \ {j})]
  /\ UNCHANGED <<clock, tables, pages, flips, edits, faults, overlaps>>

DueIgnoringState(prev, now) == prev.notified = 0 \/ now - prev.notified >= 1

\* A first alert, or one that has not been repeated for RENOTIFY_MS.
Due(prev, now) ==
  ~prev.firing \/ prev.notified = 0 \/ now - prev.notified >= Renotify

RowsOfAlerts(q, st) ==
  {[node |-> n, firing |-> TRUE, notified |-> q.now] : n \in q.over}

RowsOf(q, st) ==
  {[node |-> n, firing |-> TRUE,
    notified |-> IF Due(st[n], q.now) THEN q.now ELSE st[n].notified] : n \in q.over}
  \cup {[node |-> n, firing |-> FALSE, notified |-> q.now] :
          n \in {m \in q.scope \ q.over : st[m].firing}}

SendsOf(q, st) ==
  {<<n, "alert">> : n \in {m \in q.over : Due(st[m], q.now)}}
  \cup {<<n, "recovery">> : n \in {m \in q.scope \ q.over : st[m].firing}}

\* The second query of the rule, and the decision for each of its nodes.
ReadStates(e) ==
  LET st == [n \in Nodes |-> state[<<ev[e].rule, n>>]] IN
  /\ ev[e].pc = "states"
  /\ ev' = [ev EXCEPT ![e] = [ev[e] EXCEPT !.pc = "notify", !.rows = RowsOf(ev[e], st),
                                !.send = SendsOf(ev[e], st)]]
  /\ UNCHANGED <<clock, tables, pages, flips, edits, faults, overlaps>>

Notify(e) ==
  /\ ev[e].pc = "notify"
  /\ \E s \in ev[e].send :
       /\ pages' = [pages EXCEPT ![<<ev[e].rule, s[1]>>] =
                      Append(@, [level |-> s[2], ts |-> ev[e].now])]
       /\ ev' = [ev EXCEPT ![e] = [ev[e] EXCEPT !.send = ev[e].send \ {s}]]
  /\ UNCHANGED <<clock, tables, flips, edits, faults, overlaps>>

NodesIn(rows) == {u.node : u \in rows}

Stored(u) == [exists |-> TRUE, firing |-> u.firing, notified |-> u.notified]

\* The batched upsert, once every page of the rule is out.
Save(e) ==
  LET q == ev[e] IN
  /\ q.pc = "notify" /\ q.send = {}
  /\ state' = [p \in Pairs |->
       IF p[1] = q.rule /\ p[2] \in NodesIn(q.rows)
       THEN Stored(CHOOSE u \in q.rows : u.node = p[2])
       ELSE state[p]]
  /\ ev' = [ev EXCEPT ![e] = Onward(q, q.jobs)]
  /\ UNCHANGED <<clock, present, hot, rule, purging, pages, flips, edits, faults, raced,
                 overlaps>>

\* One of the rule's queries, or loading the notification settings, throws.
RuleFails(e) ==
  /\ faults < MaxFaults
  /\ ev[e].pc \in {"states", "notify"}
  /\ ev' = [ev EXCEPT ![e] = AfterError(ev[e], ev[e].jobs)]
  /\ faults' = faults + 1
  /\ UNCHANGED <<clock, tables, pages, flips, edits, overlaps>>

\* listAlertRules throws out of the evaluation, or the process stops.
Fail(e) ==
  /\ faults < MaxFaults
  /\ ev[e].pc # "idle"
  /\ ev' = [ev EXCEPT ![e] = Idle]
  /\ faults' = faults + 1
  /\ UNCHANGED <<clock, tables, pages, flips, edits, overlaps>>

Proceed(e) ==
  \/ ListRules(e) \/ Aggregate(e) \/ AggregateThrows(e)
  \/ ReadStates(e) \/ Notify(e) \/ Save(e)

Next ==
  \/ Tick
  \/ \E p \in Pairs : Flip(p)
  \/ \E n \in Nodes : Return(n) \/ DeleteNode(n)
  \/ \E r \in Rules : DeleteRule(r) \/ DeleteStates(r) \/ DeleteStatesFails(r)
  \/ \E r \in Rules, t \in SUBSET Nodes, x, b \in BOOLEAN : UpsertRule(r, t, x, b)
  \/ \E e \in Evaluators : Start(e) \/ Proceed(e) \/ RuleFails(e) \/ Fail(e)

Spec == Init /\ [][Next]_vars

\* The server's loop starts an evaluation about half a minute after the last,
\* and one that started goes on (its fetches time out) unless it fails.
Fairness == WF_vars(Start(Loop)) /\ \A e \in Evaluators : WF_vars(Proceed(e))

FairSpec == Spec /\ Fairness

-----------------------------------------------------------------------------
RuleRow == [exists : BOOLEAN, enabled : BOOLEAN, targets : SUBSET Nodes, exclude : BOOLEAN]
StateRow == [exists : BOOLEAN, firing : BOOLEAN, notified : Nat]
Levels == {"alert", "recovery"}
Evaluation ==
  [pc : {"idle", "list", "rule", "states", "notify"}, now : Nat, nodes : SUBSET Nodes,
   jobs : SUBSET [rule : Rules, scope : SUBSET Nodes], rule : Rules \cup {""},
   scope : SUBSET Nodes, over : SUBSET Nodes, send : SUBSET (Nodes \X Levels),
   rows : SUBSET [node : Nodes, firing : BOOLEAN, notified : Nat]]
PageSent == [level : Levels, ts : Nat]

\* The type invariant of the tables, the evaluations and the pages.
TypeOK ==
  /\ clock \in Nat
  /\ present \subseteq Nodes
  /\ hot \subseteq Pairs
  /\ rule \in [Rules -> RuleRow]
  /\ purging \subseteq Rules
  /\ state \in [Pairs -> StateRow]
  /\ ev \in [Evaluators -> Evaluation]
  /\ pages \in [Pairs -> Seq(PageSent)]
  /\ flips \in Nat /\ edits \in Nat /\ faults \in Nat
  /\ raced \in BOOLEAN
  /\ overlaps \in Nat

\* Alerts that follow another alert of the pair sooner than a reminder may.
Premature(p) ==
  {i \in 1..(Len(pages[p]) - 1) :
     /\ pages[p][i].level = "alert" /\ pages[p][i + 1].level = "alert"
     /\ pages[p][i + 1].ts - pages[p][i].ts < Renotify}

\* A reminder comes sooner than RENOTIFY_MS only for an alert whose state was
\* lost, or after an overlap, which costs a pair at most two: the page that both
\* evaluations send, and one for the older time the later writer stores.  No
\* edit of the rule, of its targets or of the nodes makes the same problem page
\* early (due and the upsert).
RemindersSpaced == \A p \in Pairs : Cardinality(Premature(p)) <= faults + 2 * overlaps

\* An alert_state row belongs to a rule and a node that exist, unless a
\* deletion met an evaluation in progress or lost its second statement.
NoOrphanState ==
  raced \/ \A p \in Pairs : state[p].exists =>
             p[2] \in present /\ (rule[p[1]].exists \/ p[1] \in purging)

Watched(p) ==
  /\ rule[p[1]].exists /\ rule[p[1]].enabled
  /\ p[2] \in Scope(rule[p[1]], present)

\* A problem that lasts on a watched pair is in the end recorded as firing, and
\* one that is over as over, though evaluations overlap and other rules throw.
Settles ==
  \A p \in Pairs : p[1] \notin Broken =>
    /\ <>[](Watched(p) /\ p \in hot) => <>[](state[p].firing)
    /\ <>[](Watched(p) /\ p \notin hot) => <>[](~state[p].firing)

Sending(e, p, level) == ev[e].rule = p[1] /\ <<p[2], level>> \in ev[e].send

Undisturbed == faults = 0 /\ overlaps = 0

\* As the pager sees it, a problem stands from the page, not from the row: an
\* evaluation with a page still to send is about to change it, one that has
\* sent it and not yet written has.
Alerted ==
  [p \in Pairs |->
     LET paging == {e \in Evaluators : ev[e].rule = p[1] /\ p[2] \in NodesIn(ev[e].rows)} IN
     /\ Undisturbed
     /\ IF paging = {} THEN state[p].firing
        ELSE \E e \in paging :
               \/ Sending(e, p, "recovery")
               \/ Sending(e, p, "alert") /\ state[p].firing
               \/ ~Sending(e, p, "alert") /\ \E u \in ev[e].rows : u.node = p[2] /\ u.firing]

LevelsSent(p) == IF Undisturbed THEN [i \in DOMAIN pages[p] |-> pages[p][i].level] ELSE <<>>

P == INSTANCE Pager WITH Subjects <- Pairs, RaiseLevel <- "alert", ClearLevel <- "recovery",
                         Reminders <- TRUE, alerted <- Alerted,
                         pages <- [p \in Pairs |-> LevelsSent(p)]

\* Until the first evaluation that fails or overlaps another, load alerts page
\* as Pager promises: a recovery only for a standing alert, an alert again only
\* as a reminder.
ImplementsPager == P!Spec
=============================================================================
