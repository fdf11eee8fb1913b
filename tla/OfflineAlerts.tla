--------------------------- MODULE OfflineAlerts ---------------------------
(***************************************************************************)
(* evaluateOffline: an evaluation reads the node rows when it starts, the  *)
(* offline settings when it comes to them, and then, node by node, sends   *)
(* the page (an await of up to five seconds) and only afterwards writes    *)
(* the flag.  Evaluations are started by reports (after saveReport), by    *)
(* the server's own loop and by external cron calls; nothing keeps two of  *)
(* them apart, and the process can stop, or the write fail, between a page *)
(* and its flag.                                                           *)
(*                                                                         *)
(* "silent" stands for now - last_seen > grace in the rows as stored.      *)
(***************************************************************************)
EXTENDS Integers, Sequences, FiniteSets

CONSTANTS
  Nodes,
  Evaluators,  \* evaluations that can be in progress at once
  Loop,        \* the one the server's own loop starts again and again
  MaxFlips,    \* bound on nodes falling silent and reporting again
  MaxEdits,    \* bound on changes by the admin
  MaxFaults,   \* bound on evaluations that die or fail
  MaxOverlaps  \* bound on evaluations started while another is in progress

ASSUME LoopAssumption == Loop \in Evaluators

ASSUME NodesAssumption == "" \notin Nodes

ASSUME BoundsAssumption ==
  /\ MaxFlips \in Nat /\ MaxEdits \in Nat /\ MaxFaults \in Nat
  /\ MaxOverlaps \in Nat

VARIABLES
  silent,    \* per node: no report within its grace period
  present,   \* nodes with a row in the nodes table
  setting,   \* per node: its offline_settings row
  ev,        \* per evaluation: where it is and what it has read
  pages,     \* per node: levels of the pages sent about it
  flips, edits, faults,
  overlaps   \* evaluations started while another was in progress

vars == <<silent, present, setting, ev, pages, flips, edits, faults, overlaps>>

NoSetting == [exists |-> FALSE, enabled |-> FALSE, offline |-> FALSE]
Bootstrapped == [exists |-> TRUE, enabled |-> TRUE, offline |-> FALSE]

\* seen: the nodes read, and which of them were silent; todo: what is to be paged.
Idle == [pc |-> "idle", nodes |-> {}, down |-> {}, todo |-> {}, node |-> "", level |-> ""]

Init ==
  /\ silent = [n \in Nodes |-> FALSE]
  /\ present = Nodes
  /\ setting = [n \in Nodes |-> Bootstrapped]
  /\ ev = [e \in Evaluators |-> Idle]
  /\ pages = [n \in Nodes |-> <<>>]
  /\ flips = 0 /\ edits = 0 /\ faults = 0
  /\ overlaps = 0

\* A node whose setting is created anew has had no pages.
Afresh(n) == [pages EXCEPT ![n] = IF setting[n].exists THEN @ ELSE <<>>]

-----------------------------------------------------------------------------
(* Reports and the admin *)

\* A report updates or creates the node's row and bootstraps its setting.
Report(n) ==
  /\ flips < MaxFlips
  /\ silent[n] \/ n \notin present
  /\ silent' = [silent EXCEPT ![n] = FALSE]
  /\ present' = present \cup {n}
  /\ setting' = [setting EXCEPT ![n] = IF @.exists THEN @ ELSE Bootstrapped]
  /\ pages' = Afresh(n)
  /\ flips' = flips + 1
  /\ UNCHANGED <<ev, edits, faults, overlaps>>

FallSilent(n) ==
  /\ flips < MaxFlips
  /\ n \in present /\ ~silent[n]
  /\ silent' = [silent EXCEPT ![n] = TRUE]
  /\ flips' = flips + 1
  /\ UNCHANGED <<present, setting, ev, pages, edits, faults, overlaps>>

\* An edit that starts the node afresh would page again while it is down.
SettingAfterEditReset(s, b) == [exists |-> TRUE, enabled |-> b, offline |-> FALSE]

\* INSERT ... ON CONFLICT DO UPDATE of enabled and grace: offline is kept.
SettingAfterEdit(s, b) == [exists |-> TRUE, enabled |-> b, offline |-> s.offline]

UpsertOfflineSetting(n, b) ==
  /\ edits < MaxEdits
  /\ setting' = [setting EXCEPT ![n] = SettingAfterEdit(@, b)]
  /\ pages' = Afresh(n)
  /\ edits' = edits + 1
  /\ UNCHANGED <<silent, present, ev, flips, faults, overlaps>>

DeleteNode(n) ==
  /\ edits < MaxEdits
  /\ n \in present
  /\ present' = present \ {n}
  /\ setting' = [setting EXCEPT ![n] = NoSetting]
  /\ silent' = [silent EXCEPT ![n] = FALSE]
  /\ edits' = edits + 1
  /\ UNCHANGED <<ev, pages, flips, faults, overlaps>>

-----------------------------------------------------------------------------
(* An evaluation *)

\* evaluate: take the time and read every node's last_seen.
Start(e) ==
  /\ ev[e].pc = "idle"
  /\ ev' = [ev EXCEPT ![e] = [Idle EXCEPT !.pc = "settings", !.nodes = present,
                                !.down = {n \in present : silent[n]}]]
  /\ IF \A f \in Evaluators : ev[f].pc = "idle" THEN UNCHANGED overlaps
     ELSE overlaps < MaxOverlaps /\ overlaps' = overlaps + 1
  /\ UNCHANGED <<silent, present, setting, pages, flips, edits, faults>>

\* isOffline against s.offline, from what was read.
NeedsPageOfflineOnly(s, isOffline) == s.exists /\ s.enabled /\ isOffline /\ ~s.offline

NeedsPage(s, isOffline) == s.exists /\ s.enabled /\ isOffline # s.offline

\* Load alerts have run meanwhile; listOfflineSettings, and the decisions.
ReadSettings(e) ==
  LET todo == {n \in ev[e].nodes : NeedsPage(setting[n], n \in ev[e].down)} IN
  /\ ev[e].pc = "settings"
  /\ ev' = [ev EXCEPT ![e] = IF todo = {} THEN Idle
                             ELSE [ev[e] EXCEPT !.pc = "notify", !.todo = todo]]
  /\ UNCHANGED <<silent, present, setting, pages, flips, edits, faults, overlaps>>

LevelFor(e, n) == IF n \in ev[e].down THEN "offline" ELSE "online"

\* await notify(...): the page is out before the flag is written.
Notify(e, n) ==
  /\ ev[e].pc = "notify"
  /\ n \in ev[e].todo
  /\ pages' = [pages EXCEPT ![n] = Append(@, LevelFor(e, n))]
  /\ ev' = [ev EXCEPT ![e] = [ev[e] EXCEPT !.pc = "write", !.node = n,
                                !.level = LevelFor(e, n), !.todo = ev[e].todo \ {n}]]
  /\ UNCHANGED <<silent, present, setting, flips, edits, faults, overlaps>>

WriteNothing(s, level) == s

\* UPDATE offline_settings SET offline: no effect when the row is gone.
Written(s, level) == IF s.exists THEN [s EXCEPT !.offline = (level = "offline")] ELSE s

SetOfflineState(e) ==
  /\ ev[e].pc = "write"
  /\ setting' = [setting EXCEPT ![ev[e].node] = Written(@, ev[e].level)]
  /\ ev' = [ev EXCEPT ![e] = IF ev[e].todo = {} THEN Idle
                             ELSE [ev[e] EXCEPT !.pc = "notify", !.node = "", !.level = ""]]
  /\ UNCHANGED <<silent, present, pages, flips, edits, faults, overlaps>>

\* A query throws out of evaluate, or the process stops.
Fail(e) ==
  /\ faults < MaxFaults
  /\ ev[e].pc # "idle"
  /\ ev' = [ev EXCEPT ![e] = Idle]
  /\ faults' = faults + 1
  /\ UNCHANGED <<silent, present, setting, pages, flips, edits, overlaps>>

Proceed(e) == ReadSettings(e) \/ SetOfflineState(e) \/ \E n \in Nodes : Notify(e, n)

Next ==
  \/ \E n \in Nodes : Report(n) \/ FallSilent(n) \/ DeleteNode(n)
  \/ \E n \in Nodes, b \in BOOLEAN : UpsertOfflineSetting(n, b)
  \/ \E e \in Evaluators : Start(e) \/ Proceed(e) \/ Fail(e)

\* The server's loop starts an evaluation about half a minute after the last,
\* and one that started goes on (its fetches time out) unless it fails.
Fairness == WF_vars(Start(Loop)) /\ \A e \in Evaluators : WF_vars(Proceed(e))

Spec == Init /\ [][Next]_vars
FairSpec == Spec /\ Fairness

-----------------------------------------------------------------------------
Levels == {"offline", "online"}
Setting == [exists : BOOLEAN, enabled : BOOLEAN, offline : BOOLEAN]
Evaluation == [pc : {"idle", "settings", "notify", "write"}, nodes : SUBSET Nodes,
               down : SUBSET Nodes, todo : SUBSET Nodes, node : Nodes \cup {""},
               level : Levels \cup {""}]

\* The type invariant of the tables, the evaluations and the pages.
TypeOK ==
  /\ silent \in [Nodes -> BOOLEAN]
  /\ present \subseteq Nodes
  /\ setting \in [Nodes -> Setting]
  /\ ev \in [Evaluators -> Evaluation]
  /\ pages \in [Nodes -> Seq(Levels)]
  /\ flips \in Nat /\ edits \in Nat /\ faults \in Nat
  /\ overlaps \in Nat

Repeats(n) == {i \in 1..(Len(pages[n]) - 1) : pages[n][i] = pages[n][i + 1]}

\* A page about a node is repeated only for a page whose flag was lost, or by an
\* overlap: never more repeats than failed evaluations and overlaps together,
\* however old what an evaluation has read (notify before setOfflineState).
\* The comment at RENOTIFY_MS (monitoring.ts:65) promises more, that a node
\* still offline is notified again; only evaluateLoadAlerts uses that interval,
\* and this property states what evaluateOffline does: it never reminds.
RepeatsOnlyFromFaultsAndOverlaps ==
  \A n \in Nodes : Cardinality(Repeats(n)) <= faults + overlaps

Monitored(n) == n \in present /\ setting[n].enabled

\* A node that stays silent, or stays reporting, is in the end recorded so,
\* whatever stale evaluations wrote before.
Settles ==
  \A n \in Nodes :
    /\ <>[](Monitored(n) /\ silent[n]) => <>[](setting[n].offline)
    /\ <>[](Monitored(n) /\ ~silent[n]) => <>[](~setting[n].offline)

Undisturbed == faults = 0 /\ overlaps = 0

\* As the pager sees it, a problem stands from the page, not from the flag: an
\* evaluation about to page n is about to change it, one about to write has.
Alerted ==
  [n \in Nodes |->
     /\ Undisturbed /\ setting[n].exists
     /\ \/ \E e \in Evaluators : n \in ev[e].todo /\ LevelFor(e, n) = "online"
        \/ \E e \in Evaluators : ev[e].node = n /\ ev[e].level = "offline"
        \/ /\ \A e \in Evaluators : n \notin ev[e].todo /\ ev[e].node # n
           /\ setting[n].offline]

PagesOfLife ==
  [n \in Nodes |-> IF Undisturbed /\ setting[n].exists THEN pages[n] ELSE <<>>]

P == INSTANCE Pager WITH Subjects <- Nodes, RaiseLevel <- "offline", ClearLevel <- "online",
                         Reminders <- FALSE, alerted <- Alerted,
                         pages <- PagesOfLife

\* Until the first evaluation that fails or overlaps another, evaluateOffline
\* pages as Pager promises: raise and clear alternate, starting with a raise.
\* Reminders is FALSE because evaluateOffline looks at no interval, against the
\* comment at RENOTIFY_MS (monitoring.ts:65), which names offline nodes too.
ImplementsPager == P!Spec
=============================================================================
