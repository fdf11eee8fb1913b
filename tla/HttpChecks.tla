---------------------------- MODULE HttpChecks ----------------------------
(***************************************************************************)
(* The HTTP liveness checks.  Targets and their states live in one row of  *)
(* app_settings, which an evaluation reads whole, probes the due targets   *)
(* from one after the other (each a request of several seconds, with a     *)
(* page when the confirmed status flips) and writes back whole; the admin  *)
(* route replaces the targets and keeps the surviving states by the same   *)
(* read and write.  Nothing orders these against each other, and an        *)
(* evaluation can stop after a page and before its write.                  *)
(*                                                                         *)
(* lastCheckAt is kept as its age, which stops at the interval, and a      *)
(* streak stops at the threshold: nothing distinguishes more.              *)
(***************************************************************************)
EXTENDS Integers, Sequences, FiniteSets

CONSTANTS
  Urls,
  Evaluators,  \* evaluations that can be in progress at once
  Loop,        \* the one the server's own loop starts again and again
  Threshold,   \* failThreshold
  Interval,    \* intervalSec, in ticks of the clock
  MaxFlips, MaxBlips, MaxEdits, MaxFaults,  \* bounds: sites, timeouts, admin, failures
  MaxOverlaps  \* bound on evaluations started while another is in progress

ASSUME ChecksAssumption ==
  /\ Loop \in Evaluators
  /\ Threshold \in Nat \ {0} /\ Interval \in Nat \ {0}
  /\ MaxFlips \in Nat /\ MaxBlips \in Nat /\ MaxEdits \in Nat /\ MaxFaults \in Nat
  /\ MaxOverlaps \in Nat

VARIABLES
  site,      \* per url: what a probe finds, "up" or "down"
  stored,    \* the row: the targets, and per url its state
  ev,        \* per evaluation: where it is, the row as it read it and changes it
  editor,    \* the same for the admin route, between its read and its write
  wanted,    \* the targets the admin has last been told are stored
  downs,     \* per url: its latest probes that were down in a row, since it was added
  observed,  \* per url: how often it was probed since it was added, at most 2
  pages,     \* per url: the pages sent since it was added
  flips, blips, edits, faults,
  clobbers,  \* writes of the row that undid what they had not read: another
             \* write since they read the row, or all of it when the read failed
  overlaps   \* evaluations started while another was in progress

counters == <<flips, blips, edits, faults>>
checksVars ==
  <<site, stored, ev, editor, wanted, downs, observed, pages, counters, clobbers, overlaps>>

Lesser(a, b) == IF a < b THEN a ELSE b

Unknown == [status |-> "unknown", raw |-> "none", streak |-> 0, age |-> Interval]
Resting == [pc |-> "idle", todo |-> {}, targets |-> {}, state |-> [u \in Urls |-> Unknown],
            age |-> 0, stale |-> FALSE]

ChecksInit ==
  /\ site \in [Urls -> {"up", "down"}]
  /\ stored = [targets |-> Urls, state |-> [u \in Urls |-> Unknown]]
  /\ ev = [e \in Evaluators |-> Resting]
  /\ editor = Resting
  /\ wanted = Urls
  /\ downs = [u \in Urls |-> 0]
  /\ observed = [u \in Urls |-> 0]
  /\ pages = [u \in Urls |-> <<>>]
  /\ flips = 0 /\ blips = 0 /\ edits = 0 /\ faults = 0 /\ clobbers = 0
  /\ overlaps = 0

\* Time passes: whatever holds a time of check, or its own start, ages.
Older(state) == [u \in Urls |-> [state[u] EXCEPT !.age = Lesser(state[u].age + 1, Interval)]]

Aged(q) ==
  IF q.pc = "idle" THEN q
  ELSE [q EXCEPT !.state = Older(q.state), !.age = Lesser(q.age + 1, Interval)]

Tick ==
  /\ stored' = [stored EXCEPT !.state = Older(stored.state)]
  /\ ev' = [e \in Evaluators |-> Aged(ev[e])]
  /\ editor' = Aged(editor)
  /\ UNCHANGED <<site, wanted, downs, observed, pages, counters, clobbers, overlaps>>

SiteFlips(u) ==
  /\ flips < MaxFlips
  /\ site' = [site EXCEPT ![u] = IF @ = "up" THEN "down" ELSE "up"]
  /\ flips' = flips + 1
  /\ UNCHANGED <<stored, ev, editor, wanted, downs, observed, pages, blips, edits, faults,
                 clobbers, overlaps>>

\* What others have read is stale once the row is written.
Outdated(q) == IF q.pc = "idle" THEN q ELSE [q EXCEPT !.stale = TRUE]

\* setSetting: the whole row is replaced, whatever has been written meanwhile.
Overwrite(q) ==
  /\ stored' = [targets |-> q.targets, state |-> q.state]
  /\ clobbers' = IF q.stale THEN clobbers + 1 ELSE clobbers

-----------------------------------------------------------------------------
(* The admin route *)

KeptNothing(state, targets) == [u \in Urls |-> Unknown]

\* Surviving urls keep their state, others lose it.
Kept(state, targets) == [u \in Urls |-> IF u \in targets THEN state[u] ELSE Unknown]

\* POST: read the row, for the states of the urls that stay.
EditRead(targets) ==
  /\ edits < MaxEdits
  /\ editor.pc = "idle"
  /\ editor' = [Resting EXCEPT !.pc = "write", !.targets = targets,
                               !.state = Kept(stored.state, targets)]
  /\ edits' = edits + 1
  /\ UNCHANGED <<site, stored, ev, wanted, downs, observed, pages, flips, blips, faults,
                 clobbers, overlaps>>

\* The read fails and the route goes on as if no row were there: it is about to
\* forget the state of every url.
EditReadFails(targets) ==
  /\ edits < MaxEdits
  /\ editor.pc = "idle"
  /\ editor' = [Resting EXCEPT !.pc = "write", !.targets = targets, !.stale = TRUE]
  /\ edits' = edits + 1
  /\ UNCHANGED <<site, stored, ev, wanted, downs, observed, pages, flips, blips, faults,
                 clobbers, overlaps>>

\* Write it and answer ok; a url that is new starts its life here.
EditWrite ==
  LET added == editor.targets \ wanted IN
  /\ editor.pc = "write"
  /\ Overwrite(editor)
  /\ editor' = Resting
  /\ ev' = [e \in Evaluators |-> Outdated(ev[e])]
  /\ wanted' = editor.targets
  /\ downs' = [u \in Urls |-> IF u \in added THEN 0 ELSE downs[u]]
  /\ observed' = [u \in Urls |-> IF u \in added THEN 0 ELSE observed[u]]
  /\ pages' = [u \in Urls |-> IF u \in added THEN <<>> ELSE pages[u]]
  /\ UNCHANGED <<site, counters, overlaps>>

-----------------------------------------------------------------------------
(* An evaluation *)

\* Read the row and the time; with no target due there is nothing to do.
Start(e) ==
  LET due == {u \in stored.targets : stored.state[u].age >= Interval} IN
  /\ ev[e].pc = "idle"
  /\ due # {}
  /\ ev' = [ev EXCEPT ![e] = [Resting EXCEPT !.pc = "probe", !.todo = due,
              !.targets = stored.targets, !.state = stored.state]]
  /\ IF \A f \in Evaluators : ev[f].pc = "idle" THEN UNCHANGED overlaps
     ELSE overlaps < MaxOverlaps /\ overlaps' = overlaps + 1
  /\ UNCHANGED <<site, stored, editor, wanted, downs, observed, pages, counters, clobbers>>

StreakNeverReset(s, raw) == Lesser(s.streak + 1, Threshold)

\* The run of identical outcomes; a flip resets it to 1.
Streak(s, raw) == IF s.raw = raw THEN Lesser(s.streak + 1, Threshold) ELSE 1

\* Outcomes in a row before a flip is believed: recovery is immediate.
Need(raw) == IF raw = "down" THEN Threshold ELSE 1

ConfirmedNoBaseline(s, raw) ==
  IF s.status # "unknown" /\ Streak(s, raw) >= Need(raw) THEN raw ELSE s.status

\* The status confirmed by an outcome; the first observation is the baseline.
Confirmed(s, raw) ==
  IF s.status = "unknown" \/ Streak(s, raw) >= Need(raw) THEN raw ELSE s.status

PagesForOutcome(s, raw) == s.status # "unknown" /\ Confirmed(s, raw) = raw

PagesFor(s, raw) == s.status # "unknown" /\ Confirmed(s, raw) # s.status

Level(raw) == IF raw = "down" THEN "alert" ELSE "recovery"

\* probe, with its retry: a site that is up may still time out twice.
Outcome(u, raw) ==
  \/ raw = site[u] /\ UNCHANGED blips
  \/ /\ raw = "down" /\ site[u] = "up"
     /\ blips < MaxBlips
     /\ blips' = blips + 1

\* One target: probe it, page on a flip, note its new state.
Probe(e, u) ==
  LET s == ev[e].state[u] IN
  /\ ev[e].pc = "probe"
  /\ u \in ev[e].todo
  /\ \E raw \in {"up", "down"} :
       /\ Outcome(u, raw)
       /\ ev' = [ev EXCEPT ![e] = [ev[e] EXCEPT !.todo = ev[e].todo \ {u},
            !.state = [ev[e].state EXCEPT ![u] =
               [status |-> Confirmed(s, raw), raw |-> raw, streak |-> Streak(s, raw),
                age |-> ev[e].age]]]]
       /\ downs' = [downs EXCEPT ![u] = IF raw = "down" THEN Lesser(@ + 1, Threshold) ELSE 0]
       /\ pages' = [pages EXCEPT ![u] = IF PagesFor(s, raw) THEN Append(@, Level(raw)) ELSE @]
  /\ observed' = [observed EXCEPT ![u] = Lesser(@ + 1, 2)]
  /\ UNCHANGED <<site, stored, editor, wanted, flips, edits, faults, clobbers, overlaps>>

\* All due targets probed: write the row, with the targets as they were read.
Save(e) ==
  /\ ev[e].pc = "probe"
  /\ ev[e].todo = {}
  /\ Overwrite(ev[e])
  /\ ev' = [f \in Evaluators |-> IF f = e THEN Resting ELSE Outdated(ev[f])]
  /\ editor' = Outdated(editor)
  /\ UNCHANGED <<site, wanted, downs, observed, pages, counters, overlaps>>

\* The write throws, or the process stops.
Fail(e) ==
  /\ faults < MaxFaults
  /\ ev[e].pc = "probe"
  /\ ev' = [ev EXCEPT ![e] = Resting]
  /\ faults' = faults + 1
  /\ UNCHANGED <<site, stored, editor, wanted, downs, observed, pages, flips, blips, edits,
                 clobbers, overlaps>>

Proceed(e) == Save(e) \/ \E u \in Urls : Probe(e, u)

ChecksNext ==
  \/ Tick \/ EditWrite
  \/ \E u \in Urls : SiteFlips(u)
  \/ \E t \in SUBSET Urls : EditRead(t) \/ EditReadFails(t)
  \/ \E e \in Evaluators : Start(e) \/ Proceed(e) \/ Fail(e)

ChecksSpec == ChecksInit /\ [][ChecksNext]_checksVars

\* Time passes, the server's loop comes round (the interval gate apart), and
\* an evaluation that started goes on, since its fetches time out.
ChecksFairness ==
  /\ WF_checksVars(Tick) /\ WF_checksVars(Start(Loop))
  /\ \A e \in Evaluators : WF_checksVars(Proceed(e))

ChecksFairSpec == ChecksSpec /\ ChecksFairness

-----------------------------------------------------------------------------
Levels == {"alert", "recovery"}
UrlState == [status : {"unknown", "up", "down"}, raw : {"none", "up", "down"},
             streak : 0..Threshold, age : 0..Interval]
Holder == [pc : {"idle", "probe", "write"}, todo : SUBSET Urls, targets : SUBSET Urls,
           state : [Urls -> UrlState], age : 0..Interval, stale : BOOLEAN]

\* The type invariant of the row, of its readers and of the pages.
ChecksTypeOK ==
  /\ site \in [Urls -> {"up", "down"}]
  /\ stored \in [targets : SUBSET Urls, state : [Urls -> UrlState]]
  /\ ev \in [Evaluators -> Holder]
  /\ editor \in Holder
  /\ wanted \subseteq Urls
  /\ downs \in [Urls -> 0..Threshold] /\ observed \in [Urls -> 0..2]
  /\ pages \in [Urls -> Seq(Levels)]
  /\ flips \in Nat /\ blips \in Nat /\ edits \in Nat /\ faults \in Nat /\ clobbers \in Nat
  /\ overlaps \in Nat

Repeats(u) == {i \in 1..(Len(pages[u]) - 1) : pages[u][i] = pages[u][i + 1]}

\* A page repeats the one before it only where a write of the row was lost, to a
\* failure or to a write that undid it, or two evaluations read the same row:
\* at most one repeat of a url's page for each of these.  A write undoes others
\* when it is made of a row read before them, and always when the admin route
\* could not read the row (getSetting(...).catch(() => null)).
RepeatsOnlyFromLostWrites ==
  \A u \in Urls : Cardinality(Repeats(u)) <= faults + clobbers + overlaps

\* No page for the first observation of a target, and no alert before Threshold
\* probes of it in a row were down: while evaluations do not overlap and no write
\* was lost, in a page sent from a row that is still as it was read (the streak
\* and the baseline).
PagesEarned ==
  [][\A u \in Urls :
       /\ Len(pages'[u]) > Len(pages[u])
       /\ faults = 0 /\ clobbers = 0 /\ overlaps = 0 /\ \A e \in Evaluators : ~ev[e].stale
       => /\ observed'[u] > 1
          /\ pages'[u][Len(pages'[u])] = "alert" => downs'[u] = Threshold]_checksVars

\* A target whose site stays down, or up, is in the end recorded so, through
\* lost writes, stale writes and timeouts before.
Settles ==
  \A u \in Urls :
    /\ <>[](u \in stored.targets /\ site[u] = "down") => <>[](stored.state[u].status = "down")
    /\ <>[](u \in stored.targets /\ site[u] = "up") => <>[](stored.state[u].status = "up")

Undisturbed == edits + faults = 0 /\ overlaps = 0

\* A target is down as the pager sees it from the probe that pages, that is in
\* the row an evaluation is about to write.
Alerted ==
  [u \in Urls |->
     LET holders == {e \in Evaluators : ev[e].pc = "probe"} IN
     /\ Undisturbed
     /\ IF holders = {} THEN stored.state[u].status = "down"
        ELSE \E e \in holders : ev[e].state[u].status = "down"]

PagesSeen == [u \in Urls |-> IF Undisturbed THEN pages[u] ELSE <<>>]

P == INSTANCE Pager WITH Subjects <- Urls, RaiseLevel <- "alert", ClearLevel <- "recovery",
                         Reminders <- FALSE, alerted <- Alerted, pages <- PagesSeen

\* Until the first edit, failure or overlap of evaluations, the checks page as
\* Pager promises, from a silent baseline on: alerts and recoveries alternate.
ImplementsPager == P!Spec
=============================================================================
