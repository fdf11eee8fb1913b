------------------------------- MODULE Pager -------------------------------
(***************************************************************************)
(* What an alerting engine promises of the pages it sends about a subject  *)
(* (a node's silence, a rule on a node, an HTTP target): a problem is      *)
(* raised once, cleared once, and raised again only after it was cleared.  *)
(* An engine that reminds may repeat the raise while the problem lasts.    *)
(* Deleting a subject forgets its pages.                                   *)
(***************************************************************************)
EXTENDS Sequences, Naturals

CONSTANTS
  Subjects,
  RaiseLevel, ClearLevel,   \* the NotifyLevel of the two pages
  Reminders                 \* whether a standing problem is paged again

VARIABLES
  alerted,   \* per subject: a problem stands
  pages      \* per subject: the pages sent since it was last forgotten

Init ==
  /\ alerted = [s \in Subjects |-> FALSE]
  /\ pages = [s \in Subjects |-> <<>>]

Page(s, level) == pages' = [pages EXCEPT ![s] = Append(@, level)]

Raise(s) ==
  /\ ~alerted[s]
  /\ alerted' = [alerted EXCEPT ![s] = TRUE]
  /\ Page(s, RaiseLevel)

Remind(s) ==
  /\ Reminders
  /\ alerted[s]
  /\ Page(s, RaiseLevel)
  /\ UNCHANGED alerted

Clear(s) ==
  /\ alerted[s]
  /\ alerted' = [alerted EXCEPT ![s] = FALSE]
  /\ Page(s, ClearLevel)

\* A deletion; a write that was under way may leave the flags either way.
Forget(q) ==
  /\ pages' = [s \in Subjects |-> IF s \in q THEN <<>> ELSE pages[s]]
  /\ alerted' \in [Subjects -> BOOLEAN]
  /\ \A s \in Subjects \ q : alerted'[s] = alerted[s]

Next ==
  \/ \E s \in Subjects : Raise(s) \/ Remind(s) \/ Clear(s)
  \/ \E q \in SUBSET Subjects : Forget(q)

Spec == Init /\ [][Next]_<<alerted, pages>>
=============================================================================
