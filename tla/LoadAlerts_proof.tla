------------------------- MODULE LoadAlerts_proof -------------------------
(* What is proved of the load alerts for any number of rules, nodes and    *)
(* evaluations: the states left behind are those of rules and nodes there  *)
(* are, early reminders are paid for by failures and overlaps, and         *)
(* undisturbed evaluations page as Pager promises.                         *)
EXTENDS LoadAlerts, FiniteSetTheorems, SequenceTheorems, TLAPS

Active == {e \in Evaluators : ev[e].pc # "idle"}

\* Evaluations that may still alert the pair, and those that will send no
\* alert more about it and have yet to write its state.
Listed(q, p) == \E j \in q.jobs : j.rule = p[1] /\ p[2] \in j.scope

Sends(q, p) == q.pc = "notify" /\ q.rule = p[1] /\ <<p[2], "alert">> \in q.send

Faces(q, p) ==
  \/ q.pc = "list" /\ p[2] \in q.nodes
  \/ Listed(q, p)
  \/ q.pc = "states" /\ q.rule = p[1] /\ p[2] \in q.scope
  \/ Sends(q, p)

Holds(q, p) ==
  /\ q.pc = "notify" /\ q.rule = p[1]
  /\ p[2] \in NodesIn(q.rows) /\ <<p[2], "alert">> \notin q.send

Facing(p) == {e \in Evaluators : Faces(ev[e], p)}
Holding(p) == {e \in Evaluators : Holds(ev[e], p)}

\* An alert that was the last of the pages s has its time, or a later one, in
\* the row u: whoever reads the row next is not early.
Standing(s) == s # <<>> /\ s[Len(s)].level = "alert"
Guards(u, s) == Standing(s) => u.firing /\ u.notified >= s[Len(s)].ts
Timely(q, s) == Standing(s) => q.now - s[Len(s)].ts >= Renotify

\* An evaluation will leave the row so.
RowFor(q, p) == CHOOSE u \in q.rows : u.node = p[2]
Keeps(q, p, s) == <<p[2], "recovery">> \in q.send \/ Guards(RowFor(q, p), s)
Kept(p) == \E e \in Evaluators : Holds(ev[e], p) /\ Keeps(ev[e], p, pages[p])

Astray(p) == ~Guards(state[p], pages[p]) /\ ~Kept(p)

\* The next alert is early only if the row has gone astray, which pays for it.
Clear(p) ==
  /\ Facing(p) # {}
  /\ ~Guards(state[p], pages[p]) => ~Kept(p)
  /\ Guards(state[p], pages[p]) =>
       \A e \in Evaluators : Sends(ev[e], p) => Timely(ev[e], pages[p])

Bit(b) == IF b THEN 1 ELSE 0

\* What the first of the evaluations in progress has free.
Credit(p) ==
  IF Clear(p) THEN 2
  ELSE Bit(Kept(p) \/ (Astray(p) /\ Holding(p) # {}))

\* What failures and overlaps pay for.
Budget(f, o) == f + 2 * o

\* Each evaluation may page early and leave the row astray: whatever has become
\* of it is paid for.
Owed(p) ==
  Cardinality(Premature(p)) + 2 * Cardinality(Facing(p)) + Cardinality(Holding(p))
    + Bit(Astray(p)) - Credit(p)

Paid(p) == Owed(p) <= Budget(faults, overlaps)

\* Each evaluation in progress but one has been counted when it began.
Crowd == IsFiniteSet(Active) /\ Cardinality(Active) <= 1 + overlaps

\* What an evaluation holds at each place.
SoundJobs(q) ==
  /\ \A j \in q.jobs : j.scope \subseteq q.nodes
  /\ \A i, j \in q.jobs : i.rule = j.rule => i = j
  /\ q.pc \in {"idle", "list"} => q.jobs = {}
  /\ q.pc \in {"states", "notify"} =>
       /\ q.rule \in Rules /\ q.scope \subseteq q.nodes /\ q.over \subseteq q.scope
       /\ \A j \in q.jobs : j.rule # q.rule

SoundSends(q) ==
  /\ \A n \in Nodes : <<n, "alert">> \in q.send =>
       /\ n \in NodesIn(q.rows) /\ <<n, "recovery">> \notin q.send
       /\ \A u \in q.rows : u.node = n => u.firing /\ u.notified = q.now
  /\ \A n \in Nodes : <<n, "recovery">> \in q.send =>
       /\ n \in NodesIn(q.rows)
       /\ \A u \in q.rows : u.node = n => ~u.firing

Sound(q) ==
  /\ q.pc # "idle" => q.now >= Renotify
  /\ SoundJobs(q)
  /\ q.pc # "notify" => q.rows = {} /\ q.send = {}
  /\ \A u \in q.rows : u.node \in q.scope
  /\ SoundSends(q)

AllSound == \A e \in Evaluators : Sound(ev[e])

\* Every page has a time.
Dated == \A p \in Pairs : \A i \in DOMAIN pages[p] : pages[p][i].ts > 0

\* Unless it met a deletion, an evaluation is about rules and nodes there are.
Current(q, here, row) ==
  q.pc # "idle" =>
    /\ q.nodes \subseteq here
    /\ \A j \in q.jobs : row[j.rule].exists
    /\ q.pc \in {"states", "notify"} => row[q.rule].exists

LoadInv ==
  /\ TypeOK /\ clock >= Renotify /\ AllSound /\ Crowd /\ Dated
  /\ \A p \in Pairs : Paid(p)

-----------------------------------------------------------------------------
(* What the steps of an evaluation do to it *)

Job == [rule : Rules, scope : SUBSET Nodes]
Send == Nodes \X Levels
Row == [node : Nodes, firing : BOOLEAN, notified : Nat]

LEMMA OneEvaluation ==
  ASSUME TypeOK, NEW e \in Evaluators, NEW q \in Evaluation, ev' = [ev EXCEPT ![e] = q]
  PROVE  /\ ev' \in [Evaluators -> Evaluation]
         /\ ev'[e] = q
         /\ \A x \in Evaluators \ {e} : ev'[x] = ev[x]
  BY DEF TypeOK

LEMMA IdleType ==
  /\ Idle \in Evaluation
  /\ Idle.pc = "idle" /\ Idle.jobs = {} /\ Idle.rows = {} /\ Idle.send = {}
  BY DEF Idle, Evaluation

LEMMA OnwardDoes ==
  ASSUME NEW q \in Evaluation, NEW jobs \in SUBSET Job
  PROVE  /\ Onward(q, jobs) \in Evaluation
         /\ Onward(q, jobs).rows = {} /\ Onward(q, jobs).send = {} /\ Onward(q, jobs).jobs = jobs
         /\ Onward(q, jobs).pc \in {"idle", "rule"}
         /\ Onward(q, jobs).pc = "idle" => jobs = {}
         /\ Onward(q, jobs).pc = "rule" =>
              Onward(q, jobs).now = q.now /\ Onward(q, jobs).nodes = q.nodes
<1>1. CASE jobs = {}
  BY <1>1, IdleType DEF Onward
<1>2. CASE jobs # {}
  <2> DEFINE x == [Idle EXCEPT !.pc = "rule", !.now = q.now, !.nodes = q.nodes, !.jobs = jobs]
  <2>1. Onward(q, jobs) = x
    BY <1>2 DEF Onward
  <2>2. q.now \in Nat /\ q.nodes \in SUBSET Nodes
    BY DEF Evaluation
  <2>3. x \in Evaluation
    BY <2>2 DEF Idle, Evaluation, Job
  <2>4. /\ x.rows = {} /\ x.send = {} /\ x.jobs = jobs
        /\ x.pc = "rule" /\ x.now = q.now /\ x.nodes = q.nodes
    BY DEF Idle
  <2> QED BY <2>1, <2>3, <2>4
<1> QED BY <1>1, <1>2

LEMMA StartDoes ==
  ASSUME TypeOK, NEW e \in Evaluators, Start(e)
  PROVE  /\ ev' \in [Evaluators -> Evaluation]
         /\ \A x \in Evaluators \ {e} : ev'[x] = ev[x]
         /\ ev[e].pc = "idle"
         /\ ev'[e].pc = "list" /\ ev'[e].now = clock /\ ev'[e].nodes = present
         /\ ev'[e].jobs = {} /\ ev'[e].rows = {} /\ ev'[e].send = {}
<1> DEFINE q == [Idle EXCEPT !.pc = "list", !.now = clock, !.nodes = present]
<1>1. q \in Evaluation
  BY DEF Idle, Evaluation, TypeOK
<1>2. /\ q.pc = "list" /\ q.now = clock /\ q.nodes = present
      /\ q.jobs = {} /\ q.rows = {} /\ q.send = {}
  BY DEF Idle
<1>3. ev' = [ev EXCEPT ![e] = q] /\ ev[e].pc = "idle"
  BY DEF Start
<1> HIDE DEF q
<1> QED BY <1>1, <1>2, <1>3, OneEvaluation

LEMMA JobsType ==
  ASSUME TypeOK, NEW nodes \in SUBSET Nodes
  PROVE  /\ Jobs(nodes) \in SUBSET Job
         /\ \A j \in Jobs(nodes) : j.scope \subseteq nodes /\ rule[j.rule].exists
         /\ \A i, j \in Jobs(nodes) : i.rule = j.rule => i = j
<1>1. ASSUME NEW j \in Jobs(nodes)
      PROVE  \E r \in Rules : j = [rule |-> r, scope |-> Scope(rule[r], nodes)] /\ rule[r].exists
  BY DEF Jobs
<1>2. ASSUME NEW r \in Rules PROVE Scope(rule[r], nodes) \subseteq nodes
  BY DEF Scope
<1>3. ASSUME NEW j \in Jobs(nodes)
      PROVE  /\ j \in Job /\ j.scope \subseteq nodes /\ rule[j.rule].exists
             /\ j.scope = Scope(rule[j.rule], nodes)
  <2>1. PICK r \in Rules : j = [rule |-> r, scope |-> Scope(rule[r], nodes)] /\ rule[r].exists
    BY <1>1
  <2>2. Scope(rule[r], nodes) \in SUBSET Nodes
    BY <1>2
  <2> QED BY <1>2, <2>1, <2>2 DEF Job
<1>4. \A i, j \in Jobs(nodes) : i.rule = j.rule => i = j
  BY <1>3 DEF Job
<1> QED BY <1>3, <1>4

LEMMA ListDoes ==
  ASSUME TypeOK, NEW e \in Evaluators, ListRules(e)
  PROVE  /\ ev' \in [Evaluators -> Evaluation]
         /\ \A x \in Evaluators \ {e} : ev'[x] = ev[x]
         /\ ev[e].pc = "list" /\ ev[e].nodes \in SUBSET Nodes
         /\ ev'[e].jobs = Jobs(ev[e].nodes) /\ ev'[e].rows = {} /\ ev'[e].send = {}
         /\ ev'[e].pc \in {"idle", "rule"}
         /\ ev'[e].pc = "idle" => ev'[e].jobs = {}
         /\ ev'[e].pc = "rule" => ev'[e].now = ev[e].now /\ ev'[e].nodes = ev[e].nodes
<1>1. ev[e] \in Evaluation /\ ev[e].nodes \in SUBSET Nodes
  BY DEF TypeOK, Evaluation
<1> DEFINE jobs == Jobs(ev[e].nodes)
           q == Onward(ev[e], jobs)
<1>2. jobs \in SUBSET Job
  BY <1>1, JobsType
<1> HIDE DEF jobs
<1>3. /\ q \in Evaluation
      /\ q.rows = {} /\ q.send = {} /\ q.jobs = jobs
      /\ q.pc \in {"idle", "rule"}
      /\ q.pc = "idle" => jobs = {}
      /\ q.pc = "rule" => q.now = ev[e].now /\ q.nodes = ev[e].nodes
  BY <1>1, <1>2, OnwardDoes
<1>4. ev' = [ev EXCEPT ![e] = q] /\ ev[e].pc = "list"
  BY DEF ListRules, jobs
<1> HIDE DEF q
<1>5. ev' \in [Evaluators -> Evaluation] /\ ev'[e] = q /\ \A x \in Evaluators \ {e} : ev'[x] = ev[x]
  BY <1>3, <1>4, OneEvaluation
<1> QED BY <1>1, <1>3, <1>4, <1>5 DEF jobs

LEMMA AggregateDoes ==
  ASSUME TypeOK, NEW e \in Evaluators, Aggregate(e)
  PROVE  /\ ev' \in [Evaluators -> Evaluation]
         /\ \A x \in Evaluators \ {e} : ev'[x] = ev[x]
         /\ ev[e].pc = "rule" /\ ev'[e].pc = "states"
         /\ ev'[e].now = ev[e].now /\ ev'[e].nodes = ev[e].nodes
         /\ ev'[e].rows = ev[e].rows /\ ev'[e].send = ev[e].send
         /\ \E j \in ev[e].jobs :
              /\ ev'[e].rule = j.rule /\ ev'[e].scope = j.scope
              /\ ev'[e].over \subseteq j.scope /\ ev'[e].jobs = ev[e].jobs \ {j}
<1>1. PICK j \in ev[e].jobs :
        ev' = [ev EXCEPT ![e] = [ev[e] EXCEPT !.pc = "states", !.rule = j.rule,
                   !.scope = j.scope, !.jobs = ev[e].jobs \ {j},
                   !.over = {n \in j.scope : <<j.rule, n>> \in hot}]]
  BY DEF Aggregate
<1> DEFINE over == {n \in j.scope : <<j.rule, n>> \in hot}
           jobs == ev[e].jobs \ {j}
           q == [ev[e] EXCEPT !.pc = "states", !.rule = j.rule,
                   !.scope = j.scope, !.jobs = jobs, !.over = over]
<1>2. ev[e] \in Evaluation /\ j \in Job /\ jobs \in SUBSET Job
  BY DEF TypeOK, Evaluation, Job
<1>3. j.rule \in Rules /\ j.scope \in SUBSET Nodes /\ over \in SUBSET Nodes /\ over \subseteq j.scope
  BY <1>2 DEF Job
<1>4. ev' = [ev EXCEPT ![e] = q] /\ ev[e].pc = "rule"
  BY <1>1 DEF Aggregate
<1> HIDE DEF over, jobs
<1>5. q \in Evaluation
  BY <1>2, <1>3 DEF Evaluation, Job
<1>6. /\ q.pc = "states" /\ q.now = ev[e].now /\ q.nodes = ev[e].nodes
      /\ q.rows = ev[e].rows /\ q.send = ev[e].send /\ q.rule = j.rule /\ q.scope = j.scope
      /\ q.over = over /\ q.jobs = jobs
  BY <1>2 DEF Evaluation
<1> HIDE DEF q
<1>7. /\ ev' \in [Evaluators -> Evaluation]
      /\ ev'[e] = q
      /\ \A x \in Evaluators \ {e} : ev'[x] = ev[x]
  BY <1>4, <1>5, OneEvaluation
<1>8. q.jobs = ev[e].jobs \ {j} /\ q.over \subseteq j.scope
  BY <1>3, <1>6 DEF jobs
<1> QED BY <1>4, <1>6, <1>7, <1>8

LEMMA OnwardStep ==
  ASSUME TypeOK, NEW e \in Evaluators, NEW jobs \in SUBSET ev[e].jobs,
         ev' = [ev EXCEPT ![e] = Onward(ev[e], jobs)]
  PROVE  /\ ev' \in [Evaluators -> Evaluation]
         /\ \A x \in Evaluators \ {e} : ev'[x] = ev[x]
         /\ ev'[e].jobs = jobs /\ ev'[e].rows = {} /\ ev'[e].send = {}
         /\ ev'[e].pc \in {"idle", "rule"}
         /\ ev'[e].pc = "idle" => jobs = {}
         /\ ev'[e].pc = "rule" => ev'[e].now = ev[e].now /\ ev'[e].nodes = ev[e].nodes
<1>1. ev[e] \in Evaluation /\ jobs \in SUBSET Job
  BY DEF TypeOK, Evaluation, Job
<1>2. /\ Onward(ev[e], jobs) \in Evaluation
      /\ Onward(ev[e], jobs).rows = {} /\ Onward(ev[e], jobs).send = {}
      /\ Onward(ev[e], jobs).jobs = jobs
      /\ Onward(ev[e], jobs).pc \in {"idle", "rule"}
      /\ Onward(ev[e], jobs).pc = "idle" => jobs = {}
      /\ Onward(ev[e], jobs).pc = "rule" =>
           /\ Onward(ev[e], jobs).now = ev[e].now
           /\ Onward(ev[e], jobs).nodes = ev[e].nodes
  BY <1>1, OnwardDoes
<1> DEFINE q == Onward(ev[e], jobs)
<1> HIDE DEF q
<1>3. q \in Evaluation /\ ev' = [ev EXCEPT ![e] = q]
  BY <1>2 DEF q
<1>4. ev' \in [Evaluators -> Evaluation] /\ ev'[e] = q /\ \A x \in Evaluators \ {e} : ev'[x] = ev[x]
  BY <1>3, OneEvaluation
<1> QED BY <1>2, <1>4 DEF q

LEMMA FailDoes ==
  ASSUME TypeOK, NEW e \in Evaluators, Fail(e)
  PROVE  /\ ev' \in [Evaluators -> Evaluation]
         /\ \A x \in Evaluators \ {e} : ev'[x] = ev[x]
         /\ ev'[e] = Idle
  BY IdleType, OneEvaluation DEF Fail

\* The rows and the pages of a rule, node by node.
Decided(q, st, n) ==
  /\ n \in NodesIn(RowsOf(q, st)) <=> n \in q.over \/ (n \in q.scope \ q.over /\ st[n].firing)
  /\ \A u \in RowsOf(q, st) : u.node = n =>
       /\ n \in q.scope
       /\ u.firing \in BOOLEAN /\ (u.firing <=> n \in q.over)
       /\ u.notified = IF n \in q.over /\ ~Due(st[n], q.now) THEN st[n].notified ELSE q.now
  /\ <<n, "alert">> \in SendsOf(q, st) <=> n \in q.over /\ Due(st[n], q.now)
  /\ <<n, "recovery">> \in SendsOf(q, st) <=> n \in q.scope \ q.over /\ st[n].firing

LEMMA RowsDo ==
  ASSUME NEW q \in Evaluation, q.over \subseteq q.scope, NEW st \in [Nodes -> StateRow], NEW n \in Nodes
  PROVE  Decided(q, st, n)
<1>1. \A u \in RowsOf(q, st) :
        \/ /\ u.node \in q.over /\ u.firing = TRUE
           /\ u.notified = IF Due(st[u.node], q.now) THEN q.now ELSE st[u.node].notified
        \/ /\ u.node \in q.scope \ q.over /\ st[u.node].firing /\ u.firing = FALSE /\ u.notified = q.now
  BY DEF RowsOf
<1>2. /\ n \in q.over => \E u \in RowsOf(q, st) : u.node = n
      /\ n \in q.scope \ q.over /\ st[n].firing => \E u \in RowsOf(q, st) : u.node = n
  <2>1. CASE n \in q.over
    <3>1. [node |-> n, firing |-> TRUE,
           notified |-> IF Due(st[n], q.now) THEN q.now ELSE st[n].notified] \in RowsOf(q, st)
      BY <2>1 DEF RowsOf
    <3> QED BY <2>1, <3>1
  <2>2. CASE n \in q.scope \ q.over /\ st[n].firing
    <3>1. [node |-> n, firing |-> FALSE, notified |-> q.now] \in RowsOf(q, st)
      BY <2>2 DEF RowsOf
    <3> QED BY <2>2, <3>1
  <2> QED BY <2>1, <2>2
<1>3. n \in NodesIn(RowsOf(q, st)) <=> \E u \in RowsOf(q, st) : u.node = n
  BY DEF NodesIn
<1>4. /\ <<n, "alert">> \in SendsOf(q, st) <=> n \in q.over /\ Due(st[n], q.now)
      /\ <<n, "recovery">> \in SendsOf(q, st) <=> n \in q.scope \ q.over /\ st[n].firing
  BY DEF SendsOf
<1>5. n \in NodesIn(RowsOf(q, st)) <=> n \in q.over \/ (n \in q.scope \ q.over /\ st[n].firing)
  BY <1>1, <1>2, <1>3
<1>6. ASSUME NEW u \in RowsOf(q, st), u.node = n
      PROVE  /\ n \in q.scope
             /\ u.firing \in BOOLEAN /\ (u.firing <=> n \in q.over)
             /\ u.notified = IF n \in q.over /\ ~Due(st[n], q.now) THEN st[n].notified ELSE q.now
  <2>1. CASE n \in q.over
    <3>1. u.firing = TRUE /\ u.notified = IF Due(st[n], q.now) THEN q.now ELSE st[n].notified
      BY <1>1, <1>6, <2>1
    <3> QED BY <2>1, <3>1
  <2>2. CASE n \notin q.over
    <3>1. n \in q.scope /\ u.firing = FALSE /\ u.notified = q.now
      BY <1>1, <1>6, <2>2
    <3> QED BY <2>2, <3>1
  <2> QED BY <2>1, <2>2
<1> QED BY <1>4, <1>5, <1>6 DEF Decided

LEMMA RowsType ==
  ASSUME NEW q \in Evaluation, NEW st \in [Nodes -> StateRow]
  PROVE  RowsOf(q, st) \in SUBSET Row /\ SendsOf(q, st) \in SUBSET Send
<1>1. q.now \in Nat /\ q.over \in SUBSET Nodes /\ q.scope \in SUBSET Nodes
  BY DEF Evaluation
<1>2. \A n \in Nodes : st[n].notified \in Nat
  BY DEF StateRow
<1>3. RowsOf(q, st) \in SUBSET Row
  <2>1. ASSUME NEW n \in Nodes
        PROVE  [node |-> n, firing |-> TRUE,
                notified |-> IF Due(st[n], q.now) THEN q.now ELSE st[n].notified] \in Row
    BY <1>1, <1>2 DEF Row
  <2>2. ASSUME NEW n \in Nodes PROVE [node |-> n, firing |-> FALSE, notified |-> q.now] \in Row
    BY <1>1 DEF Row
  <2> QED BY <1>1, <2>1, <2>2 DEF RowsOf
<1>4. SendsOf(q, st) \in SUBSET Send
  BY <1>1 DEF SendsOf, Send, Levels
<1> QED BY <1>3, <1>4

StateOf(r) == [n \in Nodes |-> state[<<r, n>>]]

LEMMA ReadDoes ==
  ASSUME TypeOK, NEW e \in Evaluators, ReadStates(e), ev[e].rule \in Rules
  PROVE  /\ ev' \in [Evaluators -> Evaluation]
         /\ \A x \in Evaluators \ {e} : ev'[x] = ev[x]
         /\ ev[e].pc = "states" /\ ev'[e].pc = "notify"
         /\ ev'[e].now = ev[e].now /\ ev'[e].nodes = ev[e].nodes /\ ev'[e].jobs = ev[e].jobs
         /\ ev'[e].rule = ev[e].rule /\ ev'[e].scope = ev[e].scope /\ ev'[e].over = ev[e].over
         /\ ev'[e].rows = RowsOf(ev[e], StateOf(ev[e].rule))
         /\ ev'[e].send = SendsOf(ev[e], StateOf(ev[e].rule))
         /\ StateOf(ev[e].rule) \in [Nodes -> StateRow]
<1> DEFINE st == StateOf(ev[e].rule)
           rows == RowsOf(ev[e], st)
           send == SendsOf(ev[e], st)
           q == [ev[e] EXCEPT !.pc = "notify", !.rows = rows, !.send = send]
<1>1. ev[e] \in Evaluation /\ st \in [Nodes -> StateRow]
  BY DEF TypeOK, StateOf, Pairs
<1>2. ev[e].pc = "states" /\ ev' = [ev EXCEPT ![e] = q]
  BY DEF ReadStates, StateOf
<1> HIDE DEF st
<1>3. rows \in SUBSET Row /\ send \in SUBSET Send
  BY <1>1, RowsType
<1> HIDE DEF rows, send
<1>4. q \in Evaluation
  BY <1>1, <1>3 DEF Evaluation, Row, Send
<1>5. /\ q.pc = "notify" /\ q.now = ev[e].now /\ q.nodes = ev[e].nodes /\ q.jobs = ev[e].jobs
      /\ q.rule = ev[e].rule /\ q.scope = ev[e].scope /\ q.over = ev[e].over
      /\ q.rows = rows /\ q.send = send
  BY <1>1 DEF Evaluation
<1> HIDE DEF q
<1>6. ev' \in [Evaluators -> Evaluation] /\ ev'[e] = q /\ \A x \in Evaluators \ {e} : ev'[x] = ev[x]
  BY <1>2, <1>4, OneEvaluation
<1> QED BY <1>1, <1>2, <1>5, <1>6 DEF rows, send, st

LEMMA NotifyDoes ==
  ASSUME TypeOK, NEW e \in Evaluators, Notify(e), ev[e].rule \in Rules
  PROVE  /\ ev' \in [Evaluators -> Evaluation]
         /\ \A x \in Evaluators \ {e} : ev'[x] = ev[x]
         /\ ev[e].pc = "notify" /\ ev'[e].pc = "notify"
         /\ ev'[e].now = ev[e].now /\ ev'[e].nodes = ev[e].nodes /\ ev'[e].jobs = ev[e].jobs
         /\ ev'[e].rule = ev[e].rule /\ ev'[e].scope = ev[e].scope /\ ev'[e].over = ev[e].over
         /\ ev'[e].rows = ev[e].rows
         /\ \E n \in Nodes, level \in Levels :
              /\ <<n, level>> \in ev[e].send /\ ev'[e].send = ev[e].send \ {<<n, level>>}
              /\ pages'[<<ev[e].rule, n>>] =
                   Append(pages[<<ev[e].rule, n>>], [level |-> level, ts |-> ev[e].now])
              /\ \A p \in Pairs \ {<<ev[e].rule, n>>} : pages'[p] = pages[p]
              /\ pages' = [pages EXCEPT ![<<ev[e].rule, n>>] =
                             Append(pages[<<ev[e].rule, n>>], [level |-> level, ts |-> ev[e].now])]
<1>1. PICK s \in ev[e].send :
        /\ pages' = [pages EXCEPT ![<<ev[e].rule, s[1]>>] =
                      Append(@, [level |-> s[2], ts |-> ev[e].now])]
        /\ ev' = [ev EXCEPT ![e] = [ev[e] EXCEPT !.send = ev[e].send \ {s}]]
  BY DEF Notify
<1> DEFINE send == ev[e].send \ {s}
           q == [ev[e] EXCEPT !.send = send]
           n == s[1]
           level == s[2]
<1>2. ev[e] \in Evaluation /\ s \in Send
  BY DEF TypeOK, Evaluation, Send
<1>3. send \in SUBSET Send
  BY <1>2 DEF Evaluation, Send
<1>4. n \in Nodes /\ level \in Levels /\ s = <<n, level>>
  BY <1>2 DEF Send
<1>5. ev[e].pc = "notify" /\ ev' = [ev EXCEPT ![e] = q]
  BY <1>1 DEF Notify
<1>6. <<ev[e].rule, n>> \in Pairs
  BY <1>4 DEF Pairs
<1>7. /\ pages'[<<ev[e].rule, n>>] =
           Append(pages[<<ev[e].rule, n>>], [level |-> level, ts |-> ev[e].now])
      /\ \A p \in Pairs \ {<<ev[e].rule, n>>} : pages'[p] = pages[p]
      /\ pages' = [pages EXCEPT ![<<ev[e].rule, n>>] =
                     Append(pages[<<ev[e].rule, n>>], [level |-> level, ts |-> ev[e].now])]
  BY <1>1, <1>6 DEF TypeOK
<1> HIDE DEF send
<1>8. q \in Evaluation
  BY <1>2, <1>3 DEF Evaluation, Send
<1>9. /\ q.pc = ev[e].pc /\ q.now = ev[e].now /\ q.nodes = ev[e].nodes /\ q.jobs = ev[e].jobs
      /\ q.rule = ev[e].rule /\ q.scope = ev[e].scope /\ q.over = ev[e].over
      /\ q.rows = ev[e].rows /\ q.send = send
  BY <1>2 DEF Evaluation
<1> HIDE DEF q
<1>10. ev' \in [Evaluators -> Evaluation] /\ ev'[e] = q /\ \A x \in Evaluators \ {e} : ev'[x] = ev[x]
  BY <1>5, <1>8, OneEvaluation
<1>11. <<n, level>> \in ev[e].send /\ ev'[e].send = ev[e].send \ {<<n, level>>}
  BY <1>4, <1>9, <1>10 DEF send
<1> QED BY <1>4, <1>5, <1>7, <1>9, <1>10, <1>11

-----------------------------------------------------------------------------
(* Types, and what an evaluation holds *)

\* A rule left, or the evaluation: the jobs that remain are some of those it had.
LEMMA LeftSound ==
  ASSUME NEW q \in Evaluation, NEW w \in Evaluation, Sound(q),
         w.jobs \subseteq q.jobs, w.rows = {}, w.send = {}, w.pc \in {"idle", "rule"},
         w.pc = "idle" => w.jobs = {},
         w.pc = "rule" => q.pc # "idle" /\ w.now = q.now /\ w.nodes = q.nodes
  PROVE  Sound(w)
<1>1. SoundJobs(w)
  BY DEF SoundJobs, Sound
<1>2. SoundSends(w)
  BY DEF SoundSends
<1> QED BY <1>1, <1>2 DEF Sound

LEMMA ListSound ==
  ASSUME TypeOK, NEW e \in Evaluators, Sound(ev[e]), ListRules(e)
  PROVE  Sound(ev'[e])
<1>1. /\ ev[e].pc = "list" /\ ev[e].nodes \in SUBSET Nodes
      /\ ev'[e].jobs = Jobs(ev[e].nodes) /\ ev'[e].rows = {} /\ ev'[e].send = {}
      /\ ev'[e].pc \in {"idle", "rule"}
      /\ ev'[e].pc = "idle" => ev'[e].jobs = {}
      /\ ev'[e].pc = "rule" => ev'[e].now = ev[e].now /\ ev'[e].nodes = ev[e].nodes
  BY ListDoes
<1>2. /\ \A j \in Jobs(ev[e].nodes) : j.scope \subseteq ev[e].nodes
      /\ \A i, j \in Jobs(ev[e].nodes) : i.rule = j.rule => i = j
  BY <1>1, JobsType
<1>3. SoundJobs(ev'[e])
  BY <1>1, <1>2 DEF SoundJobs
<1>4. SoundSends(ev'[e])
  BY <1>1 DEF SoundSends
<1>5. ev'[e].pc # "idle" => ev'[e].now >= Renotify
  BY <1>1 DEF Sound
<1> QED BY <1>1, <1>3, <1>4, <1>5 DEF Sound

LEMMA AggregateSound ==
  ASSUME TypeOK, NEW e \in Evaluators, Sound(ev[e]), Aggregate(e)
  PROVE  Sound(ev'[e])
<1>1. /\ ev[e].pc = "rule" /\ ev'[e].pc = "states"
      /\ ev'[e].now = ev[e].now /\ ev'[e].nodes = ev[e].nodes
      /\ ev'[e].rows = ev[e].rows /\ ev'[e].send = ev[e].send
  BY AggregateDoes
<1>2. PICK j \in ev[e].jobs :
        /\ ev'[e].rule = j.rule /\ ev'[e].scope = j.scope
        /\ ev'[e].over \subseteq j.scope /\ ev'[e].jobs = ev[e].jobs \ {j}
  BY AggregateDoes
<1>3. j.rule \in Rules
  <2>1. ev[e] \in Evaluation
    BY DEF TypeOK
  <2>2. ev[e].jobs \in SUBSET Job
    BY <2>1 DEF Evaluation, Job
  <2> QED BY <2>2 DEF Job
<1>4. SoundJobs(ev[e]) /\ ev[e].rows = {} /\ ev[e].send = {}
  BY <1>1 DEF Sound
<1>5. SoundJobs(ev'[e])
  BY <1>1, <1>2, <1>3, <1>4 DEF SoundJobs
<1>6. SoundSends(ev'[e])
  BY <1>1, <1>4 DEF SoundSends
<1> QED BY <1>1, <1>4, <1>5, <1>6 DEF Sound

LEMMA DecisionsSound ==
  ASSUME NEW q \in Evaluation, q.over \subseteq q.scope, NEW st \in [Nodes -> StateRow],
         NEW w, w.rows = RowsOf(q, st), w.send = SendsOf(q, st), w.now = q.now
  PROVE  SoundSends(w) /\ \A u \in w.rows : u.node \in q.scope
<1>0. ASSUME NEW n \in Nodes PROVE Decided(q, st, n)
  BY RowsDo
<1>1. \A u \in w.rows : u.node \in q.scope
  <2>1. RowsOf(q, st) \in SUBSET Row
    BY RowsType
  <2>2. ASSUME NEW u \in RowsOf(q, st) PROVE u.node \in q.scope
    <3>1. u.node \in Nodes
      BY <2>1 DEF Row
    <3> QED BY <1>0, <2>2, <3>1 DEF Decided
  <2> QED BY <2>2
<1>2. ASSUME NEW n \in Nodes, <<n, "alert">> \in w.send
      PROVE  /\ n \in NodesIn(w.rows) /\ <<n, "recovery">> \notin w.send
             /\ \A u \in w.rows : u.node = n => u.firing /\ u.notified = w.now
  <2>1. n \in q.over /\ Due(st[n], q.now)
    BY <1>2, <1>0 DEF Decided
  <2>2. n \in NodesIn(RowsOf(q, st)) /\ <<n, "recovery">> \notin SendsOf(q, st)
    BY <2>1, <1>0 DEF Decided
  <2>3. \A u \in RowsOf(q, st) : u.node = n => u.firing /\ u.notified = q.now
    BY <2>1, <1>0 DEF Decided
  <2> QED BY <2>2, <2>3
<1>3. ASSUME NEW n \in Nodes, <<n, "recovery">> \in w.send
      PROVE  n \in NodesIn(w.rows) /\ \A u \in w.rows : u.node = n => ~u.firing
  <2>1. n \in q.scope \ q.over /\ st[n].firing
    BY <1>3, <1>0 DEF Decided
  <2>2. n \in NodesIn(RowsOf(q, st))
    BY <2>1, <1>0 DEF Decided
  <2>3. \A u \in RowsOf(q, st) : u.node = n => ~u.firing
    BY <2>1, <1>0 DEF Decided
  <2> QED BY <2>2, <2>3
<1> QED BY <1>1, <1>2, <1>3 DEF SoundSends

LEMMA ReadSound ==
  ASSUME TypeOK, NEW e \in Evaluators, Sound(ev[e]), ReadStates(e)
  PROVE  Sound(ev'[e])
<1>1. SoundJobs(ev[e]) /\ ev[e].pc = "states" /\ ev[e] \in Evaluation
  BY DEF ReadStates, Sound, TypeOK
<1>2. ev[e].rule \in Rules /\ ev[e].over \subseteq ev[e].scope
  BY <1>1 DEF SoundJobs
<1> DEFINE st == StateOf(ev[e].rule)
<1>3. /\ ev'[e].pc = "notify"
      /\ ev'[e].now = ev[e].now /\ ev'[e].nodes = ev[e].nodes /\ ev'[e].jobs = ev[e].jobs
      /\ ev'[e].rule = ev[e].rule /\ ev'[e].scope = ev[e].scope /\ ev'[e].over = ev[e].over
      /\ ev'[e].rows = RowsOf(ev[e], st) /\ ev'[e].send = SendsOf(ev[e], st)
      /\ st \in [Nodes -> StateRow]
  BY <1>2, ReadDoes
<1> HIDE DEF st
<1>4. SoundJobs(ev'[e])
  BY <1>1, <1>3 DEF SoundJobs
<1>5. SoundSends(ev'[e]) /\ \A u \in ev'[e].rows : u.node \in ev[e].scope
  BY <1>1, <1>2, <1>3, DecisionsSound
<1> QED BY <1>1, <1>3, <1>4, <1>5 DEF Sound

LEMMA NotifySound ==
  ASSUME TypeOK, NEW e \in Evaluators, Sound(ev[e]), Notify(e)
  PROVE  Sound(ev'[e])
<1>1. SoundJobs(ev[e]) /\ SoundSends(ev[e]) /\ ev[e].pc = "notify"
  BY DEF Notify, Sound
<1>2. ev[e].rule \in Rules
  BY <1>1 DEF SoundJobs
<1>3. /\ ev'[e].pc = "notify"
      /\ ev'[e].now = ev[e].now /\ ev'[e].nodes = ev[e].nodes /\ ev'[e].jobs = ev[e].jobs
      /\ ev'[e].rule = ev[e].rule /\ ev'[e].scope = ev[e].scope /\ ev'[e].over = ev[e].over
      /\ ev'[e].rows = ev[e].rows /\ ev'[e].send \subseteq ev[e].send
  BY <1>2, NotifyDoes
<1>4. SoundJobs(ev'[e])
  BY <1>1, <1>3 DEF SoundJobs
<1>5. SoundSends(ev'[e])
  BY <1>1, <1>3 DEF SoundSends
<1> QED BY <1>1, <1>3, <1>4, <1>5 DEF Sound

\* The steps that leave a rule, whatever became of it.
Leaves(e) == AggregateThrows(e) \/ Save(e) \/ RuleFails(e)

LEMMA LeavesDo ==
  ASSUME TypeOK, NEW e \in Evaluators, Leaves(e)
  PROVE  /\ ev' \in [Evaluators -> Evaluation]
         /\ \A x \in Evaluators \ {e} : ev'[x] = ev[x]
         /\ ev[e].pc # "idle"
         /\ ev'[e].rows = {} /\ ev'[e].send = {} /\ ev'[e].pc \in {"idle", "rule"}
         /\ ev'[e].pc = "idle" => ev'[e].jobs = {}
         /\ ev'[e].pc = "rule" => ev'[e].now = ev[e].now /\ ev'[e].nodes = ev[e].nodes
         /\ \/ ev'[e].jobs = ev[e].jobs /\ ev[e].pc \in {"states", "notify"}
            \/ ev[e].pc = "rule" /\ \E j \in ev[e].jobs : ev'[e].jobs = ev[e].jobs \ {j}
<1>1. CASE AggregateThrows(e)
  <2>1. PICK j \in ev[e].jobs : ev' = [ev EXCEPT ![e] = Onward(ev[e], ev[e].jobs \ {j})]
    BY <1>1 DEF AggregateThrows, AfterError
  <2>2. ev[e].jobs \ {j} \in SUBSET ev[e].jobs /\ ev[e].pc = "rule"
    BY <1>1 DEF AggregateThrows
  <2> DEFINE jobs == ev[e].jobs \ {j}
  <2>3. jobs \in SUBSET ev[e].jobs /\ ev' = [ev EXCEPT ![e] = Onward(ev[e], jobs)]
    BY <2>1, <2>2
  <2>4. ev[e].pc = "rule" /\ \E i \in ev[e].jobs : jobs = ev[e].jobs \ {i}
    BY <2>2
  <2> HIDE DEF jobs
  <2> QED BY <2>3, <2>4, OnwardStep
<1>2. CASE Save(e) \/ RuleFails(e)
  <2>1. ev' = [ev EXCEPT ![e] = Onward(ev[e], ev[e].jobs)] /\ ev[e].pc \in {"states", "notify"}
    BY <1>2 DEF Save, RuleFails, AfterError
  <2>2. ev[e].jobs \in SUBSET ev[e].jobs
    OBVIOUS
  <2> QED BY <2>1, <2>2, OnwardStep
<1> QED BY <1>1, <1>2 DEF Leaves

LEMMA EvaluationSound ==
  ASSUME TypeOK, clock >= Renotify, NEW e \in Evaluators, Sound(ev[e]),
         Start(e) \/ Proceed(e) \/ RuleFails(e) \/ Fail(e)
  PROVE  /\ ev' \in [Evaluators -> Evaluation]
         /\ \A x \in Evaluators \ {e} : ev'[x] = ev[x]
         /\ Sound(ev'[e])
<1>1. CASE Start(e)
  <2>1. /\ ev' \in [Evaluators -> Evaluation]
        /\ \A x \in Evaluators \ {e} : ev'[x] = ev[x]
        /\ ev'[e].pc = "list" /\ ev'[e].now = clock
        /\ ev'[e].jobs = {} /\ ev'[e].rows = {} /\ ev'[e].send = {}
    BY <1>1, StartDoes
  <2>2. SoundJobs(ev'[e])
    BY <2>1 DEF SoundJobs
  <2>3. SoundSends(ev'[e])
    BY <2>1 DEF SoundSends
  <2> QED BY <2>1, <2>2, <2>3 DEF Sound
<1>2. CASE ListRules(e)
  BY <1>2, ListDoes, ListSound
<1>3. CASE Aggregate(e)
  BY <1>3, AggregateDoes, AggregateSound
<1>4. CASE ReadStates(e)
  <2>1. ev[e].rule \in Rules
    BY <1>4 DEF ReadStates, Sound, SoundJobs
  <2> QED BY <1>4, <2>1, ReadDoes, ReadSound
<1>5. CASE Notify(e)
  <2>1. ev[e].rule \in Rules
    BY <1>5 DEF Notify, Sound, SoundJobs
  <2> QED BY <1>5, <2>1, NotifyDoes, NotifySound
<1>6. CASE Leaves(e)
  <2>1. /\ ev' \in [Evaluators -> Evaluation]
        /\ \A x \in Evaluators \ {e} : ev'[x] = ev[x]
        /\ ev[e].pc # "idle"
        /\ ev'[e].rows = {} /\ ev'[e].send = {} /\ ev'[e].pc \in {"idle", "rule"}
        /\ ev'[e].pc = "idle" => ev'[e].jobs = {}
        /\ ev'[e].pc = "rule" => ev'[e].now = ev[e].now /\ ev'[e].nodes = ev[e].nodes
        /\ ev'[e].jobs \subseteq ev[e].jobs
    BY <1>6, LeavesDo
  <2>2. ev[e] \in Evaluation /\ ev'[e] \in Evaluation
    BY <2>1 DEF TypeOK
  <2> DEFINE q == ev[e]
             w == ev'[e]
  <2>3. /\ q \in Evaluation /\ w \in Evaluation /\ Sound(q)
        /\ w.jobs \subseteq q.jobs /\ w.rows = {} /\ w.send = {} /\ w.pc \in {"idle", "rule"}
        /\ w.pc = "idle" => w.jobs = {}
        /\ w.pc = "rule" => q.pc # "idle" /\ w.now = q.now /\ w.nodes = q.nodes
    BY <2>1, <2>2
  <2> HIDE DEF q, w
  <2>4. Sound(w)
    BY <2>3, LeftSound
  <2> QED BY <2>1, <2>4 DEF w
<1>7. CASE Fail(e)
  <2>1. /\ ev' \in [Evaluators -> Evaluation]
        /\ \A x \in Evaluators \ {e} : ev'[x] = ev[x]
        /\ ev'[e] = Idle
    BY <1>7, FailDoes
  <2>2. Sound(Idle)
    BY IdleType DEF Sound, SoundJobs, SoundSends
  <2> QED BY <2>1, <2>2
<1> QED BY <1>1, <1>2, <1>3, <1>4, <1>5, <1>6, <1>7 DEF Proceed, Leaves

\* What is done outside the evaluations.
Outside ==
  \/ UNCHANGED vars \/ Tick
  \/ \E p \in Pairs : Flip(p)
  \/ \E n \in Nodes : Return(n) \/ DeleteNode(n)
  \/ \E r \in Rules : DeleteRule(r) \/ DeleteStates(r) \/ DeleteStatesFails(r)
  \/ \E r \in Rules, t \in SUBSET Nodes, x, b \in BOOLEAN : UpsertRule(r, t, x, b)

LEMMA Steps ==
  [Next]_vars <=>
    Outside \/ \E e \in Evaluators : Start(e) \/ Proceed(e) \/ RuleFails(e) \/ Fail(e)
  BY DEF Next, Outside

LEMMA ForgetDoes ==
  ASSUME TypeOK, NEW q \in SUBSET Pairs, Forget(q)
  PROVE  /\ state' \in [Pairs -> StateRow] /\ pages' \in [Pairs -> Seq(PageSent)]
         /\ \A p \in Pairs : IF p \in q THEN state'[p] = NoState /\ pages'[p] = <<>>
                             ELSE state'[p] = state[p] /\ pages'[p] = pages[p]
<1>1. NoState \in StateRow
  BY DEF NoState, StateRow
<1>2. <<>> \in Seq(PageSent)
  OBVIOUS
<1>3. state' \in [Pairs -> StateRow] /\ pages' \in [Pairs -> Seq(PageSent)]
  BY <1>1, <1>2 DEF Forget, TypeOK
<1> QED BY <1>3 DEF Forget

LEMMA OutsideDoes ==
  ASSUME TypeOK, Outside
  PROVE  /\ ev' = ev /\ overlaps' = overlaps
         /\ faults' = faults \/ faults' = faults + 1
         /\ clock' = clock \/ clock' = clock + 1
         /\ state' \in [Pairs -> StateRow] /\ pages' \in [Pairs -> Seq(PageSent)]
         /\ \A p \in Pairs : \/ state'[p] = state[p] /\ pages'[p] = pages[p]
                             \/ state'[p] = NoState /\ pages'[p] = <<>> /\ faults' = faults
<1>1. CASE \/ UNCHANGED vars \/ Tick
           \/ \E p \in Pairs : Flip(p)
           \/ \E n \in Nodes : Return(n)
           \/ \E r \in Rules : DeleteRule(r) \/ DeleteStatesFails(r)
           \/ \E r \in Rules, t \in SUBSET Nodes, x, b \in BOOLEAN : UpsertRule(r, t, x, b)
  <2>1. /\ ev' = ev /\ overlaps' = overlaps /\ state' = state /\ pages' = pages
        /\ faults' = faults \/ faults' = faults + 1
        /\ clock' = clock \/ clock' = clock + 1
    BY <1>1 DEF vars, tables, Tick, Flip, Return, DeleteRule, DeleteStatesFails, UpsertRule
  <2> QED BY <2>1 DEF TypeOK
<1>2. ASSUME NEW n \in Nodes, DeleteNode(n)
      PROVE  /\ ev' = ev /\ overlaps' = overlaps /\ faults' = faults /\ clock' = clock
             /\ Forget(Rules \X {n}) /\ Rules \X {n} \in SUBSET Pairs
  BY <1>2 DEF DeleteNode, Forgotten, Pairs
<1>3. ASSUME NEW r \in Rules, DeleteStates(r)
      PROVE  /\ ev' = ev /\ overlaps' = overlaps /\ faults' = faults /\ clock' = clock
             /\ Forget({r} \X Nodes) /\ {r} \X Nodes \in SUBSET Pairs
  BY <1>3 DEF DeleteStates, Pairs
<1>4. CASE \E q \in SUBSET Pairs :
             /\ ev' = ev /\ overlaps' = overlaps /\ faults' = faults /\ clock' = clock
             /\ Forget(q)
  <2>1. PICK q \in SUBSET Pairs :
             /\ ev' = ev /\ overlaps' = overlaps /\ faults' = faults /\ clock' = clock
             /\ Forget(q)
    BY <1>4
  <2>2. /\ state' \in [Pairs -> StateRow] /\ pages' \in [Pairs -> Seq(PageSent)]
        /\ \A p \in Pairs : IF p \in q THEN state'[p] = NoState /\ pages'[p] = <<>>
                            ELSE state'[p] = state[p] /\ pages'[p] = pages[p]
    BY <2>1, ForgetDoes
  <2> QED BY <2>1, <2>2
<1> QED BY <1>1, <1>2, <1>3, <1>4 DEF Outside

LEMMA OutsideTypes ==
  ASSUME TypeOK, Outside
  PROVE  /\ present' \subseteq Nodes /\ hot' \subseteq Pairs /\ rule' \in [Rules -> RuleRow]
         /\ purging' \subseteq Rules /\ raced' \in BOOLEAN /\ flips' \in Nat /\ edits' \in Nat
<1>1. CASE UNCHANGED vars \/ Tick
  BY <1>1 DEF vars, tables, Tick, TypeOK
<1>2. ASSUME NEW p \in Pairs, Flip(p)
      PROVE  /\ hot' \subseteq Pairs /\ flips' \in Nat
             /\ UNCHANGED <<present, rule, purging, raced, edits>>
  BY <1>2 DEF Flip, TypeOK
<1>3. ASSUME NEW n \in Nodes, Return(n)
      PROVE  present' \subseteq Nodes /\ UNCHANGED <<hot, rule, purging, raced, flips, edits>>
  BY <1>3 DEF Return, TypeOK
<1>4. ASSUME NEW n \in Nodes, DeleteNode(n)
      PROVE  /\ present' \subseteq Nodes /\ hot' \subseteq Pairs /\ rule' \in [Rules -> RuleRow]
             /\ raced' \in BOOLEAN /\ edits' \in Nat /\ UNCHANGED <<purging, flips>>
  <2>1. ASSUME NEW r \in Rules PROVE [rule[r] EXCEPT !.targets = rule[r].targets \ {n}] \in RuleRow
    <3>1. rule[r] \in RuleRow
      BY DEF TypeOK
    <3> DEFINE c == rule[r]
    <3>2. [c EXCEPT !.targets = c.targets \ {n}] \in RuleRow
      BY <3>1 DEF RuleRow
    <3> QED BY <3>2
  <2> QED BY <1>4, <2>1 DEF DeleteNode, TypeOK, InProgress
<1>5. ASSUME NEW r \in Rules, DeleteRule(r)
      PROVE  /\ rule' \in [Rules -> RuleRow] /\ purging' \subseteq Rules /\ raced' \in BOOLEAN
             /\ edits' \in Nat /\ UNCHANGED <<present, hot, flips>>
  <2>1. NoRule \in RuleRow
    BY DEF NoRule, RuleRow
  <2> QED BY <1>5, <2>1 DEF DeleteRule, TypeOK, InProgress
<1>6. ASSUME NEW r \in Rules, DeleteStates(r) \/ DeleteStatesFails(r)
      PROVE  purging' \subseteq Rules /\ raced' \in BOOLEAN /\ UNCHANGED <<present, hot, rule, flips, edits>>
  BY <1>6 DEF DeleteStates, DeleteStatesFails, TypeOK
<1>7. ASSUME NEW r \in Rules, NEW t \in SUBSET Nodes, NEW x \in BOOLEAN, NEW b \in BOOLEAN,
             UpsertRule(r, t, x, b)
      PROVE  rule' \in [Rules -> RuleRow] /\ edits' \in Nat /\ UNCHANGED <<present, hot, purging, raced, flips>>
  <2>1. [exists |-> TRUE, enabled |-> b, targets |-> t, exclude |-> x] \in RuleRow
    BY DEF RuleRow
  <2> QED BY <1>7, <2>1 DEF UpsertRule, TypeOK
<1>8. /\ present \subseteq Nodes /\ hot \subseteq Pairs /\ rule \in [Rules -> RuleRow]
      /\ purging \subseteq Rules /\ raced \in BOOLEAN /\ flips \in Nat /\ edits \in Nat
  BY DEF TypeOK
<1> QED BY <1>1, <1>2, <1>3, <1>4, <1>5, <1>6, <1>7, <1>8 DEF Outside

Evaluates(e) == Start(e) \/ Proceed(e) \/ RuleFails(e) \/ Fail(e)

LEMMA EvaluatesKeeps ==
  ASSUME NEW e \in Evaluators, Evaluates(e)
  PROVE  /\ UNCHANGED <<clock, present, hot, rule, purging, raced, flips, edits>>
         /\ Notify(e) \/ pages' = pages
         /\ Save(e) \/ state' = state
         /\ Start(e) \/ overlaps' = overlaps
         /\ faults' = IF RuleFails(e) \/ Fail(e) THEN faults + 1 ELSE faults
<1>1. CASE Start(e)
  <2>1. ~RuleFails(e) /\ ~Fail(e)
    BY <1>1 DEF Start, RuleFails, Fail
  <2> QED BY <1>1, <2>1 DEF Start, tables
<1>2. CASE ~RuleFails(e) /\ ~Fail(e) /\ Proceed(e)
  <2>1. CASE ListRules(e) \/ Aggregate(e) \/ AggregateThrows(e) \/ ReadStates(e)
    BY <1>2, <2>1 DEF ListRules, Aggregate, AggregateThrows, ReadStates, tables
  <2>2. CASE Notify(e)
    BY <1>2, <2>2 DEF Notify, tables
  <2>3. CASE Save(e)
    BY <1>2, <2>3 DEF Save
  <2> QED BY <1>2, <2>1, <2>2, <2>3 DEF Proceed
<1>3. CASE RuleFails(e) \/ Fail(e)
  BY <1>3 DEF RuleFails, Fail, tables
<1> QED BY <1>1, <1>2, <1>3 DEF Evaluates

\* The row chosen for a pair is one of the rows.
LEMMA RowChosen ==
  ASSUME NEW q \in Evaluation, NEW p \in Pairs, p[2] \in NodesIn(q.rows)
  PROVE  RowFor(q, p) \in Row /\ RowFor(q, p) \in q.rows /\ RowFor(q, p).node = p[2]
<1>1. \E u \in q.rows : u.node = p[2]
  BY DEF NodesIn
<1>2. RowFor(q, p) \in q.rows /\ RowFor(q, p).node = p[2]
  BY <1>1 DEF RowFor
<1>3. q.rows \in SUBSET Row
  BY DEF Evaluation, Row
<1> QED BY <1>2, <1>3

LEMMA SaveDoes ==
  ASSUME TypeOK, NEW e \in Evaluators, Save(e)
  PROVE  /\ state' \in [Pairs -> StateRow]
         /\ \A p \in Pairs :
              state'[p] = IF p[1] = ev[e].rule /\ p[2] \in NodesIn(ev[e].rows)
                          THEN Stored(RowFor(ev[e], p)) ELSE state[p]
         /\ ev[e].pc = "notify" /\ ev[e].send = {}
<1>1. \A p \in Pairs :
         state'[p] = IF p[1] = ev[e].rule /\ p[2] \in NodesIn(ev[e].rows)
                     THEN Stored(RowFor(ev[e], p)) ELSE state[p]
  BY DEF Save, RowFor
<1>2. ASSUME NEW p \in Pairs PROVE state'[p] \in StateRow
  <2>1. ev[e] \in Evaluation /\ state[p] \in StateRow
    BY DEF TypeOK
  <2>2. CASE p[1] = ev[e].rule /\ p[2] \in NodesIn(ev[e].rows)
    <3>1. RowFor(ev[e], p) \in Row
      BY <2>1, <2>2, RowChosen
    <3>2. Stored(RowFor(ev[e], p)) \in StateRow
      BY <3>1 DEF Stored, StateRow, Row
    <3> QED BY <1>1, <2>2, <3>2
  <2>3. CASE ~(p[1] = ev[e].rule /\ p[2] \in NodesIn(ev[e].rows))
    BY <1>1, <2>1, <2>3
  <2> QED BY <2>2, <2>3
<1>3. state' = [p \in Pairs |-> state'[p]]
  BY DEF Save
<1>4. state' \in [Pairs -> StateRow]
  BY <1>2, <1>3
<1> QED BY <1>1, <1>4 DEF Save

LEMMA TypesStep == TypeOK /\ clock >= Renotify /\ AllSound /\ [Next]_vars => TypeOK' /\ AllSound'
<1> SUFFICES ASSUME TypeOK, clock >= Renotify, AllSound, [Next]_vars PROVE TypeOK' /\ AllSound'
  OBVIOUS
<1>1. CASE Outside
  <2>1. /\ ev' = ev /\ overlaps' = overlaps
        /\ faults' \in Nat /\ clock' \in Nat
        /\ state' \in [Pairs -> StateRow] /\ pages' \in [Pairs -> Seq(PageSent)]
    <3>1. clock \in Nat /\ faults \in Nat
      BY DEF TypeOK
    <3> QED BY <1>1, <3>1, OutsideDoes
  <2>2. /\ present' \subseteq Nodes /\ hot' \subseteq Pairs /\ rule' \in [Rules -> RuleRow]
        /\ purging' \subseteq Rules /\ raced' \in BOOLEAN /\ flips' \in Nat /\ edits' \in Nat
    BY <1>1, OutsideTypes
  <2>3. TypeOK'
    BY <2>1, <2>2 DEF TypeOK
  <2>4. AllSound'
    BY <2>1 DEF AllSound
  <2> QED BY <2>3, <2>4
<1>2. ASSUME NEW e \in Evaluators, Evaluates(e) PROVE TypeOK' /\ AllSound'
  <2>1. /\ ev' \in [Evaluators -> Evaluation]
        /\ \A x \in Evaluators \ {e} : ev'[x] = ev[x]
        /\ Sound(ev'[e])
    BY <1>2, EvaluationSound DEF AllSound, Evaluates
  <2>2. /\ UNCHANGED <<clock, present, hot, rule, purging, raced, flips, edits>>
        /\ Notify(e) \/ pages' = pages
        /\ Save(e) \/ state' = state
        /\ Start(e) \/ overlaps' = overlaps
        /\ faults' = IF RuleFails(e) \/ Fail(e) THEN faults + 1 ELSE faults
    BY <1>2, EvaluatesKeeps
  <2>3. state' \in [Pairs -> StateRow]
    BY <2>2, SaveDoes DEF TypeOK
  <2>4. pages' \in [Pairs -> Seq(PageSent)]
    <3>1. CASE Notify(e)
      <4>1. ev[e].rule \in Rules /\ ev[e].now \in Nat
        BY <3>1 DEF Notify, AllSound, Sound, SoundJobs, TypeOK, Evaluation
      <4>2. PICK n \in Nodes, level \in Levels :
              pages' = [pages EXCEPT ![<<ev[e].rule, n>>] =
                             Append(pages[<<ev[e].rule, n>>], [level |-> level, ts |-> ev[e].now])]
        BY <3>1, <4>1, NotifyDoes, ZenonT(60)
      <4>3. [level |-> level, ts |-> ev[e].now] \in PageSent
        BY <4>1 DEF PageSent
      <4>4. <<ev[e].rule, n>> \in Pairs
        BY <4>1 DEF Pairs
      <4>5. Append(pages[<<ev[e].rule, n>>], [level |-> level, ts |-> ev[e].now]) \in Seq(PageSent)
        BY <4>3, <4>4 DEF TypeOK
      <4> QED BY <4>2, <4>5 DEF TypeOK
    <3>2. CASE pages' = pages
      BY <3>2 DEF TypeOK
    <3> QED BY <2>2, <3>1, <3>2
  <2>5. overlaps' \in Nat /\ faults' \in Nat
    <3>1. overlaps' = overlaps \/ overlaps' = overlaps + 1
      BY <2>2 DEF Start
    <3> QED BY <2>2, <3>1 DEF TypeOK
  <2>6. TypeOK'
    BY <2>1, <2>2, <2>3, <2>4, <2>5 DEF TypeOK
  <2>7. AllSound'
    <3>1. \A x \in Evaluators : Sound(ev'[x])
      BY <2>1 DEF AllSound
    <3> QED BY <3>1 DEF AllSound
  <2> QED BY <2>6, <2>7
<1> QED BY <1>1, <1>2, Steps DEF Evaluates

LEMMA CrowdStep == TypeOK /\ clock >= Renotify /\ AllSound /\ Crowd /\ [Next]_vars => Crowd'
<1> SUFFICES ASSUME TypeOK, clock >= Renotify, AllSound, Crowd, [Next]_vars PROVE Crowd'
  OBVIOUS
<1>0. overlaps \in Nat /\ IsFiniteSet(Active) /\ Cardinality(Active) \in Nat
      /\ Cardinality(Active) <= 1 + overlaps
  BY FS_CardinalityType DEF TypeOK, Crowd
<1>1. CASE Active' \subseteq Active /\ overlaps' = overlaps
  <2>1. IsFiniteSet(Active') /\ Cardinality(Active') <= Cardinality(Active)
    BY <1>0, <1>1, FS_Subset
  <2>2. Cardinality(Active') \in Nat
    BY <2>1, FS_CardinalityType
  <2> QED BY <1>0, <1>1, <2>1, <2>2 DEF Crowd
<1>2. ASSUME NEW e \in Evaluators, Start(e) PROVE Crowd'
  <2>1. /\ \A x \in Evaluators \ {e} : ev'[x] = ev[x]
        /\ ev[e].pc = "idle" /\ ev'[e].pc = "list"
    BY <1>2, StartDoes
  <2>2. Active' = Active \cup {e} /\ e \notin Active
    BY <2>1 DEF Active
  <2>3. IsFiniteSet(Active') /\ Cardinality(Active') = Cardinality(Active) + 1
    BY <1>0, <2>2, FS_AddElement
  <2>4. CASE ~InProgress
    <3>1. Active = {} /\ overlaps' = overlaps
      BY <1>2, <2>4 DEF Active, Start, InProgress
    <3> QED BY <1>0, <2>3, <3>1, FS_EmptySet DEF Crowd
  <2>5. CASE InProgress
    BY <1>0, <1>2, <2>3, <2>5 DEF Crowd, Start
  <2> QED BY <2>4, <2>5
<1>3. ASSUME NEW e \in Evaluators, Evaluates(e), ~Start(e) PROVE Crowd'
  <2>1. overlaps' = overlaps
    BY <1>3, EvaluatesKeeps
  <2>2. ev[e].pc # "idle"
    BY <1>3 DEF Evaluates, Proceed, Fail, RuleFails, ListRules, Aggregate, AggregateThrows,
                ReadStates, Notify, Save
  <2>3. \A x \in Evaluators \ {e} : ev'[x] = ev[x]
    BY <1>3, EvaluationSound DEF AllSound, Evaluates
  <2>4. Active' \subseteq Active
    BY <2>2, <2>3 DEF Active
  <2> QED BY <1>1, <2>1, <2>4
<1>4. CASE Outside
  <2>1. ev' = ev /\ overlaps' = overlaps
    BY <1>4, OutsideDoes
  <2> QED BY <1>1, <2>1 DEF Active
<1> QED BY <1>2, <1>3, <1>4, Steps DEF Evaluates

-----------------------------------------------------------------------------
(* No state is left behind *)

AllCurrent == \A e \in Evaluators : Current(ev[e], present, rule)

Owned(p) == state[p].exists => p[2] \in present /\ (rule[p[1]].exists \/ p[1] \in purging)

OwnedInv == raced \/ (AllCurrent /\ \A p \in Pairs : Owned(p))

LEMMA EvaluatesCurrent ==
  ASSUME TypeOK, clock >= Renotify, AllSound, NEW e \in Evaluators, Evaluates(e), Current(ev[e], present, rule)
  PROVE  Current(ev'[e], present', rule')
<1>0. Sound(ev[e]) /\ ev[e] \in Evaluation /\ present' = present /\ rule' = rule
  BY EvaluatesKeeps DEF AllSound, TypeOK
<1>1. CASE Start(e)
  <2>1. ev'[e].pc = "list" /\ ev'[e].nodes = present /\ ev'[e].jobs = {}
    BY <1>1, StartDoes
  <2> QED BY <1>0, <2>1 DEF Current
<1>2. CASE ListRules(e)
  <2>1. /\ ev[e].pc = "list" /\ ev[e].nodes \in SUBSET Nodes
        /\ ev'[e].jobs = Jobs(ev[e].nodes) /\ ev'[e].pc \in {"idle", "rule"}
        /\ ev'[e].pc = "rule" => ev'[e].nodes = ev[e].nodes
    BY <1>2, ListDoes
  <2>2. \A j \in Jobs(ev[e].nodes) : rule[j.rule].exists
    BY <2>1, JobsType
  <2> QED BY <1>0, <2>1, <2>2 DEF Current
<1>3. CASE Aggregate(e)
  <2>1. ev[e].pc = "rule" /\ ev'[e].nodes = ev[e].nodes
    BY <1>3, AggregateDoes
  <2>2. \E j \in ev[e].jobs : ev'[e].rule = j.rule /\ ev'[e].jobs = ev[e].jobs \ {j}
    BY <1>3, AggregateDoes
  <2> QED BY <1>0, <2>1, <2>2 DEF Current
<1>4. CASE ReadStates(e)
  <2>1. ev[e].rule \in Rules
    BY <1>0, <1>4 DEF ReadStates, Sound, SoundJobs
  <2>2. /\ ev[e].pc = "states" /\ ev'[e].nodes = ev[e].nodes /\ ev'[e].jobs = ev[e].jobs
        /\ ev'[e].rule = ev[e].rule
    BY <1>4, <2>1, ReadDoes
  <2> QED BY <1>0, <2>2 DEF Current
<1>5. CASE Notify(e)
  <2>1. ev[e].rule \in Rules
    BY <1>0, <1>5 DEF Notify, Sound, SoundJobs
  <2>2. /\ ev[e].pc = "notify" /\ ev'[e].nodes = ev[e].nodes /\ ev'[e].jobs = ev[e].jobs
        /\ ev'[e].rule = ev[e].rule
    BY <1>5, <2>1, NotifyDoes
  <2> QED BY <1>0, <2>2 DEF Current
<1>6. CASE Leaves(e)
  <2>1. /\ ev[e].pc # "idle" /\ ev'[e].pc \in {"idle", "rule"}
        /\ ev'[e].pc = "rule" => ev'[e].nodes = ev[e].nodes
        /\ ev'[e].jobs \subseteq ev[e].jobs
    BY <1>6, LeavesDo
  <2> QED BY <1>0, <2>1 DEF Current
<1>7. CASE Fail(e)
  <2>1. ev'[e].pc = "idle"
    BY <1>7, FailDoes, IdleType
  <2> QED BY <2>1 DEF Current
<1> QED BY <1>1, <1>2, <1>3, <1>4, <1>5, <1>6, <1>7 DEF Evaluates, Proceed, Leaves

\* With no evaluation in progress a deletion is complete, and with one it sets
\* raced.
LEMMA OutsideOwned ==
  ASSUME TypeOK, AllSound, Outside, OwnedInv
  PROVE  OwnedInv'
<1>0. ev' = ev /\ state \in [Pairs -> StateRow] /\ rule \in [Rules -> RuleRow] /\ raced \in BOOLEAN
  BY OutsideDoes DEF TypeOK
<1>1. CASE raced'
  BY <1>1 DEF OwnedInv
<1>2. CASE ~raced'
  <2>0. ~raced /\ AllCurrent /\ \A p \in Pairs : Owned(p)
    <3>1. raced => raced'
      BY DEF Outside, vars, tables, Tick, Flip, Return, DeleteNode, DeleteRule, DeleteStates,
             DeleteStatesFails, UpsertRule
    <3> QED BY <1>2, <3>1 DEF OwnedInv
  <2>1. CASE \/ UNCHANGED vars \/ Tick \/ (\E p \in Pairs : Flip(p)) \/ \E n \in Nodes : Return(n)
    <3>1. present \subseteq present' /\ UNCHANGED <<rule, purging, state>>
      BY <2>1 DEF vars, tables, Tick, Flip, Return
    <3> QED BY <1>0, <2>0, <3>1 DEF OwnedInv, AllCurrent, Current, Owned
  <2>2. ASSUME NEW r \in Rules, NEW t \in SUBSET Nodes, NEW x \in BOOLEAN, NEW b \in BOOLEAN,
               UpsertRule(r, t, x, b)
        PROVE  OwnedInv'
    <3>1. UNCHANGED <<present, purging, state>> /\ \A s \in Rules : rule[s].exists => rule'[s].exists
      BY <1>0, <2>2 DEF UpsertRule
    <3>2. \A e \in Evaluators : Current(ev'[e], present', rule')
      <4>1. ASSUME NEW e \in Evaluators, ev[e].pc # "idle"
            PROVE  /\ ev[e].nodes \subseteq present
                   /\ \A j \in ev[e].jobs : rule'[j.rule].exists
                   /\ ev[e].pc \in {"states", "notify"} => rule'[ev[e].rule].exists
        <5>1. Current(ev[e], present, rule)
          BY <2>0 DEF AllCurrent
        <5>2. ev[e] \in Evaluation
          BY DEF TypeOK
        <5>3. ev[e].jobs \in SUBSET Job /\ ev[e].rule \in Rules \cup {""}
          BY <5>2 DEF Evaluation, Job
        <5>4. \A j \in ev[e].jobs : j.rule \in Rules
          BY <5>3 DEF Job
        <5>5. ASSUME ev[e].pc \in {"states", "notify"} PROVE rule'[ev[e].rule].exists
          <6>1. rule[ev[e].rule].exists
            BY <4>1, <5>1, <5>5 DEF Current
          <6>2. ev[e].rule \in Rules
            BY <5>5 DEF AllSound, Sound, SoundJobs
          <6> QED BY <3>1, <6>1, <6>2
        <5> QED BY <3>1, <4>1, <5>1, <5>4, <5>5 DEF Current
      <4> QED BY <1>0, <3>1, <4>1 DEF Current
    <3>3. \A p \in Pairs : Owned(p)'
      BY <2>0, <3>1 DEF Owned, Pairs
    <3> QED BY <3>2, <3>3 DEF OwnedInv, AllCurrent
  <2>3. ASSUME NEW r \in Rules, DeleteRule(r) PROVE OwnedInv'
    <3>1. \A e \in Evaluators : ev'[e].pc = "idle"
      BY <1>0, <1>2, <2>3 DEF DeleteRule, InProgress
    <3>2. AllCurrent'
      BY <3>1 DEF AllCurrent, Current
    <3>3. /\ UNCHANGED <<present, state>> /\ purging' = purging \cup {r}
          /\ \A s \in Rules \ {r} : rule'[s] = rule[s]
      BY <1>0, <2>3 DEF DeleteRule
    <3>4. \A p \in Pairs : Owned(p)'
      BY <2>0, <3>3 DEF Owned, Pairs
    <3> QED BY <3>2, <3>4 DEF OwnedInv
  <2>4. ASSUME NEW r \in Rules, DeleteStates(r) PROVE OwnedInv'
    <3>1. UNCHANGED <<present, rule>> /\ purging' = purging \ {r} /\ Forget({r} \X Nodes)
      BY <2>4 DEF DeleteStates
    <3>2. ASSUME NEW p \in Pairs
          PROVE  IF p \in {r} \X Nodes THEN state'[p] = NoState ELSE state'[p] = state[p]
      BY <3>1 DEF Forget
    <3>3. ASSUME NEW p \in Pairs PROVE Owned(p)'
      <4>1. CASE p[1] = r
        <5>1. p \in {r} \X Nodes
          BY <4>1 DEF Pairs
        <5> QED BY <3>2, <5>1 DEF Owned, NoState
      <4>2. CASE p[1] # r
        <5>1. state'[p] = state[p]
          BY <3>2, <4>2
        <5> QED BY <2>0, <3>1, <4>2, <5>1 DEF Owned
      <4> QED BY <4>1, <4>2
    <3> QED BY <1>0, <2>0, <3>1, <3>3 DEF OwnedInv, AllCurrent, Current
  <2>5. ASSUME NEW n \in Nodes, DeleteNode(n) PROVE OwnedInv'
    <3>1. \A e \in Evaluators : ev'[e].pc = "idle"
      BY <1>0, <1>2, <2>5 DEF DeleteNode, InProgress
    <3>2. AllCurrent'
      BY <3>1 DEF AllCurrent, Current
    <3>3. present' = present \ {n} /\ purging' = purging /\ Forget(Rules \X {n})
      BY <2>5 DEF DeleteNode, Forgotten
    <3>4. ASSUME NEW r \in Rules PROVE rule'[r].exists = rule[r].exists
      <4>1. rule'[r] = [rule[r] EXCEPT !.targets = rule[r].targets \ {n}]
        BY <2>5 DEF DeleteNode
      <4>2. rule[r] \in RuleRow
        BY <1>0
      <4> QED BY <4>1, <4>2 DEF RuleRow
    <3>5. ASSUME NEW p \in Pairs
          PROVE  IF p \in Rules \X {n} THEN state'[p] = NoState ELSE state'[p] = state[p]
      BY <3>3 DEF Forget
    <3>6. ASSUME NEW p \in Pairs PROVE Owned(p)'
      <4>0. p[1] \in Rules /\ p[2] \in Nodes /\ p = <<p[1], p[2]>>
        BY DEF Pairs
      <4>1. CASE p[2] = n
        <5>1. p \in Rules \X {n}
          BY <4>0, <4>1
        <5> QED BY <3>5, <5>1 DEF Owned, NoState
      <4>2. CASE p[2] # n
        <5>1. state'[p] = state[p]
          BY <3>5, <4>2
        <5> QED BY <2>0, <3>3, <3>4, <4>0, <4>2, <5>1 DEF Owned
      <4> QED BY <4>1, <4>2
    <3> QED BY <3>2, <3>6 DEF OwnedInv
  <2>6. ASSUME NEW r \in Rules, DeleteStatesFails(r) PROVE FALSE
    BY <1>2, <2>6 DEF DeleteStatesFails
  <2> QED BY <2>1, <2>2, <2>3, <2>4, <2>5, <2>6 DEF Outside
<1> QED BY <1>1, <1>2

LEMMA OwnedStep == TypeOK /\ clock >= Renotify /\ AllSound /\ OwnedInv /\ [Next]_vars => OwnedInv'
<1> SUFFICES ASSUME TypeOK, clock >= Renotify, AllSound, OwnedInv, [Next]_vars PROVE OwnedInv'
  OBVIOUS
<1>1. CASE Outside
  BY <1>1, OutsideOwned
<1>2. ASSUME NEW e \in Evaluators, Evaluates(e) PROVE OwnedInv'
  <2>0. UNCHANGED <<present, rule, purging, raced>> /\ (Save(e) \/ state' = state)
    BY <1>2, EvaluatesKeeps
  <2>1. CASE raced
    BY <2>0, <2>1 DEF OwnedInv
  <2>2. CASE ~raced
    <3>0. AllCurrent /\ \A p \in Pairs : Owned(p)
      BY <2>2 DEF OwnedInv
    <3>1. \A x \in Evaluators \ {e} : ev'[x] = ev[x]
      BY <1>2, EvaluationSound DEF AllSound, Evaluates
    <3>2. Current(ev'[e], present', rule')
      BY <1>2, <3>0, EvaluatesCurrent DEF AllCurrent
    <3>3. ASSUME NEW x \in Evaluators \ {e} PROVE Current(ev'[x], present', rule')
      <4>1. Current(ev[x], present, rule)
        BY <3>0 DEF AllCurrent
      <4> QED BY <2>0, <3>1, <4>1 DEF Current
    <3>4. AllCurrent'
      BY <3>2, <3>3 DEF AllCurrent
    <3>5. ASSUME NEW p \in Pairs PROVE Owned(p)'
      <4>1. CASE state'[p] = state[p]
        BY <2>0, <3>0, <4>1 DEF Owned
      <4>2. CASE Save(e) /\ state'[p] # state[p]
        <5>1. ev[e].pc = "notify" /\ p[1] = ev[e].rule /\ p[2] \in NodesIn(ev[e].rows)
          BY <4>2, SaveDoes
        <5>2. Current(ev[e], present, rule) /\ Sound(ev[e])
          BY <3>0 DEF AllCurrent, AllSound
        <5>3. rule[ev[e].rule].exists /\ ev[e].nodes \subseteq present
          BY <5>1, <5>2 DEF Current
        <5>4. ev[e].scope \subseteq ev[e].nodes /\ p[2] \in ev[e].scope
          BY <5>1, <5>2 DEF Sound, SoundJobs, NodesIn
        <5> QED BY <2>0, <5>1, <5>3, <5>4 DEF Owned
      <4> QED BY <2>0, <4>1, <4>2
    <3> QED BY <3>4, <3>5 DEF OwnedInv
  <2> QED BY <2>1, <2>2
<1> QED BY <1>1, <1>2, Steps DEF Evaluates

Steady == TypeOK /\ clock >= Renotify /\ AllSound

LEMMA SteadyInit == Init => Steady /\ \A e \in Evaluators : ev[e].pc = "idle" /\ Sound(ev[e])
<1> SUFFICES ASSUME Init
             PROVE  Steady /\ \A e \in Evaluators : ev[e].pc = "idle" /\ Sound(ev[e])
  OBVIOUS
<1>0. Renotify \in Nat /\ MaxClock \in Nat
  BY ConstantsAssumption
<1>1. Everywhere \in RuleRow /\ NoState \in StateRow /\ Idle \in Evaluation
  BY IdleType DEF Everywhere, RuleRow, NoState, StateRow
<1>2. TypeOK
  <2>1. /\ rule \in [Rules -> RuleRow] /\ state \in [Pairs -> StateRow]
        /\ ev \in [Evaluators -> Evaluation] /\ pages \in [Pairs -> Seq(PageSent)]
    BY <1>1 DEF Init
  <2> QED BY <1>0, <2>1 DEF Init, TypeOK
<1>3. Sound(Idle) /\ Idle.pc = "idle"
  BY IdleType DEF Sound, SoundJobs, SoundSends
<1>4. \A e \in Evaluators : ev[e] = Idle
  BY DEF Init
<1> QED BY <1>0, <1>2, <1>3, <1>4 DEF Init, Steady, AllSound

LEMMA SteadyStep == Steady /\ [Next]_vars => Steady'
<1> SUFFICES ASSUME Steady, [Next]_vars PROVE Steady'
  OBVIOUS
<1>1. TypeOK' /\ AllSound'
  BY TypesStep DEF Steady
<1>2. clock' = clock \/ clock' = clock + 1
  BY OutsideDoes, EvaluatesKeeps, Steps DEF Evaluates, Steady
<1> QED BY <1>1, <1>2, ConstantsAssumption DEF Steady, TypeOK

\* The tables, the evaluations and the pages keep their types.
THEOREM LoadTypesHold == Spec => []TypeOK
<1>1. Init => Steady
  BY SteadyInit
<1>2. Steady => TypeOK
  BY DEF Steady
<1> QED BY <1>1, <1>2, SteadyStep, PTL DEF Spec

\* deleteAlertRule and deleteNode leave no alert_state row without its rule or
\* node, unless an evaluation was in progress or the second statement was lost.
THEOREM NoOrphan == Spec => []NoOrphanState
<1>1. Init => Steady /\ OwnedInv
  <2> SUFFICES ASSUME Init PROVE OwnedInv
    BY SteadyInit
  <2>1. AllCurrent
    BY SteadyInit DEF AllCurrent, Current
  <2>2. \A p \in Pairs : ~state[p].exists
    BY DEF Init, NoState
  <2> QED BY <2>1, <2>2 DEF OwnedInv, Owned
<1>2. Steady /\ OwnedInv /\ [Next]_vars => OwnedInv'
  BY OwnedStep DEF Steady
<1>3. OwnedInv => NoOrphanState
  BY DEF OwnedInv, Owned, NoOrphanState
<1> QED BY <1>1, <1>2, <1>3, SteadyStep, PTL DEF Spec

-----------------------------------------------------------------------------
(* Early reminders *)

LEMMA Bits == \A b : Bit(b) \in 0 .. 1 /\ (b => Bit(b) = 1) /\ (~b => Bit(b) = 0)
  BY DEF Bit

LEMMA Apart ==
  ASSUME NEW q \in Evaluation, Sound(q), NEW p \in Pairs
  PROVE  /\ ~(Faces(q, p) /\ Holds(q, p))
         /\ Faces(q, p) \/ Holds(q, p) => q.pc # "idle"
         /\ q.pc \in {"states", "notify"} /\ q.rule = p[1] => ~Listed(q, p)
         /\ Sends(q, p) => Faces(q, p)
<1>1. q.pc \in {"states", "notify"} /\ q.rule = p[1] => ~Listed(q, p)
  BY DEF Sound, SoundJobs, Listed
<1>2. Listed(q, p) => q.pc # "idle"
  BY DEF Sound, SoundJobs, Listed
<1> QED BY <1>1, <1>2 DEF Faces, Holds, Sends

LEMMA CreditRange ==
  ASSUME NEW p \in Pairs
  PROVE  Credit(p) \in 0 .. 2 /\ Credit(p)' \in 0 .. 2
  BY DEF Credit, Bit

LEMMA Amounts ==
  ASSUME Steady, Crowd, NEW p \in Pairs
  PROVE  /\ IsFiniteSet(Premature(p)) /\ Cardinality(Premature(p)) \in Nat
         /\ IsFiniteSet(Facing(p)) /\ Cardinality(Facing(p)) \in Nat
         /\ IsFiniteSet(Holding(p)) /\ Cardinality(Holding(p)) \in Nat
         /\ Cardinality(Facing(p)) + Cardinality(Holding(p)) <= 1 + overlaps
         /\ faults \in Nat /\ overlaps \in Nat
<1>0. TypeOK /\ AllSound
  BY DEF Steady
<1>1. Len(pages[p]) \in Nat /\ Premature(p) \in SUBSET (1 .. (Len(pages[p]) - 1))
  <2>1. pages[p] \in Seq(PageSent)
    BY <1>0 DEF TypeOK
  <2> QED BY <2>1 DEF Premature
<1>2. IsFiniteSet(Premature(p)) /\ Cardinality(Premature(p)) \in Nat
  <2>1. IsFiniteSet(1 .. (Len(pages[p]) - 1))
    BY <1>1, FS_Interval
  <2>2. IsFiniteSet(Premature(p))
    BY <1>1, <2>1, FS_Subset
  <2> QED BY <2>2, FS_CardinalityType
<1>3. /\ Facing(p) \subseteq Active /\ Holding(p) \subseteq Active
      /\ Facing(p) \cap Holding(p) = {}
  BY <1>0, Apart DEF Facing, Holding, Active, AllSound, TypeOK
<1>4. IsFiniteSet(Active) /\ Cardinality(Active) \in Nat /\ Cardinality(Active) <= 1 + overlaps
  BY FS_CardinalityType DEF Crowd
<1>5. /\ IsFiniteSet(Facing(p)) /\ Cardinality(Facing(p)) \in Nat
      /\ IsFiniteSet(Holding(p)) /\ Cardinality(Holding(p)) \in Nat
  BY <1>3, <1>4, FS_Subset, FS_CardinalityType
<1>6. Cardinality(Facing(p)) + Cardinality(Holding(p)) <= 1 + overlaps
  <2>1. /\ IsFiniteSet(Facing(p) \cup Holding(p))
        /\ Cardinality(Facing(p) \cup Holding(p))
             = Cardinality(Facing(p)) + Cardinality(Holding(p)) - Cardinality(Facing(p) \cap Holding(p))
    BY <1>5, FS_Union
  <2>2. Cardinality(Facing(p) \cap Holding(p)) = 0
    BY <1>3, FS_EmptySet
  <2>3. Cardinality(Facing(p) \cup Holding(p)) <= Cardinality(Active)
    BY <1>3, <1>4, FS_Subset
  <2>4. Cardinality(Facing(p) \cup Holding(p)) = Cardinality(Facing(p)) + Cardinality(Holding(p))
    BY <1>5, <2>1, <2>2
  <2> QED BY <1>0, <1>4, <1>5, <2>3, <2>4 DEF TypeOK
<1> QED BY <1>0, <1>2, <1>5, <1>6 DEF TypeOK

LEMMA OneMember ==
  ASSUME NEW S, NEW T, NEW e, IsFiniteSet(S), T \ {e} = S \ {e}
  PROVE  /\ IsFiniteSet(T) /\ Cardinality(T) \in Nat
         /\ Cardinality(T) = Cardinality(S) + Bit(e \in T) - Bit(e \in S)
<1>1. Cardinality(S) \in Nat
  BY FS_CardinalityType
<1>2. CASE e \in T /\ e \notin S
  <2>1. T = S \cup {e}
    BY <1>2
  <2>2. IsFiniteSet(T) /\ Cardinality(T) = Cardinality(S) + 1
    BY <1>2, <2>1, FS_AddElement
  <2>3. Bit(e \in T) = 1 /\ Bit(e \in S) = 0
    BY <1>2 DEF Bit
  <2> QED BY <1>1, <2>2, <2>3
<1>3. CASE e \notin T /\ e \in S
  <2>1. T = S \ {e}
    BY <1>3
  <2>2. IsFiniteSet(T) /\ Cardinality(T) = Cardinality(S) - 1
    BY <1>3, <2>1, FS_RemoveElement
  <2>3. Cardinality(T) \in Nat
    BY <2>2, FS_CardinalityType
  <2>4. Bit(e \in T) = 0 /\ Bit(e \in S) = 1
    BY <1>3 DEF Bit
  <2> QED BY <1>1, <2>2, <2>3, <2>4
<1>4. CASE e \in T <=> e \in S
  <2>1. T = S
    BY <1>4
  <2>2. Bit(e \in T) = Bit(e \in S) /\ Bit(e \in S) \in 0 .. 1
    BY <1>4, Bits
  <2> QED BY <1>1, <2>1, <2>2
<1> QED BY <1>2, <1>3, <1>4

LEMMA OneMoves ==
  ASSUME Steady, Crowd, NEW p \in Pairs, NEW e \in Evaluators, \A x \in Evaluators \ {e} : ev'[x] = ev[x]
  PROVE  /\ Cardinality(Facing(p)') \in Nat /\ Cardinality(Holding(p)') \in Nat
         /\ Cardinality(Facing(p)') =
              Cardinality(Facing(p)) + Bit(Faces(ev'[e], p)) - Bit(Faces(ev[e], p))
         /\ Cardinality(Holding(p)') =
              Cardinality(Holding(p)) + Bit(Holds(ev'[e], p)) - Bit(Holds(ev[e], p))
<1>1. IsFiniteSet(Facing(p)) /\ IsFiniteSet(Holding(p))
  BY Amounts
<1>2. /\ Facing(p)' \ {e} = Facing(p) \ {e}
      /\ e \in Facing(p)' <=> Faces(ev'[e], p)
      /\ e \in Facing(p) <=> Faces(ev[e], p)
  BY DEF Facing
<1>3. /\ Holding(p)' \ {e} = Holding(p) \ {e}
      /\ e \in Holding(p)' <=> Holds(ev'[e], p)
      /\ e \in Holding(p) <=> Holds(ev[e], p)
  BY DEF Holding
<1>4. /\ Cardinality(Facing(p)') \in Nat
      /\ Cardinality(Facing(p)') = Cardinality(Facing(p)) + Bit(e \in Facing(p)') - Bit(e \in Facing(p))
  BY <1>1, <1>2, OneMember
<1>5. /\ Cardinality(Holding(p)') \in Nat
      /\ Cardinality(Holding(p)') = Cardinality(Holding(p)) + Bit(e \in Holding(p)') - Bit(e \in Holding(p))
  BY <1>1, <1>3, OneMember
<1>6. /\ Bit(e \in Facing(p)') = Bit(Faces(ev'[e], p)) /\ Bit(e \in Facing(p)) = Bit(Faces(ev[e], p))
      /\ Bit(e \in Holding(p)') = Bit(Holds(ev'[e], p)) /\ Bit(e \in Holding(p)) = Bit(Holds(ev[e], p))
  BY <1>2, <1>3, Bits
<1> QED BY <1>4, <1>5, <1>6

\* What a step does not touch of a pair in an evaluation; s are the pair's pages.
Same(q, w, p, s) ==
  /\ Faces(w, p) <=> Faces(q, p)
  /\ Holds(w, p) <=> Holds(q, p)
  /\ Sends(w, p) <=> Sends(q, p)
  /\ Holds(q, p) => (Keeps(w, p, s) <=> Keeps(q, p, s))
  /\ Sends(q, p) => (Timely(w, s) <=> Timely(q, s))

LEMMA SameIfEqual == ASSUME NEW q, NEW p, NEW s PROVE Same(q, q, p, s)
  BY DEF Same

LEMMA Budgets ==
  ASSUME NEW f \in Nat, NEW o \in Nat
  PROVE  /\ Budget(f, o) \in Nat
         /\ Budget(f + 1, o) = Budget(f, o) + 1
         /\ Budget(f, o + 1) = Budget(f, o) + 2
  BY DEF Budget

\* Failures and overlaps are only added to.
LEMMA BudgetGrows ==
  ASSUME faults \in Nat, overlaps \in Nat, faults' = faults \/ faults' = faults + 1,
         overlaps' = overlaps \/ overlaps' = overlaps + 1
  PROVE  \E g \in Nat : Budget(faults', overlaps') = Budget(faults, overlaps) + g
<1>1. /\ Budget(faults, overlaps) \in Nat
      /\ Budget(faults + 1, overlaps) = Budget(faults, overlaps) + 1
      /\ Budget(faults, overlaps + 1) = Budget(faults, overlaps) + 2
  BY Budgets
<1>2. Budget(faults + 1, overlaps + 1) = Budget(faults, overlaps) + 3
  <2>1. Budget(faults + 1, overlaps + 1) = Budget(faults + 1, overlaps) + 2
    BY Budgets
  <2> QED BY <1>1, <2>1
<1>3. CASE faults' = faults /\ overlaps' = overlaps
  <2>1. Budget(faults', overlaps') = Budget(faults, overlaps) + 0
    BY <1>1, <1>3
  <2> QED BY <2>1
<1>4. CASE faults' = faults + 1 /\ overlaps' = overlaps
  BY <1>1, <1>4
<1>5. CASE faults' = faults /\ overlaps' = overlaps + 1
  BY <1>1, <1>5
<1>6. CASE faults' = faults + 1 /\ overlaps' = overlaps + 1
  BY <1>2, <1>6
<1> QED BY <1>3, <1>4, <1>5, <1>6

\* What is owed stays paid for when it grows by no more than the budget.
LEMMA Settle ==
  ASSUME Steady, Crowd, NEW p \in Pairs, Paid(p), NEW g \in Nat,
         Owed(p) \in Int, Owed(p)' \in Int,
         Budget(faults', overlaps') = Budget(faults, overlaps) + g,
         Owed(p)' <= Owed(p) + g
  PROVE  Paid(p)'
<1>1. Budget(faults, overlaps) \in Nat
  BY Amounts, Budgets
<1>2. Owed(p) <= Budget(faults, overlaps)
  BY DEF Paid
<1> HIDE DEF Owed, Budget
<1>3. Owed(p)' <= Budget(faults', overlaps')
  BY <1>1, <1>2
<1> QED BY <1>3 DEF Paid

LEMMA SettleEven ==
  ASSUME Steady, Crowd, NEW p \in Pairs, Paid(p),
         Owed(p) \in Int, Owed(p)' \in Int, Owed(p)' <= Owed(p),
         faults' = faults \/ faults' = faults + 1,
         overlaps' = overlaps \/ overlaps' = overlaps + 1
  PROVE  Paid(p)'
<1>1. faults \in Nat /\ overlaps \in Nat
  BY Amounts
<1>2. PICK g \in Nat : Budget(faults', overlaps') = Budget(faults, overlaps) + g
  BY <1>1, BudgetGrows
<1>3. Owed(p)' <= Owed(p) + g
  OBVIOUS
<1> QED BY <1>2, <1>3, Settle

LEMMA UnmovedPaid ==
  ASSUME Steady, Crowd, NEW p \in Pairs, Paid(p),
         pages'[p] = pages[p], state'[p] = state[p],
         \A x \in Evaluators : Same(ev[x], ev'[x], p, pages[p]),
         faults' = faults \/ faults' = faults + 1,
         overlaps' = overlaps \/ overlaps' = overlaps + 1
  PROVE  Paid(p)'
<1>1. Premature(p)' = Premature(p)
  BY DEF Premature
<1>2. Facing(p)' = Facing(p) /\ Holding(p)' = Holding(p)
  BY DEF Facing, Holding, Same
<1>3. Kept(p)' <=> Kept(p)
  BY DEF Kept, Same
<1>4. Astray(p)' <=> Astray(p)
  BY <1>3 DEF Astray
<1>5. Clear(p)' <=> Clear(p)
  BY <1>2, <1>3 DEF Clear, Same
<1>6. Bit(Astray(p)') = Bit(Astray(p))
  BY <1>4 DEF Bit
<1>7. Credit(p)' = Credit(p)
  BY <1>2, <1>3, <1>4, <1>5 DEF Credit, Bit
<1>8. /\ Cardinality(Premature(p)) \in Nat /\ Cardinality(Facing(p)) \in Nat
      /\ Cardinality(Holding(p)) \in Nat
  BY Amounts
<1>9. Credit(p) \in 0 .. 2 /\ Bit(Astray(p)) \in 0 .. 1
  BY CreditRange DEF Bit
<1>10. Owed(p) \in Int
  BY <1>8, <1>9 DEF Owed
<1>11. Owed(p)' = Owed(p)
  BY <1>1, <1>2, <1>6, <1>7 DEF Owed
<1> QED BY <1>10, <1>11, SettleEven

\* What the pair owes after a step of one evaluation.
LEMMA OwedNow ==
  ASSUME Steady, Crowd, NEW p \in Pairs, NEW e \in Evaluators,
         \A x \in Evaluators \ {e} : ev'[x] = ev[x], Cardinality(Premature(p)') \in Nat
  PROVE  /\ Owed(p) \in Int /\ Owed(p)' \in Int
         /\ Owed(p)' = Owed(p)
              + (Cardinality(Premature(p)') - Cardinality(Premature(p)))
              + 2 * (Bit(Faces(ev'[e], p)) - Bit(Faces(ev[e], p)))
              + (Bit(Holds(ev'[e], p)) - Bit(Holds(ev[e], p)))
              + (Bit(Astray(p)') - Bit(Astray(p))) + (Credit(p) - Credit(p)')
         /\ Cardinality(Premature(p)) \in Nat
         /\ Credit(p) \in 0 .. 2 /\ Credit(p)' \in 0 .. 2
         /\ Bit(Astray(p)) \in 0 .. 1 /\ Bit(Astray(p)') \in 0 .. 1
<1>1. /\ Cardinality(Premature(p)) \in Nat /\ Cardinality(Facing(p)) \in Nat
      /\ Cardinality(Holding(p)) \in Nat
  BY Amounts
<1>2. /\ Cardinality(Facing(p)') \in Nat /\ Cardinality(Holding(p)') \in Nat
      /\ Cardinality(Facing(p)') = Cardinality(Facing(p)) + Bit(Faces(ev'[e], p)) - Bit(Faces(ev[e], p))
      /\ Cardinality(Holding(p)') = Cardinality(Holding(p)) + Bit(Holds(ev'[e], p)) - Bit(Holds(ev[e], p))
  BY OneMoves
<1>3. Credit(p) \in 0 .. 2 /\ Credit(p)' \in 0 .. 2
  BY CreditRange
<1>4. Bit(Astray(p)) \in 0 .. 1 /\ Bit(Astray(p)') \in 0 .. 1
  BY DEF Bit
<1>5. /\ Bit(Faces(ev'[e], p)) \in 0 .. 1 /\ Bit(Faces(ev[e], p)) \in 0 .. 1
      /\ Bit(Holds(ev'[e], p)) \in 0 .. 1 /\ Bit(Holds(ev[e], p)) \in 0 .. 1
  BY DEF Bit
<1>6. Owed(p) \in Int
  BY <1>1, <1>3, <1>4 DEF Owed
<1>7. Owed(p)' \in Int
  BY <1>2, <1>3, <1>4 DEF Owed
<1>8. Owed(p)' = Owed(p)
              + (Cardinality(Premature(p)') - Cardinality(Premature(p)))
              + 2 * (Bit(Faces(ev'[e], p)) - Bit(Faces(ev[e], p)))
              + (Bit(Holds(ev'[e], p)) - Bit(Holds(ev[e], p)))
              + (Bit(Astray(p)') - Bit(Astray(p))) + (Credit(p) - Credit(p)')
  BY <1>1, <1>2, <1>3, <1>4, <1>5 DEF Owed
<1> QED BY <1>1, <1>3, <1>4, <1>6, <1>7, <1>8

\* An evaluation lets go of the pair: one that faced it needs nothing more, one
\* that held it has failed.
LEMMA LosePaid ==
  ASSUME Steady, Crowd, NEW p \in Pairs, Paid(p), NEW e \in Evaluators,
         \A x \in Evaluators \ {e} : ev'[x] = ev[x],
         pages'[p] = pages[p], state'[p] = state[p],
         ~Faces(ev'[e], p), ~Holds(ev'[e], p),
         faults' = faults \/ faults' = faults + 1, overlaps' = overlaps,
         Holds(ev[e], p) => faults' = faults + 1
  PROVE  Paid(p)'
<1>0. Steady /\ TypeOK /\ AllSound /\ ev[e] \in Evaluation /\ Sound(ev[e])
  BY DEF Steady, AllSound, TypeOK
<1>1. Premature(p)' = Premature(p) /\ Cardinality(Premature(p)) \in Nat
  BY Amounts DEF Premature
<1>2. /\ Owed(p) \in Int /\ Owed(p)' \in Int
      /\ Owed(p)' = Owed(p)
              + (Cardinality(Premature(p)') - Cardinality(Premature(p)))
              + 2 * (Bit(Faces(ev'[e], p)) - Bit(Faces(ev[e], p)))
              + (Bit(Holds(ev'[e], p)) - Bit(Holds(ev[e], p)))
              + (Bit(Astray(p)') - Bit(Astray(p))) + (Credit(p) - Credit(p)')
      /\ Credit(p) \in 0 .. 2 /\ Credit(p)' \in 0 .. 2
      /\ Bit(Astray(p)) \in 0 .. 1 /\ Bit(Astray(p)') \in 0 .. 1
  BY <1>1, OwedNow
<1>3. Bit(Faces(ev'[e], p)) = 0 /\ Bit(Holds(ev'[e], p)) = 0
  BY DEF Bit
<1>4. ~(Faces(ev[e], p) /\ Holds(ev[e], p)) /\ (Sends(ev[e], p) => Faces(ev[e], p))
  BY <1>0, Apart
<1>5. CASE Faces(ev[e], p)
  <2>1. Kept(p)' <=> Kept(p)
    BY <1>4, <1>5 DEF Kept
  <2>2. Bit(Astray(p)') = Bit(Astray(p))
    BY <2>1 DEF Astray, Bit
  <2>3. Bit(Faces(ev[e], p)) = 1 /\ Bit(Holds(ev[e], p)) = 0
    BY <1>4, <1>5 DEF Bit
  <2>4. Owed(p)' <= Owed(p)
    BY <1>1, <1>2, <1>3, <2>2, <2>3
  <2> QED BY <1>2, <2>4, SettleEven
<1>6. CASE Holds(ev[e], p)
  <2>1. Facing(p)' = Facing(p)
    BY <1>4, <1>6 DEF Facing
  <2>2. Kept(p)' => Kept(p)
    BY DEF Kept
  <2>3. ~Astray(p) /\ Clear(p) => ~Astray(p)'
    BY DEF Astray, Clear
  <2>4. ~Astray(p) /\ Credit(p) = 2 => ~Astray(p)'
    BY <2>3 DEF Credit, Bit
  <2>5. Bit(Astray(p)') <= Bit(Astray(p)) - Credit(p) + 2
    BY <1>2, <2>4 DEF Bit
  <2>6. Bit(Faces(ev[e], p)) = 0 /\ Bit(Holds(ev[e], p)) = 1
    BY <1>4, <1>6 DEF Bit
  <2>7. Owed(p)' <= Owed(p) + 1
    BY <1>1, <1>2, <1>3, <2>5, <2>6
  <2>8. Budget(faults', overlaps') = Budget(faults, overlaps) + 1
    BY <1>6, Amounts, Budgets
  <2> QED BY <1>2, <2>7, <2>8, Settle
<1>7. CASE ~Faces(ev[e], p) /\ ~Holds(ev[e], p)
  <2>1. ~Sends(ev[e], p) /\ ~Sends(ev'[e], p)
    BY <1>4, <1>7 DEF Faces, Sends
  <2>2. Same(ev[e], ev'[e], p, pages[p])
    BY <1>7, <2>1 DEF Same
  <2>3. \A x \in Evaluators : Same(ev[x], ev'[x], p, pages[p])
    BY <2>2, SameIfEqual
  <2> QED BY <2>3, UnmovedPaid
<1> QED BY <1>5, <1>6, <1>7

\* An alert is decided on: it is due by the row that is there.
LEMMA DuePaid ==
  ASSUME Steady, Crowd, NEW p \in Pairs, Paid(p), NEW e \in Evaluators,
         \A x \in Evaluators \ {e} : ev'[x] = ev[x],
         pages'[p] = pages[p], state'[p] = state[p],
         Faces(ev[e], p), Faces(ev'[e], p), ~Holds(ev[e], p), ~Holds(ev'[e], p),
         Guards(state[p], pages[p]) => Timely(ev'[e], pages[p]),
         faults' = faults, overlaps' = overlaps
  PROVE  Paid(p)'
<1>1. Premature(p)' = Premature(p)
  BY DEF Premature
<1>2. Facing(p)' = Facing(p) /\ Holding(p)' = Holding(p)
  BY DEF Facing, Holding
<1>3. Kept(p)' <=> Kept(p)
  BY DEF Kept
<1>4. Astray(p)' <=> Astray(p)
  BY <1>3 DEF Astray
<1>5. Clear(p) => Clear(p)'
  BY <1>2, <1>3 DEF Clear
<1>6. Bit(Astray(p)') = Bit(Astray(p))
  BY <1>4 DEF Bit
<1>7. Credit(p) <= Credit(p)'
  BY <1>2, <1>3, <1>4, <1>5 DEF Credit, Bit
<1>8. /\ Cardinality(Premature(p)) \in Nat /\ Cardinality(Facing(p)) \in Nat
      /\ Cardinality(Holding(p)) \in Nat
  BY Amounts
<1>9. Credit(p) \in 0 .. 2 /\ Credit(p)' \in 0 .. 2 /\ Bit(Astray(p)) \in 0 .. 1
  BY CreditRange DEF Bit
<1>10. Owed(p) \in Int /\ Owed(p)' \in Int
  BY <1>1, <1>2, <1>6, <1>8, <1>9 DEF Owed
<1>11. Owed(p)' <= Owed(p)
  BY <1>1, <1>2, <1>6, <1>7, <1>8, <1>9 DEF Owed
<1> QED BY <1>10, <1>11, SettleEven

\* No alert is decided on: the row to be written says what the row that is
\* there says, or a recovery goes out first.
Turns(q, w, p) == Faces(q, p) /\ ~Faces(w, p) /\ ~Holds(q, p) /\ Holds(w, p)

LEMMA HoldPaid ==
  ASSUME Steady, Crowd, NEW p \in Pairs, Paid(p), NEW e \in Evaluators,
         \A x \in Evaluators \ {e} : ev'[x] = ev[x],
         pages'[p] = pages[p], state'[p] = state[p],
         Turns(ev[e], ev'[e], p),
         Guards(state[p], pages[p]) => Keeps(ev'[e], p, pages[p]),
         faults' = faults, overlaps' = overlaps
  PROVE  Paid(p)'
<1>1. Premature(p)' = Premature(p) /\ Cardinality(Premature(p)) \in Nat
  BY Amounts DEF Premature
<1>2. /\ Owed(p) \in Int /\ Owed(p)' \in Int
      /\ Owed(p)' = Owed(p)
              + (Cardinality(Premature(p)') - Cardinality(Premature(p)))
              + 2 * (Bit(Faces(ev'[e], p)) - Bit(Faces(ev[e], p)))
              + (Bit(Holds(ev'[e], p)) - Bit(Holds(ev[e], p)))
              + (Bit(Astray(p)') - Bit(Astray(p))) + (Credit(p) - Credit(p)')
      /\ Credit(p) \in 0 .. 2 /\ Credit(p)' \in 0 .. 2
      /\ Bit(Astray(p)) \in 0 .. 1 /\ Bit(Astray(p)') \in 0 .. 1
  BY <1>1, OwedNow
<1>3. /\ Bit(Faces(ev'[e], p)) = 0 /\ Bit(Holds(ev'[e], p)) = 1
      /\ Bit(Faces(ev[e], p)) = 1 /\ Bit(Holds(ev[e], p)) = 0
  BY DEF Bit, Turns
<1>4. Kept(p) => Kept(p)'
  BY DEF Kept, Turns
<1>5. Astray(p)' => Astray(p)
  BY <1>4 DEF Astray
<1>6. Bit(Astray(p)') <= Bit(Astray(p))
  BY <1>5 DEF Bit
<1>7. Holding(p)' # {}
  BY DEF Holding, Turns
<1>8. Kept(p)' \/ Astray(p)'
  BY DEF Kept, Astray, Turns
<1>9. Credit(p)' # 0
  BY <1>7, <1>8 DEF Credit, Bit
<1>10. Credit(p) - Credit(p)' <= 1
  BY <1>2, <1>9
<1>11. Owed(p)' <= Owed(p)
  BY <1>1, <1>2, <1>3, <1>6, <1>10
<1> QED BY <1>2, <1>11, SettleEven

\* An evaluation begins: the first has its two free, another is paid for as an
\* overlap.
LEMMA StartPaid ==
  ASSUME Steady, Crowd, NEW p \in Pairs, Paid(p), NEW e \in Evaluators, Start(e)
  PROVE  Paid(p)'
<1>0. TypeOK /\ AllSound /\ ev[e] \in Evaluation /\ Sound(ev[e])
  BY DEF Steady, AllSound, TypeOK
<1>1. /\ \A x \in Evaluators \ {e} : ev'[x] = ev[x]
      /\ ev[e].pc = "idle" /\ ev'[e].pc = "list" /\ ev'[e].jobs = {}
  BY <1>0, StartDoes
<1>2. /\ pages' = pages /\ state' = state /\ faults' = faults
      /\ IF ~InProgress THEN overlaps' = overlaps ELSE overlaps' = overlaps + 1
  BY DEF Start, tables
<1>3. ~Faces(ev[e], p) /\ ~Holds(ev[e], p) /\ ~Sends(ev[e], p)
  BY <1>0, <1>1, Apart
<1>4. ~Holds(ev'[e], p) /\ ~Sends(ev'[e], p)
  BY <1>1 DEF Holds, Sends
<1>5. CASE ~Faces(ev'[e], p)
  <2>1. Same(ev[e], ev'[e], p, pages[p])
    BY <1>3, <1>4, <1>5 DEF Same
  <2>2. \A x \in Evaluators : Same(ev[x], ev'[x], p, pages[p])
    BY <1>1, <2>1, SameIfEqual
  <2> QED BY <1>2, <2>2, UnmovedPaid
<1>6. CASE Faces(ev'[e], p)
  <2>1. Premature(p)' = Premature(p) /\ Cardinality(Premature(p)) \in Nat
    BY <1>2, Amounts DEF Premature
  <2>2. /\ Owed(p) \in Int /\ Owed(p)' \in Int
        /\ Owed(p)' = Owed(p)
                + (Cardinality(Premature(p)') - Cardinality(Premature(p)))
                + 2 * (Bit(Faces(ev'[e], p)) - Bit(Faces(ev[e], p)))
                + (Bit(Holds(ev'[e], p)) - Bit(Holds(ev[e], p)))
                + (Bit(Astray(p)') - Bit(Astray(p))) + (Credit(p) - Credit(p)')
        /\ Credit(p) \in 0 .. 2 /\ Credit(p)' \in 0 .. 2
        /\ Bit(Astray(p)) \in 0 .. 1 /\ Bit(Astray(p)') \in 0 .. 1
    BY <1>1, <2>1, OwedNow
  <2>3. /\ Bit(Faces(ev'[e], p)) = 1 /\ Bit(Holds(ev'[e], p)) = 0
        /\ Bit(Faces(ev[e], p)) = 0 /\ Bit(Holds(ev[e], p)) = 0
    BY <1>3, <1>4, <1>6 DEF Bit
  <2>4. Kept(p)' <=> Kept(p)
    BY <1>1, <1>2, <1>3, <1>4 DEF Kept
  <2>5. Astray(p)' <=> Astray(p)
    BY <1>2, <2>4 DEF Astray
  <2>6. Bit(Astray(p)') = Bit(Astray(p))
    BY <2>5 DEF Bit
  <2>7. Holding(p)' = Holding(p) /\ Facing(p)' # {}
    BY <1>1, <1>3, <1>4, <1>6 DEF Holding, Facing
  <2>8. Clear(p) => Clear(p)'
    BY <1>1, <1>2, <1>3, <1>4, <2>4, <2>7 DEF Clear
  <2>9. CASE InProgress
    <3>1. Credit(p) <= Credit(p)'
      BY <2>4, <2>5, <2>7, <2>8 DEF Credit, Bit
    <3>2. Owed(p)' <= Owed(p) + 2
      BY <2>1, <2>2, <2>3, <2>6, <3>1
    <3>3. Budget(faults', overlaps') = Budget(faults, overlaps) + 2
      BY <1>2, <2>9, Amounts, Budgets
    <3> QED BY <2>2, <3>2, <3>3, Settle
  <2>10. CASE ~InProgress
    <3>1. \A x \in Evaluators : ev[x] \in Evaluation /\ Sound(ev[x]) /\ ev[x].pc = "idle"
      BY <1>0, <2>10 DEF InProgress, TypeOK, AllSound
    <3>2. \A x \in Evaluators : ~Faces(ev[x], p) /\ ~Holds(ev[x], p) /\ ~Sends(ev[x], p)
      BY <3>1, Apart
    <3>3. Facing(p) = {} /\ Holding(p) = {} /\ ~Kept(p)
      BY <3>2 DEF Facing, Holding, Kept
    <3>4. Credit(p) = 0
      BY <3>3 DEF Credit, Clear, Bit
    <3>5. Clear(p)'
      BY <1>1, <1>4, <2>4, <2>7, <3>2, <3>3 DEF Clear
    <3>6. Credit(p)' = 2
      BY <3>5 DEF Credit
    <3>7. Owed(p)' <= Owed(p)
      BY <2>1, <2>2, <2>3, <2>6, <3>4, <3>6
    <3> QED BY <1>2, <2>2, <2>10, <3>7, SettleEven
  <2> QED BY <2>9, <2>10
<1> QED BY <1>5, <1>6

LEMMA OnePageMore ==
  ASSUME Steady, Crowd, NEW p \in Pairs, NEW level \in Levels, NEW ts \in Nat,
         pages'[p] = Append(pages[p], [level |-> level, ts |-> ts])
  PROVE  /\ Cardinality(Premature(p)') \in Nat
         /\ Cardinality(Premature(p)') <= Cardinality(Premature(p)) + 1
         /\ level # "alert" \/ (Standing(pages[p]) => ts - pages[p][Len(pages[p])].ts >= Renotify) =>
              Cardinality(Premature(p)') <= Cardinality(Premature(p))
         /\ pages'[p] # <<>> /\ pages'[p][Len(pages'[p])] = [level |-> level, ts |-> ts]
<1> DEFINE s == pages[p]
           k == Len(s)
           page == [level |-> level, ts |-> ts]
<1>0. TypeOK /\ Renotify \in Nat
  BY ConstantsAssumption DEF Steady
<1>1. s \in Seq(PageSent) /\ k \in Nat /\ page \in PageSent
  <2>1. s \in Seq(PageSent)
    BY <1>0 DEF TypeOK
  <2>2. page \in PageSent
    BY DEF PageSent
  <2> HIDE DEF s
  <2> QED BY <2>1, <2>2
<1>2. /\ Append(s, page) \in Seq(PageSent)
      /\ Len(Append(s, page)) = k + 1 /\ Append(s, page)[k + 1] = page
      /\ \A i \in 1 .. k : Append(s, page)[i] = s[i]
  BY <1>1
<1>3. pages'[p] # <<>> /\ pages'[p][Len(pages'[p])] = page
  BY <1>1, <1>2
<1>4. IsFiniteSet(Premature(p)) /\ Cardinality(Premature(p)) \in Nat
  BY Amounts
<1>5. Premature(p) = {i \in 1 .. (k - 1) :
        s[i].level = "alert" /\ s[i + 1].level = "alert" /\ s[i + 1].ts - s[i].ts < Renotify}
  BY DEF Premature
<1>6. Premature(p)' = {i \in 1 .. k :
        /\ Append(s, page)[i].level = "alert" /\ Append(s, page)[i + 1].level = "alert"
        /\ Append(s, page)[i + 1].ts - Append(s, page)[i].ts < Renotify}
  BY <1>1, <1>2 DEF Premature
<1>7. \A i \in Premature(p)' : i \in Premature(p) \/ i = k
  <2>1. ASSUME NEW i \in 1 .. (k - 1)
        PROVE  Append(s, page)[i] = s[i] /\ Append(s, page)[i + 1] = s[i + 1]
    BY <1>1, <1>2
  <2>2. \A i \in 1 .. k : i = k \/ i \in 1 .. (k - 1)
    BY <1>1
  <2> HIDE DEF s, k, page
  <2> QED BY <1>5, <1>6, <2>1, <2>2
<1>8. ASSUME k \in Premature(p)'
      PROVE  level = "alert" /\ Standing(pages[p]) /\ ~(ts - s[k].ts >= Renotify)
  <2>1. /\ k \in 1 .. k /\ Append(s, page)[k].level = "alert" /\ Append(s, page)[k + 1].level = "alert"
        /\ Append(s, page)[k + 1].ts - Append(s, page)[k].ts < Renotify
    BY <1>6, <1>8
  <2>2. s[k].level = "alert" /\ page.level = "alert" /\ page.ts - s[k].ts < Renotify
    BY <1>2, <2>1
  <2>3. s # <<>>
    BY <1>1, <2>1
  <2>4. s[k].ts \in Nat
    <3>1. s[k] \in PageSent
      <4> HIDE DEF s
      <4> QED BY <1>1, <2>1
    <3> QED BY <3>1 DEF PageSent
  <2> QED BY <1>0, <2>2, <2>3, <2>4 DEF Standing
<1>9. IsFiniteSet(Premature(p) \cup {k}) /\ Cardinality(Premature(p) \cup {k}) <= Cardinality(Premature(p)) + 1
  <2>1. /\ IsFiniteSet(Premature(p) \cup {k})
        /\ Cardinality(Premature(p) \cup {k})
             = IF k \in Premature(p) THEN Cardinality(Premature(p)) ELSE Cardinality(Premature(p)) + 1
    BY <1>4, FS_AddElement
  <2> HIDE DEF k
  <2> QED BY <1>4, <2>1
<1>10. Premature(p)' \in SUBSET (Premature(p) \cup {k})
  BY <1>7
<1>11. /\ Cardinality(Premature(p)') \in Nat
       /\ Cardinality(Premature(p)') <= Cardinality(Premature(p)) + 1
  <2>1. IsFiniteSet(Premature(p)') /\ Cardinality(Premature(p)') <= Cardinality(Premature(p) \cup {k})
    BY <1>9, <1>10, FS_Subset
  <2>2. Cardinality(Premature(p)') \in Nat /\ Cardinality(Premature(p) \cup {k}) \in Nat
    BY <1>9, <2>1, FS_CardinalityType
  <2> QED BY <1>4, <1>9, <2>1, <2>2
<1>12. ASSUME k \notin Premature(p)'
       PROVE  Cardinality(Premature(p)') <= Cardinality(Premature(p))
  <2>1. Premature(p)' \in SUBSET Premature(p)
    BY <1>7, <1>12
  <2> QED BY <1>4, <2>1, FS_Subset
<1> QED BY <1>3, <1>8, <1>11, <1>12

\* The alert goes out.  If it is early, the row it was decided by had gone
\* astray or a page has gone out since.
LEMMA AlertPaid ==
  ASSUME Steady, Crowd, NEW p \in Pairs, Paid(p), NEW e \in Evaluators,
         \A x \in Evaluators \ {e} : ev'[x] = ev[x],
         Turns(ev[e], ev'[e], p), Sends(ev[e], p), state'[p] = state[p],
         pages'[p] = Append(pages[p], [level |-> "alert", ts |-> ev[e].now]),
         Guards(RowFor(ev'[e], p), pages'[p]),
         faults' = faults, overlaps' = overlaps
  PROVE  Paid(p)'
<1>0. TypeOK /\ ev[e] \in Evaluation /\ ev[e].now \in Nat /\ "alert" \in Levels
  BY DEF Steady, TypeOK, Evaluation, Levels
<1>1. /\ Cardinality(Premature(p)') \in Nat
      /\ Cardinality(Premature(p)') <= Cardinality(Premature(p)) + 1
      /\ Timely(ev[e], pages[p]) => Cardinality(Premature(p)') <= Cardinality(Premature(p))
  BY <1>0, OnePageMore DEF Timely
<1>2. /\ Owed(p) \in Int /\ Owed(p)' \in Int
      /\ Owed(p)' = Owed(p)
              + (Cardinality(Premature(p)') - Cardinality(Premature(p)))
              + 2 * (Bit(Faces(ev'[e], p)) - Bit(Faces(ev[e], p)))
              + (Bit(Holds(ev'[e], p)) - Bit(Holds(ev[e], p)))
              + (Bit(Astray(p)') - Bit(Astray(p))) + (Credit(p) - Credit(p)')
      /\ Cardinality(Premature(p)) \in Nat
      /\ Credit(p) \in 0 .. 2 /\ Credit(p)' \in 0 .. 2
      /\ Bit(Astray(p)) \in 0 .. 1 /\ Bit(Astray(p)') \in 0 .. 1
  BY <1>1, OwedNow
<1>3. /\ Bit(Faces(ev'[e], p)) = 0 /\ Bit(Holds(ev'[e], p)) = 1
      /\ Bit(Faces(ev[e], p)) = 1 /\ Bit(Holds(ev[e], p)) = 0
  BY DEF Bit, Turns
<1>4. Kept(p)'
  BY DEF Kept, Keeps, Turns
<1>5. Bit(Astray(p)') = 0
  BY <1>4 DEF Astray, Bit
<1>6. Credit(p)' # 0
  BY <1>4 DEF Credit, Bit
<1>7. Credit(p) = 2 /\ ~Timely(ev[e], pages[p]) => Bit(Astray(p)) = 1
  <2>1. Credit(p) = 2 => Clear(p)
    BY DEF Credit, Bit
  <2>2. Clear(p) /\ ~Timely(ev[e], pages[p]) => Astray(p)
    BY DEF Clear, Astray
  <2> QED BY <2>1, <2>2 DEF Bit
<1>8. CASE Timely(ev[e], pages[p])
  <2>1. Credit(p) - Credit(p)' <= 1
    BY <1>2, <1>6
  <2>2. Owed(p)' <= Owed(p)
    BY <1>1, <1>2, <1>3, <1>5, <1>8, <2>1, SMTT(60)
  <2> QED BY <1>2, <2>2, SettleEven
<1>9. CASE ~Timely(ev[e], pages[p])
  <2>1. Credit(p) - Credit(p)' <= Bit(Astray(p))
    BY <1>2, <1>6, <1>7, <1>9
  <2>2. Owed(p)' <= Owed(p)
    BY <1>1, <1>2, <1>3, <1>5, <2>1
  <2> QED BY <1>2, <2>2, SettleEven
<1> QED BY <1>8, <1>9

Stays(q, w, p) == ~Faces(q, p) /\ ~Faces(w, p) /\ Holds(q, p) /\ Holds(w, p)

\* A recovery goes out: no alert stands, so none can come early.
LEMMA RecoveryPaid ==
  ASSUME Steady, Crowd, NEW p \in Pairs, Paid(p), NEW e \in Evaluators,
         \A x \in Evaluators \ {e} : ev'[x] = ev[x],
         Stays(ev[e], ev'[e], p), state'[p] = state[p], NEW ts \in Nat,
         pages'[p] = Append(pages[p], [level |-> "recovery", ts |-> ts]),
         faults' = faults, overlaps' = overlaps
  PROVE  Paid(p)'
<1>1. /\ Cardinality(Premature(p)') \in Nat
      /\ Cardinality(Premature(p)') <= Cardinality(Premature(p))
      /\ ~Standing(pages'[p])
  <2>1. "recovery" \in Levels /\ "recovery" # "alert"
    BY DEF Levels
  <2>2. /\ Cardinality(Premature(p)') \in Nat
        /\ Cardinality(Premature(p)') <= Cardinality(Premature(p))
        /\ pages'[p][Len(pages'[p])] = [level |-> "recovery", ts |-> ts]
    BY <2>1, OnePageMore
  <2> QED BY <2>1, <2>2 DEF Standing
<1>2. /\ Owed(p) \in Int /\ Owed(p)' \in Int
      /\ Owed(p)' = Owed(p)
              + (Cardinality(Premature(p)') - Cardinality(Premature(p)))
              + 2 * (Bit(Faces(ev'[e], p)) - Bit(Faces(ev[e], p)))
              + (Bit(Holds(ev'[e], p)) - Bit(Holds(ev[e], p)))
              + (Bit(Astray(p)') - Bit(Astray(p))) + (Credit(p) - Credit(p)')
      /\ Cardinality(Premature(p)) \in Nat
      /\ Credit(p) \in 0 .. 2 /\ Credit(p)' \in 0 .. 2
      /\ Bit(Astray(p)) \in 0 .. 1 /\ Bit(Astray(p)') \in 0 .. 1
  BY <1>1, OwedNow
<1>3. /\ Bit(Faces(ev'[e], p)) = 0 /\ Bit(Holds(ev'[e], p)) = 1
      /\ Bit(Faces(ev[e], p)) = 0 /\ Bit(Holds(ev[e], p)) = 1
  BY DEF Bit, Stays
<1>4. Kept(p)'
  BY <1>1 DEF Kept, Keeps, Guards, Stays
<1>5. Bit(Astray(p)') = 0
  BY <1>4 DEF Astray, Bit
<1>6. Facing(p)' = Facing(p)
  BY DEF Facing, Stays
<1>7. Clear(p) => Clear(p)'
  BY <1>1, <1>6 DEF Clear, Guards, Timely
<1>8. Credit(p) <= Credit(p)'
  BY <1>4, <1>7 DEF Credit, Bit
<1>9. Owed(p)' <= Owed(p)
  BY <1>1, <1>2, <1>3, <1>5, <1>8
<1> QED BY <1>2, <1>9, SettleEven

Ends(q, w, p) == Holds(q, p) /\ ~Faces(q, p) /\ ~Faces(w, p) /\ ~Holds(w, p)

\* The row is written.  It guards the alert, or leaves the row astray as the
\* evaluation itself has paid for.
LEMMA SavePaid ==
  ASSUME Steady, Crowd, NEW p \in Pairs, Paid(p), NEW e \in Evaluators,
         \A x \in Evaluators \ {e} : ev'[x] = ev[x],
         Ends(ev[e], ev'[e], p), ev[e].send = {},
         pages'[p] = pages[p], state'[p] = Stored(RowFor(ev[e], p)),
         faults' = faults, overlaps' = overlaps
  PROVE  Paid(p)'
<1>1. Premature(p)' = Premature(p) /\ Cardinality(Premature(p)) \in Nat
  BY Amounts DEF Premature
<1>2. /\ Owed(p) \in Int /\ Owed(p)' \in Int
      /\ Owed(p)' = Owed(p)
              + (Cardinality(Premature(p)') - Cardinality(Premature(p)))
              + 2 * (Bit(Faces(ev'[e], p)) - Bit(Faces(ev[e], p)))
              + (Bit(Holds(ev'[e], p)) - Bit(Holds(ev[e], p)))
              + (Bit(Astray(p)') - Bit(Astray(p))) + (Credit(p) - Credit(p)')
      /\ Credit(p) \in 0 .. 2 /\ Credit(p)' \in 0 .. 2
      /\ Bit(Astray(p)) \in 0 .. 1 /\ Bit(Astray(p)') \in 0 .. 1
  BY <1>1, OwedNow
<1>3. /\ Bit(Faces(ev'[e], p)) = 0 /\ Bit(Holds(ev'[e], p)) = 0
      /\ Bit(Faces(ev[e], p)) = 0 /\ Bit(Holds(ev[e], p)) = 1
  BY DEF Bit, Ends
<1>4. Facing(p)' = Facing(p)
  BY DEF Facing, Ends
<1>5. Guards(state'[p], pages[p]) <=> Guards(RowFor(ev[e], p), pages[p])
  BY DEF Guards, Stored
<1>6. Keeps(ev[e], p, pages[p]) <=> Guards(RowFor(ev[e], p), pages[p])
  BY DEF Keeps
<1>7. Kept(p)' => Kept(p)
  BY DEF Kept, Ends
<1>8. ~Sends(ev'[e], p)
  BY DEF Ends, Faces
<1>9. CASE Guards(RowFor(ev[e], p), pages[p])
  <2>1. Bit(Astray(p)') = 0
    BY <1>5, <1>9 DEF Astray, Bit
  <2>2. Kept(p)
    BY <1>6, <1>9 DEF Kept, Ends
  <2>3. Clear(p) => Clear(p)'
    BY <1>4, <1>5, <1>8, <1>9, <2>2 DEF Clear
  <2>4. Credit(p) = 2 => Credit(p)' = 2
    BY <2>3 DEF Credit, Bit
  <2>5. Credit(p) - Credit(p)' <= 1
    BY <1>2, <2>4
  <2>6. Owed(p)' <= Owed(p)
    BY <1>1, <1>2, <1>3, <2>1, <2>5
  <2> QED BY <1>2, <2>6, SettleEven
<1>10. CASE ~Guards(RowFor(ev[e], p), pages[p]) /\ Kept(p)'
  <2>1. Bit(Astray(p)') = 0
    BY <1>10 DEF Astray, Bit
  <2>2. Credit(p)' # 0
    BY <1>10 DEF Credit, Bit
  <2>3. Credit(p) - Credit(p)' <= 1
    BY <1>2, <2>2
  <2>4. Owed(p)' <= Owed(p)
    BY <1>1, <1>2, <1>3, <2>1, <2>3
  <2> QED BY <1>2, <2>4, SettleEven
<1>11. CASE ~Guards(RowFor(ev[e], p), pages[p]) /\ ~Kept(p)'
  <2>1. ~Kept(p)
    BY <1>6, <1>11 DEF Kept
  <2>2. Clear(p) => Clear(p)'
    BY <1>4, <1>5, <1>11 DEF Clear
  <2>3. Credit(p) = 2 => Credit(p)' = 2
    BY <2>2 DEF Credit, Bit
  <2>4. Credit(p) = 1 => Bit(Astray(p)) = 1
    BY <2>1 DEF Credit, Bit
  <2>5. Credit(p) - Credit(p)' <= Bit(Astray(p))
    BY <1>2, <2>3, <2>4
  <2>6. Owed(p)' <= Owed(p)
    BY <1>1, <1>2, <1>3, <2>5
  <2> QED BY <1>2, <2>6, SettleEven
<1> QED BY <1>9, <1>10, <1>11

\* A deletion takes the pages with the row: what the evaluations in progress may
\* still send is within what the overlaps have paid for.
LEMMA ForgetPaid ==
  ASSUME Steady, Crowd, NEW p \in Pairs, ev' = ev, pages'[p] = <<>>,
         faults' = faults, overlaps' = overlaps
  PROVE  Paid(p)'
<1>1. Premature(p)' = {}
  BY DEF Premature
<1>2. Cardinality(Premature(p)') = 0
  BY <1>1, FS_EmptySet
<1>3. Facing(p)' = Facing(p) /\ Holding(p)' = Holding(p)
  BY DEF Facing, Holding
<1>4. ~Standing(pages'[p])
  BY DEF Standing
<1>5. Bit(Astray(p)') = 0
  BY <1>4 DEF Astray, Guards, Bit
<1>6. /\ Cardinality(Facing(p)) \in Nat /\ Cardinality(Holding(p)) \in Nat
      /\ Cardinality(Facing(p)) + Cardinality(Holding(p)) <= 1 + overlaps
      /\ faults \in Nat /\ overlaps \in Nat
  BY Amounts
<1>7. Credit(p)' \in 0 .. 2
  BY CreditRange
<1>8. Budget(faults', overlaps') = faults + 2 * overlaps
  BY DEF Budget
<1>9. Owed(p)' = 2 * Cardinality(Facing(p)) + Cardinality(Holding(p)) - Credit(p)'
  BY <1>2, <1>3, <1>5, <1>6, <1>7 DEF Owed
<1>10. CASE Facing(p) # {}
  <2>1. Clear(p)'
    BY <1>3, <1>4, <1>10 DEF Clear, Guards, Timely
  <2>2. Credit(p)' = 2
    BY <2>1 DEF Credit
  <2>3. Owed(p)' <= faults + 2 * overlaps
    BY <1>6, <1>9, <2>2
  <2> QED BY <1>8, <2>3 DEF Paid
<1>11. CASE Facing(p) = {} /\ Holding(p) # {}
  <2>1. Kept(p)'
    BY <1>4, <1>11 DEF Kept, Keeps, Guards, Holding
  <2>2. Credit(p)' # 0
    BY <2>1 DEF Credit, Bit
  <2>3. Cardinality(Facing(p)) = 0
    BY <1>11, FS_EmptySet
  <2>4. Owed(p)' <= faults + 2 * overlaps
    BY <1>6, <1>7, <1>9, <2>2, <2>3
  <2> QED BY <1>8, <2>4 DEF Paid
<1>12. CASE Facing(p) = {} /\ Holding(p) = {}
  <2>1. Cardinality(Facing(p)) = 0 /\ Cardinality(Holding(p)) = 0
    BY <1>12, FS_EmptySet
  <2>2. Owed(p)' <= faults + 2 * overlaps
    BY <1>6, <1>7, <1>9, <2>1
  <2> QED BY <1>8, <2>2 DEF Paid
<1> QED BY <1>10, <1>11, <1>12

-----------------------------------------------------------------------------
(* The steps, one by one *)

\* A step that neither decides about the pair, nor pages it, nor writes it.
LEMMA QuietPaid ==
  ASSUME Steady, Crowd, NEW p \in Pairs, Paid(p), NEW e \in Evaluators,
         \A x \in Evaluators \ {e} : ev'[x] = ev[x],
         pages'[p] = pages[p], state'[p] = state[p],
         ~Holds(ev[e], p), ~Sends(ev[e], p), ~Holds(ev'[e], p), ~Sends(ev'[e], p),
         Faces(ev'[e], p) => Faces(ev[e], p),
         faults' = faults \/ faults' = faults + 1, overlaps' = overlaps
  PROVE  Paid(p)'
<1>1. CASE Faces(ev'[e], p)
  <2>1. Same(ev[e], ev'[e], p, pages[p])
    BY <1>1 DEF Same
  <2>2. \A x \in Evaluators : Same(ev[x], ev'[x], p, pages[p])
    BY <2>1, SameIfEqual
  <2> QED BY <2>2, UnmovedPaid
<1>2. CASE ~Faces(ev'[e], p)
  BY <1>2, LosePaid
<1> QED BY <1>1, <1>2

LEMMA Keeping ==
  ASSUME NEW e \in Evaluators, ListRules(e) \/ Aggregate(e) \/ AggregateThrows(e) \/ ReadStates(e)
  PROVE  UNCHANGED <<pages, state, faults, overlaps>>
  BY DEF ListRules, Aggregate, AggregateThrows, ReadStates, tables

LEMMA ListPaid ==
  ASSUME Steady, Crowd, NEW p \in Pairs, Paid(p), NEW e \in Evaluators, ListRules(e)
  PROVE  Paid(p)'
<1>0. TypeOK /\ AllSound /\ ev[e] \in Evaluation /\ Sound(ev[e])
  BY DEF Steady, AllSound, TypeOK
<1>1. UNCHANGED <<pages, state, faults, overlaps>>
  BY Keeping
<1>2. /\ \A x \in Evaluators \ {e} : ev'[x] = ev[x]
      /\ ev[e].pc = "list" /\ ev[e].nodes \in SUBSET Nodes
      /\ ev'[e].jobs = Jobs(ev[e].nodes)
      /\ ev'[e].pc \in {"idle", "rule"}
  BY <1>0, ListDoes
<1>3. \A j \in Jobs(ev[e].nodes) : j.scope \subseteq ev[e].nodes
  BY <1>0, <1>2, JobsType
<1>4. /\ ~Holds(ev[e], p) /\ ~Sends(ev[e], p) /\ ~Holds(ev'[e], p) /\ ~Sends(ev'[e], p)
      /\ Faces(ev'[e], p) => Listed(ev'[e], p)
  BY <1>2 DEF Holds, Sends, Faces
<1>5. Listed(ev'[e], p) => Faces(ev[e], p)
  BY <1>2, <1>3 DEF Listed, Faces
<1> QED BY <1>1, <1>2, <1>4, <1>5, QuietPaid

LEMMA AggregatePaid ==
  ASSUME Steady, Crowd, NEW p \in Pairs, Paid(p), NEW e \in Evaluators, Aggregate(e)
  PROVE  Paid(p)'
<1>0. TypeOK /\ AllSound /\ ev[e] \in Evaluation /\ Sound(ev[e])
  BY DEF Steady, AllSound, TypeOK
<1>1. UNCHANGED <<pages, state, faults, overlaps>>
  BY Keeping
<1>2. /\ \A x \in Evaluators \ {e} : ev'[x] = ev[x]
      /\ ev[e].pc = "rule" /\ ev'[e].pc = "states"
  BY <1>0, AggregateDoes
<1>3. PICK j \in ev[e].jobs :
        ev'[e].rule = j.rule /\ ev'[e].scope = j.scope /\ ev'[e].jobs = ev[e].jobs \ {j}
  BY <1>0, AggregateDoes
<1>4. ~Holds(ev[e], p) /\ ~Sends(ev[e], p) /\ ~Holds(ev'[e], p) /\ ~Sends(ev'[e], p)
  BY <1>2 DEF Holds, Sends
<1>5. Faces(ev'[e], p) => Listed(ev[e], p)
  BY <1>2, <1>3, <1>4 DEF Faces, Listed
<1>6. Faces(ev'[e], p) => Faces(ev[e], p)
  BY <1>5 DEF Faces
<1> QED BY <1>1, <1>2, <1>4, <1>6, QuietPaid

\* A rule given up or an evaluation that fails.
LEMMA GiveUpPaid ==
  ASSUME Steady, Crowd, NEW p \in Pairs, Paid(p), NEW e \in Evaluators,
         AggregateThrows(e) \/ RuleFails(e) \/ Fail(e)
  PROVE  Paid(p)'
<1>0. TypeOK /\ AllSound /\ ev[e] \in Evaluation /\ Sound(ev[e])
  BY DEF Steady, AllSound, TypeOK
<1>1. CASE AggregateThrows(e)
  <2>1. UNCHANGED <<pages, state, faults, overlaps>> /\ Leaves(e) /\ ev[e].pc = "rule"
    BY <1>1, Keeping DEF Leaves, AggregateThrows
  <2>2. /\ \A x \in Evaluators \ {e} : ev'[x] = ev[x]
        /\ ev'[e].pc \in {"idle", "rule"}
        /\ ev'[e].jobs \subseteq ev[e].jobs
    BY <1>0, <2>1, LeavesDo
  <2>3. ~Holds(ev[e], p) /\ ~Sends(ev[e], p) /\ ~Holds(ev'[e], p) /\ ~Sends(ev'[e], p)
    BY <2>1, <2>2 DEF Holds, Sends
  <2>4. Faces(ev'[e], p) => Listed(ev[e], p)
    BY <2>2, <2>3 DEF Faces, Listed
  <2>5. Faces(ev'[e], p) => Faces(ev[e], p)
    BY <2>4 DEF Faces
  <2> QED BY <2>1, <2>2, <2>3, <2>5, QuietPaid
<1>2. CASE RuleFails(e)
  <2>1. /\ UNCHANGED <<pages, state, overlaps>> /\ faults' = faults + 1
        /\ Leaves(e) /\ ev[e].pc \in {"states", "notify"}
    BY <1>2 DEF Leaves, RuleFails, tables
  <2>2. /\ \A x \in Evaluators \ {e} : ev'[x] = ev[x]
        /\ ev'[e].pc \in {"idle", "rule"}
        /\ ev'[e].jobs = ev[e].jobs
    BY <1>0, <2>1, LeavesDo
  <2>3. ~Holds(ev'[e], p) /\ ~Sends(ev'[e], p)
    BY <2>2 DEF Holds, Sends
  <2>4. Faces(ev'[e], p) => Listed(ev[e], p)
    BY <2>2, <2>3 DEF Faces, Listed
  <2>5. CASE Faces(ev'[e], p)
    <3>1. Faces(ev[e], p) /\ ev[e].rule # p[1]
      BY <1>0, <2>1, <2>4, <2>5, Apart DEF Faces
    <3>2. ~Holds(ev[e], p) /\ ~Sends(ev[e], p)
      BY <3>1 DEF Holds, Sends
    <3> QED BY <2>1, <2>2, <2>3, <3>1, <3>2, QuietPaid
  <2>6. CASE ~Faces(ev'[e], p)
    BY <2>1, <2>2, <2>3, <2>6, LosePaid
  <2> QED BY <2>5, <2>6
<1>3. CASE Fail(e)
  <2>1. UNCHANGED <<pages, state, overlaps>> /\ faults' = faults + 1
    BY <1>3 DEF Fail, tables
  <2>2. \A x \in Evaluators \ {e} : ev'[x] = ev[x]
    BY <1>0, <1>3, FailDoes
  <2>3. ev'[e] = Idle
    BY <1>0, <1>3, FailDoes
  <2>4. Idle \in Evaluation /\ Sound(Idle) /\ Idle.pc = "idle"
    BY IdleType DEF Sound, SoundJobs, SoundSends
  <2>5. ~Faces(Idle, p) /\ ~Holds(Idle, p)
    BY <2>4, Apart
  <2> QED BY <2>1, <2>2, <2>3, <2>5, LosePaid
<1> QED BY <1>1, <1>2, <1>3

LEMMA WritePaid ==
  ASSUME Steady, Crowd, NEW p \in Pairs, Paid(p), NEW e \in Evaluators, Save(e)
  PROVE  Paid(p)'
<1>0. TypeOK /\ AllSound /\ ev[e] \in Evaluation /\ Sound(ev[e])
  BY DEF Steady, AllSound, TypeOK
<1>1. /\ UNCHANGED <<pages, faults, overlaps>> /\ Leaves(e)
      /\ ev[e].pc = "notify" /\ ev[e].send = {}
  BY DEF Leaves, Save
<1>2. /\ \A x \in Evaluators \ {e} : ev'[x] = ev[x]
      /\ ev'[e].pc \in {"idle", "rule"}
      /\ ev'[e].jobs = ev[e].jobs
  BY <1>0, <1>1, LeavesDo
<1>3. ~Holds(ev'[e], p) /\ ~Sends(ev'[e], p) /\ ~Sends(ev[e], p)
  BY <1>1, <1>2 DEF Holds, Sends
<1>4. Faces(ev'[e], p) => Listed(ev[e], p)
  BY <1>2, <1>3 DEF Faces, Listed
<1>5. state'[p] = IF p[1] = ev[e].rule /\ p[2] \in NodesIn(ev[e].rows)
                  THEN Stored(RowFor(ev[e], p)) ELSE state[p]
  BY <1>0, SaveDoes
<1>6. CASE p[1] = ev[e].rule /\ p[2] \in NodesIn(ev[e].rows)
  <2>1. ~Listed(ev[e], p)
    BY <1>0, <1>1, <1>6, Apart
  <2>2. Holds(ev[e], p)
    BY <1>1, <1>6 DEF Holds
  <2>3. Ends(ev[e], ev'[e], p)
    BY <1>0, <1>3, <1>4, <2>1, <2>2, Apart DEF Ends
  <2>4. state'[p] = Stored(RowFor(ev[e], p))
    BY <1>5, <1>6
  <2> QED BY <1>1, <1>2, <2>3, <2>4, SavePaid
<1>7. CASE ~(p[1] = ev[e].rule /\ p[2] \in NodesIn(ev[e].rows))
  <2>1. ~Holds(ev[e], p)
    BY <1>7 DEF Holds
  <2>2. Faces(ev'[e], p) => Faces(ev[e], p)
    BY <1>4 DEF Faces
  <2>3. state'[p] = state[p]
    BY <1>5, <1>7
  <2> QED BY <1>1, <1>2, <1>3, <2>1, <2>2, <2>3, QuietPaid
<1> QED BY <1>6, <1>7

\* The row that tells an alert due also tells that a reminder is.
LEMMA DueTimely ==
  ASSUME Steady, Dated, NEW p \in Pairs, NEW now \in Nat, Due(state[p], now),
         Guards(state[p], pages[p]), Standing(pages[p])
  PROVE  now - pages[p][Len(pages[p])].ts >= Renotify
<1>1. pages[p] \in Seq(PageSent) /\ state[p] \in StateRow /\ Renotify \in Nat
  BY ConstantsAssumption DEF Steady, TypeOK
<1> DEFINE k == Len(pages[p])
<1>2. k \in 1 .. Len(pages[p])
  BY <1>1 DEF Standing
<1>3. pages[p][k] \in PageSent /\ pages[p][k].ts > 0
  BY <1>1, <1>2 DEF Dated
<1> DEFINE ts == pages[p][k].ts
           notified == state[p].notified
<1>4. ts \in Nat /\ ts > 0 /\ notified \in Nat
  BY <1>1, <1>3 DEF PageSent, StateRow
<1>5. state[p].firing /\ notified >= ts
  BY DEF Guards
<1>6. notified = 0 \/ now - notified >= Renotify
  BY <1>5 DEF Due
<1> HIDE DEF k, ts, notified
<1>7. now - ts >= Renotify
  BY <1>1, <1>4, <1>5, <1>6
<1> QED BY <1>7 DEF ts, k

LEMMA ReadPaid ==
  ASSUME Steady, Crowd, Dated, NEW p \in Pairs, Paid(p), NEW e \in Evaluators, ReadStates(e)
  PROVE  Paid(p)'
<1>0. TypeOK /\ AllSound /\ ev[e] \in Evaluation /\ Sound(ev[e]) /\ ev[e].pc = "states"
  BY DEF Steady, AllSound, TypeOK, ReadStates
<1>1. UNCHANGED <<pages, state, faults, overlaps>>
  BY Keeping
<1>2. ev[e].rule \in Rules /\ ev[e].over \subseteq ev[e].scope
  BY <1>0 DEF Sound, SoundJobs
<1> DEFINE st == StateOf(ev[e].rule)
           n == p[2]
<1>3. /\ \A x \in Evaluators \ {e} : ev'[x] = ev[x]
      /\ ev'[e].pc = "notify" /\ ev'[e].now = ev[e].now /\ ev'[e].jobs = ev[e].jobs
      /\ ev'[e].rule = ev[e].rule
      /\ ev'[e].rows = RowsOf(ev[e], st) /\ ev'[e].send = SendsOf(ev[e], st)
      /\ st \in [Nodes -> StateRow]
      /\ ev' \in [Evaluators -> Evaluation]
  BY <1>0, <1>2, ReadDoes
<1>4. n \in Nodes /\ p[1] \in Rules /\ p = <<p[1], n>>
  BY DEF Pairs
<1>5. ~Holds(ev[e], p) /\ ~Sends(ev[e], p)
  BY <1>0 DEF Holds, Sends
<1>6. Listed(ev'[e], p) <=> Listed(ev[e], p)
  BY <1>3 DEF Listed
<1>7. CASE ev[e].rule # p[1]
  <2>1. ~Holds(ev'[e], p) /\ ~Sends(ev'[e], p)
    BY <1>3, <1>7 DEF Holds, Sends
  <2>2. Faces(ev'[e], p) => Listed(ev'[e], p)
    BY <1>3, <2>1 DEF Faces
  <2>3. Faces(ev'[e], p) => Faces(ev[e], p)
    BY <1>6, <2>2 DEF Faces
  <2> QED BY <1>1, <1>3, <1>5, <2>1, <2>3, QuietPaid
<1>8. CASE ev[e].rule = p[1]
  <2>1. ~Listed(ev[e], p) /\ ~Listed(ev'[e], p)
    BY <1>0, <1>6, <1>8, Apart
  <2>2. Faces(ev'[e], p) <=> Sends(ev'[e], p)
    BY <1>3, <2>1 DEF Faces
  <2>3. st[n] = state[p] /\ st[n] \in StateRow
    BY <1>3, <1>4, <1>8 DEF StateOf
  <2>4. Decided(ev[e], st, n)
    BY <1>0, <1>2, <1>3, <1>4, RowsDo
  <2>5. Sends(ev'[e], p) <=> n \in ev[e].over /\ Due(state[p], ev[e].now)
    BY <1>3, <1>8, <2>3, <2>4 DEF Decided, Sends
  <2>6. Holds(ev'[e], p) <=>
          \/ n \in ev[e].over /\ ~Due(state[p], ev[e].now)
          \/ n \in ev[e].scope \ ev[e].over /\ state[p].firing
    BY <1>3, <1>8, <2>3, <2>4 DEF Decided, Holds
  <2>7. Faces(ev[e], p) <=> n \in ev[e].scope
    BY <1>0, <1>8, <2>1, <1>5 DEF Faces
  <2>8. CASE n \in ev[e].over /\ Due(state[p], ev[e].now)
    <3>1. Faces(ev[e], p) /\ Faces(ev'[e], p) /\ ~Holds(ev'[e], p)
      BY <1>2, <2>2, <2>5, <2>6, <2>7, <2>8
    <3>2. ev[e].now \in Nat
      BY <1>0 DEF Evaluation
    <3>3. Guards(state[p], pages[p]) => Timely(ev'[e], pages[p])
      BY <1>3, <2>8, <3>2, DueTimely DEF Timely
    <3> QED BY <1>1, <1>3, <1>5, <3>1, <3>3, DuePaid
  <2>9. CASE n \in ev[e].over /\ ~Due(state[p], ev[e].now)
    <3>1. Turns(ev[e], ev'[e], p)
      BY <1>2, <1>5, <2>2, <2>5, <2>6, <2>7, <2>9 DEF Turns
    <3>2. n \in NodesIn(ev'[e].rows) /\ ev'[e] \in Evaluation
      BY <1>3, <2>6, <2>9 DEF Holds
    <3>3. RowFor(ev'[e], p) \in ev'[e].rows /\ RowFor(ev'[e], p).node = n
      BY <3>2, RowChosen
    <3>4. RowFor(ev'[e], p).firing /\ RowFor(ev'[e], p).notified = state[p].notified
      BY <1>3, <2>3, <2>4, <2>9, <3>3 DEF Decided
    <3>5. Guards(state[p], pages[p]) => Keeps(ev'[e], p, pages[p])
      BY <3>4 DEF Guards, Keeps
    <3> QED BY <1>1, <1>3, <3>1, <3>5, HoldPaid
  <2>10. CASE n \in ev[e].scope \ ev[e].over /\ state[p].firing
    <3>1. Turns(ev[e], ev'[e], p)
      BY <1>5, <2>2, <2>5, <2>6, <2>7, <2>10 DEF Turns
    <3>2. <<n, "recovery">> \in ev'[e].send
      BY <1>3, <2>3, <2>4, <2>10 DEF Decided
    <3>3. Keeps(ev'[e], p, pages[p])
      BY <3>2 DEF Keeps
    <3> QED BY <1>1, <1>3, <3>1, <3>3, HoldPaid
  <2>11. CASE n \notin ev[e].over /\ ~(n \in ev[e].scope /\ state[p].firing)
    <3>1. ~Holds(ev'[e], p) /\ ~Sends(ev'[e], p) /\ ~Faces(ev'[e], p)
      BY <2>2, <2>5, <2>6, <2>11
    <3> QED BY <1>1, <1>3, <1>5, <3>1, QuietPaid
  <2> QED BY <2>8, <2>9, <2>10, <2>11
<1> QED BY <1>7, <1>8

LEMMA NotifyPaid ==
  ASSUME Steady, Crowd, NEW p \in Pairs, Paid(p), NEW e \in Evaluators, Notify(e)
  PROVE  Paid(p)'
<1>0. TypeOK /\ AllSound /\ ev[e] \in Evaluation /\ Sound(ev[e]) /\ ev[e].pc = "notify"
  BY DEF Steady, AllSound, TypeOK, Notify
<1>1. UNCHANGED <<state, faults, overlaps>>
  BY DEF Notify, tables
<1>2. ev[e].rule \in Rules /\ ev[e].now \in Nat /\ SoundSends(ev[e])
  BY <1>0 DEF Sound, SoundJobs, Evaluation
<1>3. /\ \A x \in Evaluators \ {e} : ev'[x] = ev[x]
      /\ ev'[e].pc = "notify" /\ ev'[e].now = ev[e].now /\ ev'[e].jobs = ev[e].jobs
      /\ ev'[e].rule = ev[e].rule /\ ev'[e].rows = ev[e].rows
      /\ ev' \in [Evaluators -> Evaluation]
  BY <1>0, <1>2, NotifyDoes
<1>4. PICK n \in Nodes, level \in Levels :
        /\ <<n, level>> \in ev[e].send /\ ev'[e].send = ev[e].send \ {<<n, level>>}
        /\ pages'[<<ev[e].rule, n>>] =
             Append(pages[<<ev[e].rule, n>>], [level |-> level, ts |-> ev[e].now])
        /\ \A x \in Pairs \ {<<ev[e].rule, n>>} : pages'[x] = pages[x]
  BY <1>0, <1>2, NotifyDoes
<1>5. p = <<p[1], p[2]>> /\ p[2] \in Nodes
  BY DEF Pairs
<1>6. Listed(ev'[e], p) <=> Listed(ev[e], p)
  BY <1>3 DEF Listed
<1>7. CASE p # <<ev[e].rule, n>>
  <2>1. pages'[p] = pages[p]
    BY <1>4, <1>7
  <2>2. ev[e].rule = p[1] => p[2] # n
    BY <1>5, <1>7
  <2>3. \A l \in {"alert", "recovery"} : ev[e].rule = p[1] =>
          (<<p[2], l>> \in ev'[e].send <=> <<p[2], l>> \in ev[e].send)
    BY <1>4, <2>2
  <2>4. Sends(ev'[e], p) <=> Sends(ev[e], p)
    BY <1>0, <1>3, <2>3 DEF Sends
  <2>5. /\ Faces(ev'[e], p) <=> Faces(ev[e], p)
        /\ Holds(ev'[e], p) <=> Holds(ev[e], p)
    BY <1>0, <1>3, <1>6, <2>3, <2>4 DEF Faces, Holds
  <2>6. Holds(ev[e], p) => (Keeps(ev'[e], p, pages[p]) <=> Keeps(ev[e], p, pages[p]))
    <3>1. RowFor(ev'[e], p) = RowFor(ev[e], p)
      BY <1>3 DEF RowFor
    <3>2. Holds(ev[e], p) => ev[e].rule = p[1]
      BY DEF Holds
    <3> QED BY <2>3, <3>1, <3>2 DEF Keeps
  <2>7. Timely(ev'[e], pages[p]) <=> Timely(ev[e], pages[p])
    BY <1>3 DEF Timely
  <2>8. Same(ev[e], ev'[e], p, pages[p])
    BY <2>4, <2>5, <2>6, <2>7 DEF Same
  <2>9. \A x \in Evaluators : Same(ev[x], ev'[x], p, pages[p])
    BY <1>3, <2>8, SameIfEqual
  <2> QED BY <1>1, <2>1, <2>9, UnmovedPaid
<1>8. CASE p = <<ev[e].rule, n>>
  <2>1. p[1] = ev[e].rule /\ p[2] = n /\ state'[p] = state[p]
    BY <1>1, <1>8
  <2>2. ~Listed(ev[e], p) /\ ~Listed(ev'[e], p)
    BY <1>0, <1>6, <2>1, Apart
  <2>3. /\ Faces(ev[e], p) <=> Sends(ev[e], p)
        /\ Faces(ev'[e], p) <=> Sends(ev'[e], p)
    BY <1>0, <1>3, <2>2 DEF Faces
  <2>4. n \in NodesIn(ev[e].rows)
    BY <1>2, <1>4 DEF SoundSends, Levels
  <2>5. CASE level = "alert"
    <3>1. Sends(ev[e], p) /\ ~Sends(ev'[e], p)
      BY <1>0, <1>4, <2>1, <2>5 DEF Sends
    <3>2. ~Holds(ev[e], p) /\ Holds(ev'[e], p)
      BY <1>3, <1>4, <2>1, <2>4, <2>5 DEF Holds
    <3>3. Turns(ev[e], ev'[e], p)
      BY <2>3, <3>1, <3>2 DEF Turns
    <3>4. RowFor(ev'[e], p) \in ev'[e].rows /\ RowFor(ev'[e], p).node = n
      BY <1>3, <2>1, <2>4, RowChosen
    <3>5. RowFor(ev'[e], p).firing /\ RowFor(ev'[e], p).notified = ev[e].now
      BY <1>2, <1>3, <1>4, <2>5, <3>4 DEF SoundSends
    <3>6. pages'[p] = Append(pages[p], [level |-> "alert", ts |-> ev[e].now])
      BY <1>4, <1>8, <2>5
    <3>7. pages[p] \in Seq(PageSent) /\ [level |-> "alert", ts |-> ev[e].now] \in PageSent
      BY <1>0, <1>2 DEF TypeOK, PageSent, Levels
    <3>8. pages'[p][Len(pages'[p])] = [level |-> "alert", ts |-> ev[e].now]
      BY <3>6, <3>7
    <3>9. Guards(RowFor(ev'[e], p), pages'[p])
      BY <1>2, <3>5, <3>8 DEF Guards
    <3> QED BY <1>1, <1>3, <2>1, <3>1, <3>3, <3>6, <3>9, AlertPaid
  <2>6. CASE level = "recovery"
    <3>1. <<n, "alert">> \notin ev[e].send
      BY <1>2, <1>4, <2>6 DEF SoundSends
    <3>2. <<n, "alert">> \notin ev'[e].send
      BY <1>4, <3>1
    <3>3. /\ ~Sends(ev[e], p) /\ ~Sends(ev'[e], p)
          /\ Holds(ev[e], p) /\ Holds(ev'[e], p)
      BY <1>0, <1>3, <2>1, <2>4, <3>1, <3>2 DEF Sends, Holds
    <3>4. Stays(ev[e], ev'[e], p)
      BY <2>3, <3>3 DEF Stays
    <3>5. pages'[p] = Append(pages[p], [level |-> "recovery", ts |-> ev[e].now])
      BY <1>4, <1>8, <2>6
    <3> QED BY <1>1, <1>2, <1>3, <2>1, <3>4, <3>5, RecoveryPaid
  <2> QED BY <2>5, <2>6 DEF Levels
<1> QED BY <1>7, <1>8

LEMMA OutsidePaid ==
  ASSUME Steady, Crowd, NEW p \in Pairs, Paid(p), Outside
  PROVE  Paid(p)'
<1>1. /\ ev' = ev /\ overlaps' = overlaps
      /\ faults' = faults \/ faults' = faults + 1
      /\ \/ state'[p] = state[p] /\ pages'[p] = pages[p]
         \/ pages'[p] = <<>> /\ faults' = faults
  BY OutsideDoes DEF Steady
<1>2. CASE state'[p] = state[p] /\ pages'[p] = pages[p]
  <2>1. \A x \in Evaluators : Same(ev[x], ev'[x], p, pages[p])
    BY <1>1, SameIfEqual
  <2> QED BY <1>1, <1>2, <2>1, UnmovedPaid
<1>3. CASE pages'[p] = <<>> /\ faults' = faults
  BY <1>1, <1>3, ForgetPaid
<1> QED BY <1>1, <1>2, <1>3

LEMMA DatedStep == Steady /\ Dated /\ [Next]_vars => Dated'
<1> SUFFICES ASSUME Steady, Dated, [Next]_vars, NEW p \in Pairs
             PROVE  \A i \in DOMAIN pages'[p] : pages'[p][i].ts > 0
  BY DEF Dated
<1>0. TypeOK /\ AllSound /\ pages[p] \in Seq(PageSent)
  BY DEF Steady, TypeOK
<1>1. CASE pages'[p] = pages[p] \/ pages'[p] = <<>>
  BY <1>1 DEF Dated
<1>2. CASE Outside
  BY <1>0, <1>1, <1>2, OutsideDoes
<1>3. ASSUME NEW e \in Evaluators, Evaluates(e)
      PROVE  \A i \in DOMAIN pages'[p] : pages'[p][i].ts > 0
  <2>1. CASE Notify(e)
    <3>1. ev[e] \in Evaluation /\ Sound(ev[e]) /\ ev[e].pc = "notify"
      BY <1>0, <2>1 DEF TypeOK, AllSound, Notify
    <3>2. ev[e].rule \in Rules /\ ev[e].now \in Nat /\ ev[e].now >= Renotify
      BY <3>1 DEF Sound, SoundJobs, Evaluation
    <3>3. PICK n \in Nodes, level \in Levels :
            /\ pages'[<<ev[e].rule, n>>] =
                 Append(pages[<<ev[e].rule, n>>], [level |-> level, ts |-> ev[e].now])
            /\ \A x \in Pairs \ {<<ev[e].rule, n>>} : pages'[x] = pages[x]
      BY <1>0, <2>1, <3>2, NotifyDoes
    <3>4. CASE p = <<ev[e].rule, n>>
      <4> DEFINE page == [level |-> level, ts |-> ev[e].now]
      <4>1. page \in PageSent /\ page.ts > 0
        BY <3>2, ConstantsAssumption DEF PageSent
      <4>2. pages'[p] = Append(pages[p], page)
        BY <3>3, <3>4
      <4> HIDE DEF page
      <4>3. \A i \in DOMAIN pages'[p] : IF i = Len(pages[p]) + 1 THEN pages'[p][i] = page
                 ELSE i \in DOMAIN pages[p] /\ pages'[p][i] = pages[p][i]
        BY <1>0, <4>1, <4>2
      <4> QED BY <4>1, <4>3 DEF Dated
    <3>5. CASE p # <<ev[e].rule, n>>
      BY <1>1, <3>3, <3>5
    <3> QED BY <3>4, <3>5
  <2>2. CASE pages' = pages
    BY <1>1, <2>2
  <2> QED BY <1>3, <2>1, <2>2, EvaluatesKeeps
<1> QED BY <1>2, <1>3, Steps DEF Evaluates

LEMMA PaidStep == LoadInv /\ [Next]_vars => \A p \in Pairs : Paid(p)'
<1> SUFFICES ASSUME LoadInv, [Next]_vars, NEW p \in Pairs PROVE Paid(p)'
  OBVIOUS
<1>0. Steady /\ Crowd /\ Dated /\ Paid(p)
  BY DEF LoadInv, Steady
<1>1. CASE Outside
  BY <1>0, <1>1, OutsidePaid
<1>2. ASSUME NEW e \in Evaluators, Evaluates(e) PROVE Paid(p)'
  <2>1. CASE Start(e)
    BY <1>0, <2>1, StartPaid
  <2>2. CASE ListRules(e) \/ Aggregate(e)
    BY <1>0, <2>2, ListPaid, AggregatePaid
  <2>3. CASE AggregateThrows(e) \/ RuleFails(e) \/ Fail(e)
    BY <1>0, <2>3, GiveUpPaid
  <2>4. CASE ReadStates(e)
    BY <1>0, <2>4, ReadPaid
  <2>5. CASE Notify(e)
    BY <1>0, <2>5, NotifyPaid
  <2>6. CASE Save(e)
    BY <1>0, <2>6, WritePaid
  <2> QED BY <1>2, <2>1, <2>2, <2>3, <2>4, <2>5, <2>6 DEF Evaluates, Proceed
<1> QED BY <1>1, <1>2, Steps DEF Evaluates

LEMMA LoadStep == LoadInv /\ [Next]_vars => LoadInv'
<1> SUFFICES ASSUME LoadInv, [Next]_vars PROVE LoadInv'
  OBVIOUS
<1>0. Steady /\ TypeOK /\ clock >= Renotify /\ AllSound /\ Crowd /\ Dated
  BY DEF LoadInv, Steady
<1>1. Steady' /\ Crowd' /\ Dated'
  BY <1>0, SteadyStep, CrowdStep, DatedStep
<1>2. \A p \in Pairs : Paid(p)'
  BY PaidStep
<1> QED BY <1>1, <1>2 DEF LoadInv, Steady

LEMMA LoadInit == Init => LoadInv
<1> SUFFICES ASSUME Init PROVE LoadInv
  OBVIOUS
<1>1. Steady /\ \A e \in Evaluators : ev[e].pc = "idle" /\ Sound(ev[e])
  BY SteadyInit
<1>2. Active = {} /\ faults = 0 /\ overlaps = 0
  BY <1>1 DEF Active, Init
<1>3. Crowd
  BY <1>2, FS_EmptySet DEF Crowd
<1>4. Dated
  BY DEF Init, Dated
<1>5. ASSUME NEW p \in Pairs PROVE Paid(p)
  <2>1. pages[p] = <<>>
    BY DEF Init
  <2>2. Premature(p) = {}
    BY <2>1 DEF Premature
  <2>3. Facing(p) = {} /\ Holding(p) = {}
    BY <1>1, Apart DEF Facing, Holding, Steady, TypeOK
  <2>4. Cardinality({}) = 0
    BY FS_EmptySet
  <2>5. Bit(Astray(p)) = 0
    BY <2>1 DEF Bit, Astray, Guards, Standing
  <2>6. Credit(p) \in 0 .. 2
    BY CreditRange
  <2>7. Owed(p) = 0 - Credit(p)
    BY <2>2, <2>3, <2>4, <2>5, <2>6 DEF Owed
  <2>8. Budget(faults, overlaps) = 0
    BY <1>2 DEF Budget
  <2> QED BY <2>6, <2>7, <2>8 DEF Paid
<1> QED BY <1>1, <1>3, <1>4, <1>5 DEF LoadInv, Steady

\* Whatever is free belongs to an evaluation in progress, which has paid it.
LEMMA PaidImplies == LoadInv => RemindersSpaced
<1> SUFFICES ASSUME LoadInv, NEW p \in Pairs
             PROVE  Cardinality(Premature(p)) <= faults + 2 * overlaps
  BY DEF RemindersSpaced
<1>0. Steady /\ Crowd /\ Paid(p)
  BY DEF LoadInv, Steady
<1>1. /\ Cardinality(Premature(p)) \in Nat /\ Cardinality(Facing(p)) \in Nat
      /\ IsFiniteSet(Facing(p)) /\ IsFiniteSet(Holding(p))
      /\ Cardinality(Holding(p)) \in Nat /\ faults \in Nat /\ overlaps \in Nat
  BY <1>0, Amounts
<1>2. Credit(p) \in 0 .. 2 /\ Bit(Astray(p)) \in 0 .. 1
  BY CreditRange, Bits
<1>3. Facing(p) # {} => Cardinality(Facing(p)) >= 1
  <2>1. Facing(p) # {} => Cardinality(Facing(p)) # 0
    BY <1>1, FS_EmptySet
  <2> QED BY <1>1, <2>1
<1>4. Holding(p) # {} => Cardinality(Holding(p)) >= 1
  <2>1. Holding(p) # {} => Cardinality(Holding(p)) # 0
    BY <1>1, FS_EmptySet
  <2> QED BY <1>1, <2>1
<1>5. CASE Clear(p)
  <2>1. Credit(p) = 2
    BY <1>5 DEF Credit
  <2>2. Facing(p) # {}
    BY <1>5 DEF Clear
  <2> HIDE DEF Credit, Facing
  <2>3. Owed(p) >= Cardinality(Premature(p))
    BY <1>1, <1>2, <1>3, <2>1, <2>2 DEF Owed
  <2>4. Owed(p) \in Int
    BY <1>1, <1>2 DEF Owed
  <2> QED BY <1>0, <1>1, <2>3, <2>4 DEF Paid, Budget
<1>6. CASE ~Clear(p)
  <2>1. Credit(p) \in 0 .. 1
    BY <1>6, Bits DEF Credit
  <2>2. Credit(p) = 1 => Holding(p) # {}
    BY <1>6 DEF Credit, Bit, Kept, Holding
  <2>3. Credit(p) <= Cardinality(Holding(p))
    BY <1>1, <1>4, <2>1, <2>2
  <2>4. Owed(p) >= Cardinality(Premature(p))
    BY <1>1, <1>2, <2>1, <2>3 DEF Owed
  <2>5. Owed(p) \in Int
    BY <1>1, <1>2 DEF Owed
  <2> QED BY <1>0, <1>1, <2>4, <2>5 DEF Paid, Budget
<1> QED BY <1>5, <1>6

\* Across every overlap, failure and edit, the reminders of a pair that come
\* too soon are never more than the failures and twice the overlaps.
THEOREM RemindersPaidFor == Spec => []RemindersSpaced
<1> QED BY LoadInit, LoadStep, PaidImplies, PTL DEF Spec

-----------------------------------------------------------------------------
(* The pager's view *)

\* The rows of an evaluation agree about a node.
Agreed == \A e \in Evaluators : \A u, v \in ev[e].rows : u.node = v.node => u.firing = v.firing

LEMMA AgreedStep == Steady /\ Agreed /\ [Next]_vars => Agreed'
<1> SUFFICES ASSUME Steady, Agreed, [Next]_vars PROVE Agreed'
  OBVIOUS
<1>0. TypeOK /\ clock >= Renotify /\ AllSound
  BY DEF Steady
<1>1. CASE Outside
  BY <1>0, <1>1, OutsideDoes DEF Agreed
<1>2. ASSUME NEW e \in Evaluators, Evaluates(e) PROVE Agreed'
  <2>0. Sound(ev[e]) /\ ev[e] \in Evaluation /\ Sound(ev'[e])
    BY <1>0, <1>2, EvaluationSound DEF AllSound, TypeOK, Evaluates
  <2>1. \A x \in Evaluators \ {e} : ev'[x] = ev[x]
    BY <1>0, <1>2, EvaluationSound DEF AllSound, Evaluates
  <2>2. CASE ReadStates(e)
    <3>1. ev[e].rule \in Rules /\ ev[e].over \subseteq ev[e].scope
      BY <2>0, <2>2 DEF Sound, SoundJobs, ReadStates
    <3> DEFINE st == StateOf(ev[e].rule)
    <3>2. st \in [Nodes -> StateRow] /\ ev'[e].rows = RowsOf(ev[e], st)
      BY <1>0, <2>2, <3>1, ReadDoes
    <3> HIDE DEF st
    <3>3. RowsOf(ev[e], st) \in SUBSET Row
      BY <2>0, <3>2, RowsType
    <3>4. ASSUME NEW u \in ev'[e].rows, NEW v \in ev'[e].rows, u.node = v.node
          PROVE  u.firing = v.firing
      <4>1. u.node \in Nodes /\ u \in RowsOf(ev[e], st) /\ v \in RowsOf(ev[e], st)
        BY <3>2, <3>3, <3>4 DEF Row
      <4>2. Decided(ev[e], st, u.node)
        BY <2>0, <3>1, <3>2, <4>1, RowsDo
      <4>3. u.firing \in BOOLEAN /\ v.firing \in BOOLEAN /\ (u.firing <=> v.firing)
        BY <3>4, <4>1, <4>2 DEF Decided
      <4> QED BY <4>3
    <3> QED BY <2>1, <3>4 DEF Agreed
  <2>3. CASE Notify(e)
    <3>1. ev[e].rule \in Rules
      BY <2>0, <2>3 DEF Sound, SoundJobs, Notify
    <3>2. ev'[e].rows = ev[e].rows
      BY <1>0, <2>3, <3>1, NotifyDoes
    <3> QED BY <2>1, <3>2 DEF Agreed
  <2>4. CASE ~ReadStates(e) /\ ~Notify(e)
    <3>1. ev'[e].rows = {}
      <4>1. CASE Start(e) \/ ListRules(e)
        BY <1>0, <4>1, StartDoes, ListDoes
      <4>2. CASE Aggregate(e)
        <5>1. ev'[e].rows = ev[e].rows /\ ev[e].pc = "rule"
          BY <1>0, <4>2, AggregateDoes
        <5> QED BY <2>0, <5>1 DEF Sound
      <4>3. CASE AggregateThrows(e) \/ Save(e) \/ RuleFails(e)
        <5>1. Leaves(e)
          BY <4>3 DEF Leaves
        <5>2. ev'[e].pc \in {"idle", "rule"}
          BY <1>0, <5>1, LeavesDo
        <5> QED BY <2>0, <5>2 DEF Sound
      <4>4. CASE Fail(e)
        BY <1>0, <4>4, FailDoes, IdleType
      <4> QED BY <1>2, <2>4, <4>1, <4>2, <4>3, <4>4 DEF Evaluates, Proceed
    <3> QED BY <2>1, <3>1 DEF Agreed
  <2> QED BY <2>2, <2>3, <2>4
<1> QED BY <1>1, <1>2, Steps DEF Evaluates

PagerInv == Steady /\ Crowd /\ Agreed

\* What an evaluation that has decided about a pair makes the pager see, when
\* the pair's row says firing.
Concerns(q, p) == q.rule = p[1] /\ p[2] \in NodesIn(q.rows)

Says(q, p, firing) ==
  \/ <<p[2], "recovery">> \in q.send
  \/ <<p[2], "alert">> \in q.send /\ firing
  \/ <<p[2], "alert">> \notin q.send /\ \E u \in q.rows : u.node = p[2] /\ u.firing

Paging(p) == {e \in Evaluators : Concerns(ev[e], p)}

\* Alerted and LevelsSent of one pair.
AlertedAt(p) ==
  /\ Undisturbed
  /\ IF Paging(p) = {} THEN state[p].firing
     ELSE \E e \in Paging(p) : Says(ev[e], p, state[p].firing)

LevelsOf(s) == [i \in DOMAIN s |-> s[i].level]

PagesAt(p) == IF Undisturbed THEN LevelsOf(pages[p]) ELSE <<>>

PairByPair ==
  /\ Alerted = [p \in Pairs |-> AlertedAt(p)]
  /\ [p \in Pairs |-> LevelsSent(p)] = [p \in Pairs |-> PagesAt(p)]

LEMMA AlertedBoolean == ASSUME TypeOK, NEW p \in Pairs PROVE AlertedAt(p) \in BOOLEAN
  BY DEF AlertedAt, TypeOK, StateRow

LEMMA Views == TypeOK => PairByPair
<1> SUFFICES ASSUME TypeOK PROVE PairByPair
  OBVIOUS
<1>1. ASSUME NEW p \in Pairs PROVE Alerted[p] <=> AlertedAt(p)
  <2>1. Paging(p) = {e \in Evaluators : ev[e].rule = p[1] /\ p[2] \in NodesIn(ev[e].rows)}
    BY DEF Paging, Concerns
  <2>2. \A e \in Paging(p) : Says(ev[e], p, state[p].firing) <=>
          \/ Sending(e, p, "recovery")
          \/ Sending(e, p, "alert") /\ state[p].firing
          \/ ~Sending(e, p, "alert") /\ \E u \in ev[e].rows : u.node = p[2] /\ u.firing
    BY DEF Says, Sending, Paging, Concerns
  <2> QED BY <2>1, <2>2 DEF Alerted, AlertedAt
<1>2. ASSUME NEW p \in Pairs PROVE Alerted[p] \in BOOLEAN
  BY DEF Alerted, TypeOK, StateRow
<1>3. ASSUME NEW p \in Pairs PROVE Alerted[p] = AlertedAt(p)
  BY <1>1, <1>2, AlertedBoolean
<1>4. Alerted = [p \in Pairs |-> Alerted[p]]
  BY DEF Alerted
<1>5. \A p \in Pairs : LevelsSent(p) = PagesAt(p)
  BY DEF LevelsSent, PagesAt, LevelsOf
<1> QED BY <1>3, <1>4, <1>5 DEF PairByPair

\* Without an overlap there is one evaluation at a time.
LEMMA Alone ==
  ASSUME Steady, Crowd, Undisturbed, NEW e \in Evaluators, ev[e].pc # "idle", NEW f \in Evaluators
  PROVE  f = e \/ (ev[f].pc = "idle" /\ ev[f].rows = {})
<1>1. IsFiniteSet(Active) /\ Cardinality(Active) <= 1 /\ e \in Active
  BY DEF Crowd, Undisturbed, Active
<1>2. Cardinality(Active) \in Nat /\ Cardinality(Active) # 0
  BY <1>1, FS_CardinalityType, FS_EmptySet
<1>3. Cardinality(Active) = 1
  BY <1>1, <1>2
<1>4. PICK x : Active = {x}
  BY <1>1, <1>3, FS_Singleton
<1>5. f = e \/ ev[f].pc = "idle"
  BY <1>1, <1>4 DEF Active
<1>6. Sound(ev[f])
  BY DEF Steady, AllSound
<1> QED BY <1>5, <1>6 DEF Sound

LEMMA LevelAdded ==
  ASSUME NEW s \in Seq(PageSent), NEW level \in Levels, NEW ts \in Nat
  PROVE  LevelsOf(Append(s, [level |-> level, ts |-> ts])) = Append(LevelsOf(s), level)
<1> DEFINE page == [level |-> level, ts |-> ts]
           n == Len(s)
           a == LevelsOf(Append(s, page))
           b == Append(LevelsOf(s), level)
<1>1. page \in PageSent /\ page.level = level
  BY DEF PageSent
<1> HIDE DEF page
<1>2. /\ n \in Nat /\ DOMAIN s = 1 .. n
      /\ \A i \in 1 .. n : s[i] \in PageSent
  OBVIOUS
<1>3. LevelsOf(s) \in Seq(Levels) /\ Len(LevelsOf(s)) = n /\ \A i \in 1 .. n : LevelsOf(s)[i] = s[i].level
  <2>1. LevelsOf(s) \in [1 .. n -> Levels]
    BY <1>2 DEF LevelsOf, PageSent
  <2>2. LevelsOf(s) \in Seq(Levels)
    BY <1>2, <2>1, SeqDef
  <2>3. DOMAIN LevelsOf(s) = 1 .. n
    BY <2>1
  <2>4. Len(LevelsOf(s)) = n
    BY <1>2, <2>2, <2>3, LenProperties
  <2> QED BY <1>2, <2>2, <2>4 DEF LevelsOf
<1>4. /\ DOMAIN Append(s, page) = 1 .. (n + 1)
      /\ Append(s, page)[n + 1] = page
      /\ \A i \in 1 .. n : Append(s, page)[i] = s[i]
      /\ Append(s, page) \in Seq(PageSent)
  BY <1>1, <1>2, AppendProperties
<1>5. a = [i \in 1 .. (n + 1) |-> Append(s, page)[i].level]
  BY <1>4 DEF LevelsOf
<1>6. /\ DOMAIN b = 1 .. (n + 1) /\ b \in Seq(Levels)
      /\ b[n + 1] = level
      /\ \A i \in 1 .. n : b[i] = s[i].level
  BY <1>2, <1>3, AppendProperties
<1>7. b = [i \in 1 .. (n + 1) |-> b[i]]
  BY <1>6, LenProperties
<1>8. \A i \in 1 .. (n + 1) : b[i] = Append(s, page)[i].level
  BY <1>1, <1>2, <1>4, <1>6
<1>9. a = b
  BY <1>5, <1>7, <1>8
<1> QED BY <1>9 DEF page

\* A step that moves nothing of a pair is none for the pager.
LEMMA SameView ==
  ASSUME TypeOK, TypeOK', NEW p \in Pairs, Undisturbed, Undisturbed', pages'[p] = pages[p],
         state'[p].firing = state[p].firing,
         \A e \in Evaluators :
           /\ Concerns(ev'[e], p) <=> Concerns(ev[e], p)
           /\ Concerns(ev[e], p) =>
                (Says(ev'[e], p, state[p].firing) <=> Says(ev[e], p, state[p].firing))
  PROVE  AlertedAt(p)' = AlertedAt(p) /\ PagesAt(p)' = PagesAt(p)
<1>1. Paging(p)' = Paging(p)
  BY DEF Paging
<1>2. \A e \in Paging(p) : Says(ev'[e], p, state'[p].firing) <=> Says(ev[e], p, state[p].firing)
  BY DEF Paging
<1>3. AlertedAt(p)' <=> AlertedAt(p)
  BY <1>1, <1>2 DEF AlertedAt
<1>4. AlertedAt(p)' \in BOOLEAN /\ AlertedAt(p) \in BOOLEAN
  <2>1. state[p].firing \in BOOLEAN /\ state'[p].firing \in BOOLEAN
    BY DEF TypeOK, StateRow
  <2> QED BY <2>1 DEF AlertedAt
<1> QED BY <1>3, <1>4 DEF PagesAt

\* A pair without an evaluation that concerns it stands as its row says.
LEMMA ByRow ==
  ASSUME NEW p \in Pairs, Undisturbed, \A e \in Evaluators : ~Concerns(ev[e], p)
  PROVE  AlertedAt(p) <=> state[p].firing
<1>1. Paging(p) = {}
  BY DEF Paging
<1> QED BY <1>1 DEF AlertedAt

LEMMA BySaying ==
  ASSUME NEW p \in Pairs, Undisturbed, NEW e \in Evaluators, Concerns(ev[e], p),
         \A x \in Evaluators \ {e} : ~Concerns(ev[x], p)
  PROVE  AlertedAt(p) <=> Says(ev[e], p, state[p].firing)
<1>1. Paging(p) = {e}
  BY DEF Paging
<1> QED BY <1>1 DEF AlertedAt

LEMMA NoOther ==
  ASSUME Steady, Crowd, Undisturbed, NEW e \in Evaluators, ev[e].pc # "idle", NEW p
  PROVE  \A x \in Evaluators \ {e} : ~Concerns(ev[x], p)
  BY Alone DEF Concerns, NodesIn

LEMMA TypeViews == TypeOK /\ TypeOK' => PairByPair /\ PairByPair'
  BY Views, PTL

\* What the pager makes of it.
LEMMA NothingSeen ==
  ASSUME TypeOK, TypeOK', \A p \in Pairs : AlertedAt(p)' = AlertedAt(p) /\ PagesAt(p)' = PagesAt(p)
  PROVE  UNCHANGED <<Alerted, [p \in Pairs |-> LevelsSent(p)]>>
<1>1. PairByPair /\ PairByPair'
  BY TypeViews
<1> QED BY <1>1 DEF PairByPair

LEMMA ForgottenSeen ==
  ASSUME TypeOK, TypeOK', NEW q \in SUBSET Pairs,
         \A p \in Pairs \ q : AlertedAt(p)' = AlertedAt(p) /\ PagesAt(p)' = PagesAt(p),
         \A p \in q : PagesAt(p)' = <<>>
  PROVE  P!Next
<1>0. PairByPair /\ PairByPair'
  BY TypeViews
<1> DEFINE sent == [p \in Pairs |-> LevelsSent(p)]
<1>1. /\ Alerted' = [p \in Pairs |-> AlertedAt(p)']
      /\ sent' = [p \in Pairs |-> PagesAt(p)']
      /\ Alerted = [p \in Pairs |-> AlertedAt(p)]
      /\ sent = [p \in Pairs |-> PagesAt(p)]
  BY <1>0 DEF PairByPair
<1>2. sent' = [s \in Pairs |-> IF s \in q THEN <<>> ELSE sent[s]]
  BY <1>1
<1>3. \A p \in Pairs : AlertedAt(p)' \in BOOLEAN
  BY DEF AlertedAt, TypeOK, StateRow
<1>4. Alerted' \in [Pairs -> BOOLEAN]
  BY <1>1, <1>3
<1>5. \A s \in Pairs \ q : Alerted'[s] = Alerted[s]
  BY <1>1
<1>6. P!Forget(q)
  BY <1>2, <1>4, <1>5 DEF P!Forget
<1> QED BY <1>6 DEF P!Next

LEMMA PageSeen ==
  ASSUME TypeOK, TypeOK', NEW p \in Pairs,
         \A m \in Pairs \ {p} : AlertedAt(m)' = AlertedAt(m) /\ PagesAt(m)' = PagesAt(m),
         \/ AlertedAt(p)' /\ PagesAt(p)' = Append(PagesAt(p), "alert")
         \/ AlertedAt(p) /\ ~AlertedAt(p)' /\ PagesAt(p)' = Append(PagesAt(p), "recovery")
  PROVE  P!Next
<1>0. PairByPair /\ PairByPair'
  BY TypeViews
<1> DEFINE sent == [m \in Pairs |-> LevelsSent(m)]
<1>1. /\ Alerted' = [m \in Pairs |-> AlertedAt(m)']
      /\ sent' = [m \in Pairs |-> PagesAt(m)']
      /\ Alerted = [m \in Pairs |-> AlertedAt(m)]
      /\ sent = [m \in Pairs |-> PagesAt(m)]
  BY <1>0 DEF PairByPair
<1>2. AlertedAt(p)' \in BOOLEAN /\ AlertedAt(p) \in BOOLEAN
  BY DEF AlertedAt, TypeOK, StateRow
<1>3. ASSUME NEW b \in BOOLEAN, AlertedAt(p)' = b, NEW level, PagesAt(p)' = Append(PagesAt(p), level)
      PROVE  /\ Alerted' = [Alerted EXCEPT ![p] = b]
             /\ sent' = [sent EXCEPT ![p] = Append(sent[p], level)]
  BY <1>1, <1>3
<1>4. CASE AlertedAt(p)' /\ PagesAt(p)' = Append(PagesAt(p), "alert")
  <2>1. AlertedAt(p)' = TRUE
    BY <1>2, <1>4
  <2>2. /\ Alerted' = [Alerted EXCEPT ![p] = TRUE]
        /\ sent' = [sent EXCEPT ![p] = Append(sent[p], "alert")]
    BY <1>3, <1>4, <2>1
  <2>3. CASE ~AlertedAt(p)
    <3>1. ~Alerted[p]
      BY <1>1, <2>3
    <3>2. P!Raise(p)
      BY <2>2, <3>1 DEF P!Raise, P!Page
    <3> QED BY <3>2 DEF P!Next
  <2>4. CASE AlertedAt(p)
    <3>1. Alerted[p]
      BY <1>1, <2>4
    <3>2. Alerted' = Alerted
      <4>1. AlertedAt(p)' = AlertedAt(p)
        BY <1>2, <2>1, <2>4
      <4> QED BY <1>1, <4>1
    <3>3. P!Remind(p)
      BY <2>2, <3>1, <3>2 DEF P!Remind, P!Page
    <3> QED BY <3>3 DEF P!Next
  <2> QED BY <2>3, <2>4
<1>5. CASE AlertedAt(p) /\ ~AlertedAt(p)' /\ PagesAt(p)' = Append(PagesAt(p), "recovery")
  <2>1. AlertedAt(p)' = FALSE
    BY <1>2, <1>5
  <2>2. /\ Alerted' = [Alerted EXCEPT ![p] = FALSE]
        /\ sent' = [sent EXCEPT ![p] = Append(sent[p], "recovery")]
    BY <1>3, <1>5, <2>1
  <2>3. Alerted[p]
    BY <1>1, <1>5
  <2>4. P!Clear(p)
    BY <2>2, <2>3 DEF P!Clear, P!Page
  <2> QED BY <2>4 DEF P!Next
<1> QED BY <1>4, <1>5

\* The decisions: what is to be paged says the opposite of the row or repeats
\* it, and what is not to be paged the same.
LEMMA ReadSeen ==
  ASSUME PagerInv, TypeOK', Undisturbed, NEW e \in Evaluators, ReadStates(e), NEW p \in Pairs
  PROVE  AlertedAt(p)' = AlertedAt(p) /\ PagesAt(p)' = PagesAt(p)
<1>0. /\ Steady /\ TypeOK /\ AllSound /\ Crowd
      /\ ev[e] \in Evaluation /\ Sound(ev[e]) /\ ev[e].pc = "states"
  BY DEF PagerInv, Steady, AllSound, TypeOK, ReadStates
<1>1. UNCHANGED <<pages, state, faults, overlaps>>
  BY Keeping
<1>2. ev[e].rule \in Rules /\ ev[e].over \subseteq ev[e].scope /\ ev[e].rows = {}
  BY <1>0 DEF Sound, SoundJobs
<1> DEFINE st == StateOf(ev[e].rule)
           n == p[2]
<1>3. /\ \A x \in Evaluators \ {e} : ev'[x] = ev[x]
      /\ ev'[e].rule = ev[e].rule
      /\ ev'[e].rows = RowsOf(ev[e], st) /\ ev'[e].send = SendsOf(ev[e], st)
      /\ st \in [Nodes -> StateRow]
  BY <1>0, <1>2, ReadDoes
<1>4. n \in Nodes /\ p[1] \in Rules /\ p = <<p[1], n>>
  BY DEF Pairs
<1>5. Undisturbed'
  BY <1>1 DEF Undisturbed
<1>6. ~Concerns(ev[e], p)
  BY <1>2 DEF Concerns, NodesIn
<1>7. CASE ~Concerns(ev'[e], p)
  <2>1. \A x \in Evaluators : Concerns(ev'[x], p) <=> Concerns(ev[x], p)
    BY <1>3, <1>6, <1>7
  <2>2. \A x \in Evaluators : Concerns(ev[x], p) => ev'[x] = ev[x]
    BY <1>3, <1>6
  <2> QED BY <1>0, <1>1, <1>5, <2>1, <2>2, SameView
<1>8. CASE Concerns(ev'[e], p)
  <2>1. ev[e].rule = p[1] /\ n \in NodesIn(RowsOf(ev[e], st))
    BY <1>3, <1>8 DEF Concerns
  <2>2. st[n] = state[p] /\ st[n] \in StateRow /\ Decided(ev[e], st, n)
    BY <1>0, <1>2, <1>3, <1>4, <2>1, RowsDo DEF StateOf
  <2>3. \A x \in Evaluators \ {e} : ~Concerns(ev[x], p)
    BY <1>0, NoOther
  <2>4. AlertedAt(p) <=> state[p].firing
    BY <1>6, <2>3, ByRow
  <2>5. AlertedAt(p)' <=> Says(ev'[e], p, state[p].firing)
    <3>1. (AlertedAt(p) <=> Says(ev[e], p, state[p].firing))' 
      <4>1. \A x \in Evaluators \ {e} : ~Concerns(ev'[x], p)
        BY <1>3, <2>3
      <4>2. Paging(p)' = {e}
        BY <1>8, <4>1 DEF Paging
      <4> QED BY <1>5, <4>2 DEF AlertedAt
    <3> QED BY <1>1, <3>1
  <2>6. Says(ev'[e], p, state[p].firing) <=> state[p].firing
    <3>1. CASE n \in ev[e].over /\ Due(state[p], ev[e].now)
      <4>1. <<n, "alert">> \in ev'[e].send /\ <<n, "recovery">> \notin ev'[e].send
        BY <1>3, <2>2, <3>1 DEF Decided
      <4> QED BY <4>1 DEF Says
    <3>2. CASE n \in ev[e].over /\ ~Due(state[p], ev[e].now)
      <4>1. <<n, "alert">> \notin ev'[e].send /\ state[p].firing
        BY <1>3, <2>2, <3>2 DEF Decided, Due
      <4>2. PICK u \in ev'[e].rows : u.node = n
        BY <1>3, <2>1 DEF NodesIn
      <4>3. u.firing
        BY <1>3, <2>2, <3>2, <4>2 DEF Decided
      <4> QED BY <4>1, <4>2, <4>3 DEF Says
    <3>3. CASE n \in ev[e].scope \ ev[e].over /\ state[p].firing
      <4>1. <<n, "recovery">> \in ev'[e].send
        BY <1>3, <2>2, <3>3 DEF Decided
      <4> QED BY <3>3, <4>1 DEF Says
    <3> QED BY <2>1, <2>2, <3>1, <3>2, <3>3 DEF Decided
  <2>7. AlertedAt(p)' \in BOOLEAN /\ AlertedAt(p) \in BOOLEAN
    BY <1>0 DEF AlertedAt, TypeOK, StateRow
  <2> QED BY <1>1, <1>5, <2>4, <2>5, <2>6, <2>7 DEF PagesAt
<1> QED BY <1>7, <1>8

\* The row follows the page.
LEMMA SaveSeen ==
  ASSUME PagerInv, TypeOK', Undisturbed, NEW e \in Evaluators, Save(e), NEW p \in Pairs
  PROVE  AlertedAt(p)' = AlertedAt(p) /\ PagesAt(p)' = PagesAt(p)
<1>0. /\ Steady /\ TypeOK /\ AllSound /\ Crowd /\ Agreed
      /\ ev[e] \in Evaluation /\ Sound(ev[e]) /\ ev[e].pc = "notify" /\ ev[e].send = {}
  BY DEF PagerInv, Steady, AllSound, TypeOK, Save
<1>1. UNCHANGED <<pages, faults, overlaps>> /\ Leaves(e)
  BY DEF Save, Leaves
<1>2. /\ \A x \in Evaluators \ {e} : ev'[x] = ev[x]
      /\ ev'[e].rows = {}
  BY <1>0, <1>1, LeavesDo
<1>3. state'[p] = IF p[1] = ev[e].rule /\ p[2] \in NodesIn(ev[e].rows)
                  THEN Stored(RowFor(ev[e], p)) ELSE state[p]
  BY <1>0, SaveDoes
<1>4. Undisturbed'
  BY <1>1 DEF Undisturbed
<1>5. ~Concerns(ev'[e], p)
  BY <1>2 DEF Concerns, NodesIn
<1>6. CASE ~Concerns(ev[e], p)
  <2>1. \A x \in Evaluators : Concerns(ev'[x], p) <=> Concerns(ev[x], p)
    BY <1>2, <1>5, <1>6
  <2>2. \A x \in Evaluators : Concerns(ev[x], p) => ev'[x] = ev[x]
    BY <1>2, <1>6
  <2>3. state'[p] = state[p]
    BY <1>3, <1>6 DEF Concerns
  <2> QED BY <1>0, <1>1, <1>4, <2>1, <2>2, <2>3, SameView
<1>7. CASE Concerns(ev[e], p)
  <2>1. \A x \in Evaluators \ {e} : ~Concerns(ev[x], p)
    BY <1>0, NoOther
  <2>2. AlertedAt(p) <=> Says(ev[e], p, state[p].firing)
    BY <1>7, <2>1, BySaying
  <2>3. AlertedAt(p)' <=> state'[p].firing
    <3>1. \A x \in Evaluators : ~Concerns(ev'[x], p)
      BY <1>2, <1>5, <2>1
    <3>2. Paging(p)' = {}
      BY <3>1 DEF Paging
    <3> QED BY <1>4, <3>2 DEF AlertedAt
  <2>4. RowFor(ev[e], p) \in ev[e].rows /\ RowFor(ev[e], p).node = p[2]
    BY <1>0, <1>7, RowChosen DEF Concerns
  <2>5. \A u \in ev[e].rows : u.node = p[2] => u.firing = RowFor(ev[e], p).firing
    BY <1>0, <2>4 DEF Agreed
  <2>6. Says(ev[e], p, state[p].firing) <=> RowFor(ev[e], p).firing
    BY <1>0, <2>4, <2>5 DEF Says
  <2>7. state'[p].firing = RowFor(ev[e], p).firing
    BY <1>3, <1>7 DEF Concerns, Stored
  <2>8. AlertedAt(p)' \in BOOLEAN /\ AlertedAt(p) \in BOOLEAN
    BY <1>0 DEF AlertedAt, TypeOK, StateRow
  <2> QED BY <1>1, <1>4, <2>2, <2>3, <2>6, <2>7, <2>8 DEF PagesAt
<1> QED BY <1>6, <1>7

\* The page: a raise, a reminder of what stands, or a clear of what does.
LEMMA NotifySeen ==
  ASSUME PagerInv, TypeOK', Undisturbed, NEW e \in Evaluators, Notify(e)
  PROVE  P!Next
<1>0. /\ Steady /\ TypeOK /\ AllSound /\ Crowd /\ Agreed
      /\ ev[e] \in Evaluation /\ Sound(ev[e]) /\ ev[e].pc = "notify"
  BY DEF PagerInv, Steady, AllSound, TypeOK, Notify
<1>1. UNCHANGED <<state, faults, overlaps>> /\ Undisturbed'
  BY DEF Notify, tables, Undisturbed
<1>2. ev[e].rule \in Rules /\ ev[e].now \in Nat /\ SoundSends(ev[e])
  BY <1>0 DEF Sound, SoundJobs, Evaluation
<1>3. /\ \A x \in Evaluators \ {e} : ev'[x] = ev[x]
      /\ ev'[e].rule = ev[e].rule /\ ev'[e].rows = ev[e].rows
  BY <1>0, <1>2, NotifyDoes
<1>4. PICK n \in Nodes, level \in Levels :
        /\ <<n, level>> \in ev[e].send /\ ev'[e].send = ev[e].send \ {<<n, level>>}
        /\ pages'[<<ev[e].rule, n>>] =
             Append(pages[<<ev[e].rule, n>>], [level |-> level, ts |-> ev[e].now])
        /\ \A x \in Pairs \ {<<ev[e].rule, n>>} : pages'[x] = pages[x]
  BY <1>0, <1>2, NotifyDoes
<1>5. PICK p \in Pairs : p = <<ev[e].rule, n>>
  BY <1>2 DEF Pairs
<1>12. p[1] = ev[e].rule /\ p[2] = n
  BY <1>5
<1>6. ASSUME NEW m \in Pairs \ {p} PROVE AlertedAt(m)' = AlertedAt(m) /\ PagesAt(m)' = PagesAt(m)
  <2>1. m = <<m[1], m[2]>>
    BY DEF Pairs
  <2>2. m[1] = ev[e].rule => m[2] # n
    BY <1>5, <1>6, <2>1
  <2>3. \A x \in Evaluators : Concerns(ev'[x], m) <=> Concerns(ev[x], m)
    BY <1>3 DEF Concerns
  <2>4. m[1] = ev[e].rule => \A l \in {"alert", "recovery"} :
          <<m[2], l>> \in ev'[e].send <=> <<m[2], l>> \in ev[e].send
    BY <1>4, <2>2
  <2>5. Concerns(ev[e], m) => (Says(ev'[e], m, state[m].firing) <=> Says(ev[e], m, state[m].firing))
    BY <1>3, <2>4 DEF Concerns, Says
  <2>6. pages'[m] = pages[m] /\ state'[m] = state[m]
    BY <1>1, <1>4, <1>5, <1>6
  <2> QED BY <1>0, <1>1, <1>3, <2>3, <2>5, <2>6, SameView
<1>7. n \in NodesIn(ev[e].rows) /\ Concerns(ev[e], p) /\ Concerns(ev'[e], p)
  BY <1>2, <1>3, <1>4, <1>12 DEF SoundSends, Levels, Concerns
<1>8. \A x \in Evaluators \ {e} : ~Concerns(ev[x], p) /\ ~Concerns(ev'[x], p)
  BY <1>0, <1>3, NoOther
<1>9. AlertedAt(p) <=> Says(ev[e], p, state[p].firing)
  BY <1>5, <1>7, <1>8, BySaying
<1>10. AlertedAt(p)' <=> Says(ev'[e], p, state'[p].firing)
  <2>1. Paging(p)' = {e}
    BY <1>3, <1>7, <1>8 DEF Paging
  <2> QED BY <1>1, <2>1 DEF AlertedAt
<1>11. PagesAt(p)' = Append(PagesAt(p), level)
  <2>1. pages[p] \in Seq(PageSent)
    BY <1>0, <1>5 DEF TypeOK
  <2>2. LevelsOf(Append(pages[p], [level |-> level, ts |-> ev[e].now])) = Append(LevelsOf(pages[p]), level)
    BY <1>2, <2>1, LevelAdded
  <2>3. LevelsOf(pages'[p]) = Append(LevelsOf(pages[p]), level)
    BY <1>4, <1>5, <2>2
  <2> QED BY <1>1, <2>3 DEF PagesAt
<1>13. ~(<<n, "alert">> \in ev[e].send /\ <<n, "recovery">> \in ev[e].send)
  BY <1>2 DEF SoundSends
<1>14. CASE level = "alert"
  <2>1. <<n, "alert">> \notin ev'[e].send /\ \E u \in ev'[e].rows : u.node = n /\ u.firing
    <3>1. PICK u \in ev[e].rows : u.node = n
      BY <1>7 DEF NodesIn
    <3>2. u.firing
      BY <1>2, <1>4, <1>14, <3>1 DEF SoundSends
    <3> QED BY <1>3, <1>4, <1>14, <3>1, <3>2
  <2>2. AlertedAt(p)'
    BY <1>10, <1>12, <2>1 DEF Says
  <2> QED BY <1>0, <1>6, <1>11, <1>14, <2>2, PageSeen
<1>15. CASE level = "recovery"
  <2>1. <<n, "alert">> \notin ev'[e].send /\ <<n, "recovery">> \notin ev'[e].send
    BY <1>4, <1>13, <1>15
  <2>2. \A u \in ev'[e].rows : u.node = n => ~u.firing
    BY <1>2, <1>3, <1>4, <1>15 DEF SoundSends
  <2>3. ~AlertedAt(p)'
    BY <1>10, <1>12, <2>1, <2>2 DEF Says
  <2>4. AlertedAt(p)
    BY <1>4, <1>9, <1>12, <1>15 DEF Says
  <2> QED BY <1>0, <1>6, <1>11, <1>15, <2>3, <2>4, PageSeen
<1> QED BY <1>14, <1>15 DEF Levels

\* An evaluation that has not read the rule's states yet concerns nobody.
LEMMA EarlySeen ==
  ASSUME PagerInv, PagerInv', Undisturbed, NEW e \in Evaluators,
         Start(e) \/ ListRules(e) \/ Aggregate(e) \/ AggregateThrows(e), NEW p \in Pairs, Undisturbed'
  PROVE  AlertedAt(p)' = AlertedAt(p) /\ PagesAt(p)' = PagesAt(p)
<1>0. TypeOK /\ TypeOK' /\ clock >= Renotify /\ Sound(ev[e]) /\ Sound(ev'[e])
  BY DEF PagerInv, Steady, AllSound
<1>1. UNCHANGED <<pages, state>> /\ ev[e].pc \in {"idle", "list", "rule"}
  BY DEF Start, ListRules, Aggregate, AggregateThrows, tables
<1>2. \A x \in Evaluators \ {e} : ev'[x] = ev[x]
  BY <1>0, EvaluationSound DEF Proceed
<1>3. ev'[e].pc \in {"idle", "list", "rule", "states"}
  BY <1>0, StartDoes, ListDoes, AggregateDoes, LeavesDo DEF Leaves
<1>4. ~Concerns(ev[e], p) /\ ~Concerns(ev'[e], p)
  BY <1>0, <1>1, <1>3 DEF Concerns, NodesIn, Sound
<1>5. \A x \in Evaluators : Concerns(ev'[x], p) <=> Concerns(ev[x], p)
  BY <1>2, <1>4
<1>6. \A x \in Evaluators : Concerns(ev[x], p) => ev'[x] = ev[x]
  BY <1>2, <1>4
<1> QED BY <1>0, <1>1, <1>5, <1>6, SameView

PagerSees == P!Next \/ UNCHANGED <<Alerted, [p \in Pairs |-> LevelsSent(p)]>>

LEMMA PagerStep == PagerInv /\ PagerInv' /\ [Next]_vars => PagerSees
<1> SUFFICES ASSUME PagerInv, PagerInv', [Next]_vars PROVE PagerSees
  OBVIOUS
<1>0. /\ Steady /\ TypeOK /\ TypeOK' /\ AllSound /\ clock >= Renotify
      /\ faults \in Nat /\ overlaps \in Nat
  BY DEF PagerInv, Steady, TypeOK
<1>1. CASE ~Undisturbed'
  <2>1. \A p \in Pairs : PagesAt(p)' = <<>>
    BY <1>1 DEF PagesAt
  <2>2. Pairs \in SUBSET Pairs /\ Pairs \ Pairs = {}
    OBVIOUS
  <2> QED BY <1>0, <2>1, <2>2, ForgottenSeen DEF PagerSees
<1>2. CASE Undisturbed' /\ Outside
  <2>1. /\ ev' = ev /\ overlaps' = overlaps
        /\ faults' = faults \/ faults' = faults + 1
        /\ \A p \in Pairs : \/ state'[p] = state[p] /\ pages'[p] = pages[p]
                            \/ state'[p] = NoState /\ pages'[p] = <<>> /\ faults' = faults
    BY <1>0, <1>2, OutsideDoes
  <2>2. Undisturbed
    BY <1>0, <1>2, <2>1 DEF Undisturbed
  <2> DEFINE q == {p \in Pairs : ~(state'[p] = state[p] /\ pages'[p] = pages[p])}
  <2>3. ASSUME NEW p \in Pairs \ q PROVE AlertedAt(p)' = AlertedAt(p) /\ PagesAt(p)' = PagesAt(p)
    BY <1>0, <1>2, <2>1, <2>2, SameView
  <2>4. ASSUME NEW p \in q PROVE PagesAt(p)' = <<>>
    <3>1. pages'[p] = <<>>
      BY <2>1
    <3>2. LevelsOf(pages'[p]) = <<>>
      BY <3>1 DEF LevelsOf
    <3> QED BY <3>2 DEF PagesAt
  <2>5. PICK forgotten \in SUBSET Pairs : forgotten = q
    OBVIOUS
  <2> HIDE DEF q
  <2>6. P!Next
    BY <1>0, <2>3, <2>4, <2>5, ForgottenSeen
  <2> QED BY <2>6 DEF PagerSees
<1>3. ASSUME Undisturbed', NEW e \in Evaluators, Evaluates(e) PROVE PagerSees
  <2>1. /\ Start(e) \/ overlaps' = overlaps
        /\ faults' = IF RuleFails(e) \/ Fail(e) THEN faults + 1 ELSE faults
    BY <1>3, EvaluatesKeeps
  <2>2. overlaps' = overlaps \/ overlaps' = overlaps + 1
    BY <2>1 DEF Start
  <2>3. Undisturbed /\ ~RuleFails(e) /\ ~Fail(e)
    BY <1>0, <1>3, <2>1, <2>2 DEF Undisturbed
  <2>4. CASE Start(e) \/ ListRules(e) \/ Aggregate(e) \/ AggregateThrows(e)
    <3>1. \A p \in Pairs : AlertedAt(p)' = AlertedAt(p) /\ PagesAt(p)' = PagesAt(p)
      BY <1>3, <2>3, <2>4, EarlySeen
    <3> QED BY <1>0, <3>1, NothingSeen DEF PagerSees
  <2>5. CASE ReadStates(e) \/ Save(e)
    <3>1. \A p \in Pairs : AlertedAt(p)' = AlertedAt(p) /\ PagesAt(p)' = PagesAt(p)
      BY <1>0, <2>3, <2>5, ReadSeen, SaveSeen
    <3> QED BY <1>0, <3>1, NothingSeen DEF PagerSees
  <2>6. CASE Notify(e)
    BY <1>0, <2>3, <2>6, NotifySeen DEF PagerSees
  <2> QED BY <1>3, <2>3, <2>4, <2>5, <2>6 DEF Evaluates, Proceed
<1> QED BY <1>1, <1>2, <1>3, Steps DEF Evaluates

LEMMA PagerInvInit == Init => PagerInv
<1> SUFFICES ASSUME Init PROVE PagerInv
  OBVIOUS
<1>1. Steady /\ Crowd
  BY LoadInit, SteadyInit DEF LoadInv
<1>2. Agreed
  BY IdleType DEF Init, Agreed
<1> QED BY <1>1, <1>2 DEF PagerInv

LEMMA PagerInvStep == PagerInv /\ [Next]_vars => PagerInv'
<1> SUFFICES ASSUME PagerInv, [Next]_vars PROVE PagerInv'
  OBVIOUS
<1>1. Steady' /\ Agreed'
  BY SteadyStep, AgreedStep DEF PagerInv
<1>2. Crowd'
  BY CrowdStep DEF PagerInv, Steady
<1> QED BY <1>1, <1>2 DEF PagerInv

LEMMA PagerInit == Init => P!Init
<1> SUFFICES ASSUME Init PROVE P!Init
  OBVIOUS
<1>1. PairByPair
  BY SteadyInit, Views DEF Steady
<1>2. ASSUME NEW p \in Pairs PROVE AlertedAt(p) = FALSE /\ PagesAt(p) = <<>>
  <2>1. ~state[p].firing /\ pages[p] = <<>> /\ Undisturbed
    BY DEF Init, NoState, Undisturbed
  <2>2. \A e \in Evaluators : ~Concerns(ev[e], p)
    BY IdleType DEF Init, Concerns, NodesIn
  <2>3. AlertedAt(p) <=> state[p].firing
    BY <2>1, <2>2, ByRow
  <2>4. AlertedAt(p) \in BOOLEAN
    BY SteadyInit, AlertedBoolean DEF Steady
  <2>5. LevelsOf(<<>>) = <<>>
    BY DEF LevelsOf
  <2> QED BY <2>1, <2>3, <2>4, <2>5 DEF PagesAt
<1> QED BY <1>1, <1>2 DEF PairByPair, P!Init

\* While nothing fails or overlaps, evaluateLoadAlerts implements the pager: it
\* raises what does not stand, repeats only what does, and clears only that.
THEOREM LoadPages == Spec => ImplementsPager
<1>1. PagerInv /\ PagerInv' /\ [Next]_vars => [P!Next]_<<Alerted, [p \in Pairs |-> LevelsSent(p)]>>
  BY PagerStep DEF PagerSees
<1> QED BY <1>1, PagerInvInit, PagerInvStep, PagerInit, PTL DEF Spec, P!Spec, ImplementsPager
=============================================================================
