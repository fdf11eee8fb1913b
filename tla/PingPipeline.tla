--------------------------- MODULE PingPipeline ---------------------------
(***************************************************************************)
(* Latency samples from probe to table.  A node's runner is one loop that  *)
(* refreshes its task list, takes samples, and flushes its buffer as one   *)
(* batch; the loop waits for each call.  The master's handler authorises   *)
(* the batch and inserts it slice by slice; a foreign key refuses a slice  *)
(* with a sample of a deleted task.  A call can fail on the way there, on  *)
(* the way back, or by the runner's timeout while the handler still works. *)
(* The admin edits and deletes tasks and nodes meanwhile.                  *)
(***************************************************************************)
EXTENDS Integers, Sequences, FiniteSets

CONSTANTS
  Nodes, Tasks,
  Valid,       \* tasks that pass validateTask on the nodes
  Handlers,    \* POST /api/ping invocations that can be in progress at once
  TaskCap,     \* maxTasksPerRefresh
  BatchMax,    \* PING_BATCH_MAX
  MaxSamples, MaxEdits, MaxFaults   \* bounds: probes of a node, admin, failures

ASSUME PipelineAssumption ==
  /\ Valid \subseteq Tasks
  /\ "" \notin Handlers
  /\ TaskCap \in Nat \ {0} /\ BatchMax \in Nat \ {0}
  /\ MaxSamples \in Nat /\ MaxEdits \in Nat /\ MaxFaults \in Nat

VARIABLES
  task,      \* per task: its ping_tasks row
  purging,   \* tasks deleted whose second DELETE is still to run
  bound,     \* nodes with a token bound to them
  runner,    \* per node: its loop
  taken,     \* the samples taken so far
  handler,   \* per handler: the batch it is storing
  stored,    \* per sample: how many rows of ping_results it has
  expired,   \* samples whose timestamp is out of the master's window
  requeued,  \* per sample: how often it was put back into a buffer
  refused,   \* samples in a batch that was answered with an error
  removed,   \* samples gone with their task, their node or a restart
  edits, faults

records == <<requeued, refused, removed>>
pipelineVars == <<task, purging, bound, runner, taken, handler, stored, expired, records, edits, faults>>

Sample == [node : Nodes, task : Tasks, no : 1..MaxSamples]

NoTask == [exists |-> FALSE, enabled |-> FALSE, nodeIds |-> {}, exclude |-> FALSE]
Afresh == [pc |-> "loop", tasks |-> {}, answer |-> {}, buf |-> <<>>, batch |-> <<>>, call |-> ""]
Free == [pc |-> "free", node |-> "", rest |-> <<>>, all |-> <<>>]

SamplesIn(q) == {q[i] : i \in 1..Len(q)}
Lesser(a, b) == IF a < b THEN a ELSE b

PipelineInit ==
  /\ task = [t \in Tasks |-> [NoTask EXCEPT !.exists = TRUE, !.enabled = TRUE]]
  /\ purging = {}
  /\ bound = Nodes
  /\ runner = [n \in Nodes |-> Afresh]
  /\ taken = {}
  /\ handler = [h \in Handlers |-> Free]
  /\ stored = [s \in Sample |-> 0]
  /\ expired = {}
  /\ requeued = [s \in Sample |-> 0]
  /\ refused = {} /\ removed = {}
  /\ edits = 0 /\ faults = 0

-----------------------------------------------------------------------------
(* The admin *)

UpsertPingTask(t, nodeIds, exclude, enabled) ==
  /\ edits < MaxEdits
  /\ task' = [task EXCEPT ![t] = [exists |-> TRUE, enabled |-> enabled, nodeIds |-> nodeIds,
                                  exclude |-> exclude]]
  /\ edits' = edits + 1
  /\ UNCHANGED <<purging, bound, runner, taken, handler, stored, expired, records, faults>>

\* The rows of the samples in q are deleted.
Unstore(q) ==
  /\ stored' = [s \in Sample |-> IF s \in q THEN 0 ELSE stored[s]]
  /\ removed' = removed \cup {s \in q : stored[s] > 0}

\* deletePingTask, first statement: the results go by ON DELETE CASCADE.
DeletePingTask(t) ==
  /\ edits < MaxEdits
  /\ task[t].exists
  /\ task' = [task EXCEPT ![t] = NoTask]
  /\ purging' = purging \cup {t}
  /\ Unstore({s \in Sample : s.task = t})
  /\ edits' = edits + 1
  /\ UNCHANGED <<bound, runner, taken, handler, expired, requeued, refused, faults>>

\* Its second statement, for rows from before the foreign key; or it is lost.
DeleteResults(t) ==
  /\ t \in purging
  /\ purging' = purging \ {t}
  /\ \/ Unstore({s \in Sample : s.task = t}) /\ UNCHANGED faults
     \/ faults < MaxFaults /\ faults' = faults + 1 /\ UNCHANGED <<stored, removed>>
  /\ UNCHANGED <<task, bound, runner, taken, handler, expired, requeued, refused, edits>>

\* The part of deleteNode that concerns the probes.
DeleteNodeProbes(n) ==
  /\ edits < MaxEdits
  /\ n \in bound
  /\ bound' = bound \ {n}
  /\ task' = [t \in Tasks |-> [task[t] EXCEPT !.nodeIds = task[t].nodeIds \ {n}]]
  /\ Unstore({s \in Sample : s.node = n})
  /\ edits' = edits + 1
  /\ UNCHANGED <<purging, runner, taken, handler, expired, requeued, refused, faults>>

-----------------------------------------------------------------------------
(* The runner's loop *)

\* pingTasksForNode: an empty allowlist is every node, a blacklist all but its own.
TasksFor(n) ==
  {t \in Tasks : task[t].exists /\ task[t].enabled
                 /\ IF task[t].exclude THEN n \notin task[t].nodeIds
                    ELSE task[t].nodeIds = {} \/ n \in task[t].nodeIds}

\* The first TaskCap of the tasks answered, in an order the query leaves open.
Capped(q) ==
  IF Cardinality(q) <= TaskCap THEN {q} ELSE {p \in SUBSET q : Cardinality(p) = TaskCap}

Refresh(n) ==
  /\ runner[n].pc = "loop"
  /\ runner' = [runner EXCEPT ![n].pc = "refresh"]
  /\ UNCHANGED <<task, purging, bound, taken, handler, stored, expired, records, edits, faults>>

\* GET /api/tasks: the tasks of the token's node, or an error.
AnswerTasks(n) ==
  /\ runner[n].pc = "refresh"
  /\ \E q \in Capped(TasksFor(n)) :
       runner' = [runner EXCEPT ![n] =
         IF n \in bound THEN [runner[n] EXCEPT !.pc = "apply", !.answer = q]
         ELSE [runner[n] EXCEPT !.pc = "loop"]]
  /\ UNCHANGED <<task, purging, bound, taken, handler, stored, expired, records, edits, faults>>

AppliedKeepingOld(tasks, answer) == tasks \cup (answer \cap Valid)

\* Valid tasks are taken over, tasks no longer assigned are dropped.
Applied(tasks, answer) == answer \cap Valid

ApplyTasks(n) ==
  /\ runner[n].pc = "apply"
  /\ runner' = [runner EXCEPT ![n] = [runner[n] EXCEPT !.pc = "loop", !.answer = {},
                  !.tasks = Applied(runner[n].tasks, runner[n].answer)]]
  /\ UNCHANGED <<task, purging, bound, taken, handler, stored, expired, records, edits, faults>>

\* The refresh fails or times out: the old list stays.
RefreshFails(n) ==
  /\ faults < MaxFaults
  /\ runner[n].pc \in {"refresh", "apply"}
  /\ runner' = [runner EXCEPT ![n] = [runner[n] EXCEPT !.pc = "loop", !.answer = {}]]
  /\ faults' = faults + 1
  /\ UNCHANGED <<task, purging, bound, taken, handler, stored, expired, records, edits>>

\* runDue: one of the tasks that are due is probed.
TakeSample(n) ==
  LET no == Cardinality({s \in taken : s.node = n}) + 1 IN
  /\ runner[n].pc = "loop"
  /\ no <= MaxSamples
  /\ \E t \in runner[n].tasks :
       /\ runner' = [runner EXCEPT ![n].buf = Append(@, [node |-> n, task |-> t, no |-> no])]
       /\ taken' = taken \cup {[node |-> n, task |-> t, no |-> no]}
  /\ UNCHANGED <<task, purging, bound, handler, stored, expired, records, edits, faults>>

\* flush: the whole buffer is sent, and the call reaches a handler.
Flush(n) ==
  /\ runner[n].pc = "loop" /\ runner[n].buf # <<>>
  /\ \E h \in Handlers :
       /\ handler[h].pc = "free"
       /\ handler' = [handler EXCEPT ![h] = [pc |-> "arrived", node |-> n,
                        rest |-> runner[n].buf, all |-> runner[n].buf]]
       /\ runner' = [runner EXCEPT ![n] = [runner[n] EXCEPT !.pc = "flush", !.call = h,
                       !.batch = runner[n].buf, !.buf = <<>>]]
  /\ UNCHANGED <<task, purging, bound, taken, stored, expired, records, edits, faults>>

\* The call is over for the runner, and what it was about.
Done(q) == [q EXCEPT !.pc = "loop", !.call = "", !.batch = <<>>]

RequeuedNothing(q) == Done(q)

\* r.buf = append(batch, r.buf...)
Requeued(q) == [Done(q) EXCEPT !.buf = q.batch \o q.buf]

\* client.Do returns an error: the call did not get through, was cut off, or
\* timed out while the handler may be anywhere.
FlushFails(n) ==
  /\ faults < MaxFaults
  /\ runner[n].pc = "flush"
  /\ runner' = [runner EXCEPT ![n] = Requeued(runner[n])]
  /\ requeued' = [s \in Sample |->
       IF s \in SamplesIn(runner[n].batch) THEN requeued[s] + 1 ELSE requeued[s]]
  /\ UNCHANGED handler \/ handler' = [handler EXCEPT ![runner[n].call] = Free]
  /\ faults' = faults + 1
  /\ UNCHANGED <<task, purging, bound, taken, stored, expired, refused, removed, edits>>

\* The node's process restarts: buffer, batch and tasks are gone.
RestartNode(n) ==
  /\ faults < MaxFaults
  /\ runner' = [runner EXCEPT ![n] = Afresh]
  /\ removed' = removed \cup SamplesIn(runner[n].buf \o runner[n].batch)
  /\ faults' = faults + 1
  /\ UNCHANGED <<task, purging, bound, taken, handler, stored, expired, requeued, refused, edits>>

-----------------------------------------------------------------------------
(* The handler *)

\* A sample's time leaves the window that the master accepts, or never was in it.
Expire(n) ==
  /\ faults < MaxFaults
  /\ \E s \in SamplesIn(runner[n].buf \o runner[n].batch) \ expired :
       expired' = expired \cup {s}
  /\ faults' = faults + 1
  /\ UNCHANGED <<task, purging, bound, runner, taken, handler, stored, records, edits>>

\* The answer reaches the runner if it still waits for this call.  It looks at
\* the error of the call only, not at the status of the answer.
Answer(h) ==
  /\ handler' = [handler EXCEPT ![h] = Free]
  /\ runner' = [n \in Nodes |-> IF runner[n].call = h THEN Done(runner[n]) ELSE runner[n]]

AnswerError(h) ==
  /\ Answer(h)
  /\ refused' = refused \cup SamplesIn(handler[h].all)

\* The positions of q that hold a sample in the window.
InWindow(q) == {i \in 1..Len(q) : q[i] \notin expired}

\* rows.filter(...): what is in the window, in the order of q.
Filtered(q) ==
  [k \in 1..Cardinality(InWindow(q)) |->
     q[CHOOSE i \in InWindow(q) : Cardinality({j \in InWindow(q) : j <= i}) = k]]

\* nodeForToken, and savePingResults' filter of the timestamps.
AcceptBatch(h) ==
  /\ handler[h].pc = "arrived"
  /\ handler[h].node \in bound
  /\ handler' = [handler EXCEPT ![h] = [handler[h] EXCEPT !.pc = "insert",
                   !.rest = Filtered(handler[h].rest)]]
  /\ UNCHANGED <<task, purging, bound, runner, taken, stored, expired, records, edits, faults>>

\* 401 for a token that is gone, or 429 of the rate limit.
RefuseBatch(h) ==
  /\ handler[h].pc = "arrived"
  /\ \/ handler[h].node \notin bound /\ UNCHANGED faults
     \/ faults < MaxFaults /\ faults' = faults + 1
  /\ AnswerError(h)
  /\ UNCHANGED <<task, purging, bound, taken, stored, expired, requeued, removed, edits>>

Slice(h) == SubSeq(handler[h].rest, 1, Lesser(BatchMax, Len(handler[h].rest)))

SliceFits(h) == \A s \in SamplesIn(Slice(h)) : task[s.task].exists

NextSliceOverlapping(q) == SubSeq(q, BatchMax, Len(q))

\* off += PING_BATCH_MAX
NextSlice(q) == SubSeq(q, BatchMax + 1, Len(q))

\* One INSERT of at most BatchMax rows.
InsertSlice(h) ==
  /\ handler[h].pc = "insert"
  /\ handler[h].rest # <<>> /\ SliceFits(h)
  /\ stored' = [s \in Sample |->
       IF s \in SamplesIn(Slice(h)) THEN stored[s] + 1 ELSE stored[s]]
  /\ handler' = [handler EXCEPT ![h].rest = NextSlice(@)]
  /\ UNCHANGED <<task, purging, bound, runner, taken, expired, records, edits, faults>>

\* The foreign key refuses the slice, or the database fails: 500, and slices
\* before it stay.
SliceThrows(h) ==
  /\ handler[h].pc = "insert"
  /\ handler[h].rest # <<>>
  /\ \/ ~SliceFits(h) /\ UNCHANGED faults
     \/ faults < MaxFaults /\ faults' = faults + 1
  /\ AnswerError(h)
  /\ UNCHANGED <<task, purging, bound, taken, stored, expired, requeued, removed, edits>>

AnswerOk(h) ==
  /\ handler[h].pc = "insert"
  /\ handler[h].rest = <<>>
  /\ Answer(h)
  /\ UNCHANGED <<task, purging, bound, taken, stored, expired, records, edits, faults>>

Handle(h) ==
  AcceptBatch(h) \/ RefuseBatch(h) \/ InsertSlice(h) \/ SliceThrows(h) \/ AnswerOk(h)

PipelineNext ==
  \/ \E t \in Tasks, q \in SUBSET Nodes, x, b \in BOOLEAN : UpsertPingTask(t, q, x, b)
  \/ \E t \in Tasks : DeletePingTask(t) \/ DeleteResults(t)
  \/ \E n \in Nodes :
       \/ DeleteNodeProbes(n) \/ Refresh(n) \/ AnswerTasks(n) \/ ApplyTasks(n) \/ RefreshFails(n)
       \/ TakeSample(n) \/ Flush(n) \/ FlushFails(n) \/ RestartNode(n) \/ Expire(n)
  \/ \E h \in Handlers : Handle(h)

PipelineSpec == PipelineInit /\ [][PipelineNext]_pipelineVars

\* The runner's tickers fire again and again (select picks among those that
\* are ready, so each has its turn), and a call that got through is handled.
Fairness ==
  /\ \A n \in Nodes : /\ SF_pipelineVars(Refresh(n)) /\ SF_pipelineVars(Flush(n))
                      /\ WF_pipelineVars(AnswerTasks(n) \/ ApplyTasks(n))
  /\ \A h \in Handlers : WF_pipelineVars(Handle(h))

FairSpec == PipelineSpec /\ Fairness

-----------------------------------------------------------------------------
TaskRow == [exists : BOOLEAN, enabled : BOOLEAN, nodeIds : SUBSET Nodes, exclude : BOOLEAN]
Runner == [pc : {"loop", "refresh", "apply", "flush"}, tasks : SUBSET Tasks,
           answer : SUBSET Tasks, buf : Seq(Sample), batch : Seq(Sample),
           call : Handlers \cup {""}]
Handler == [pc : {"free", "arrived", "insert"}, node : Nodes \cup {""},
            rest : Seq(Sample), all : Seq(Sample)]

\* The type invariant of the tables, the runners and the handlers.
PipelineTypeOK ==
  /\ task \in [Tasks -> TaskRow]
  /\ purging \subseteq Tasks
  /\ bound \subseteq Nodes
  /\ runner \in [Nodes -> Runner]
  /\ handler \in [Handlers -> Handler]
  /\ stored \in [Sample -> Nat] /\ requeued \in [Sample -> Nat]
  /\ taken \subseteq Sample /\ expired \subseteq Sample /\ refused \subseteq Sample /\ removed \subseteq Sample
  /\ edits \in Nat /\ faults \in Nat

\* Samples still on their way: in the node, or with a handler.
Underway ==
  (UNION {SamplesIn(runner[n].buf \o runner[n].batch) : n \in Nodes})
  \cup (UNION {SamplesIn(handler[h].rest) : h \in Handlers})

\* The ways a sample may end other than in the table.
GivenUp == refused \cup removed \cup expired

\* Every sample a node took is stored or still on its way, unless its batch was
\* answered with an error, its task or node was deleted, its node restarted, or
\* its time was out of range: a call that failed loses nothing (flush).
AccountedFor == \A s \in taken : stored[s] > 0 \/ s \in Underway \/ s \in GivenUp

\* A sample is stored once more than it was put back into the buffer at most:
\* only a call that failed can duplicate it (flush and the slices).
DuplicatesOnlyFromRetries == \A s \in Sample : stored[s] <= 1 + requeued[s]

\* No sample stays on its way for ever.
SamplesSettle ==
  \A s \in Sample : s \in taken ~> (stored[s] > 0 \/ s \in GivenUp)

\* Once the admin is done, a node that is enrolled probes what is assigned to
\* it and nothing else, up to the cap.
TasksConverge ==
  \A n \in Nodes : <>[](n \in bound) =>
    <>[](/\ runner[n].tasks \subseteq TasksFor(n) \cap Valid
         /\ Cardinality(TasksFor(n)) <= TaskCap => runner[n].tasks = TasksFor(n) \cap Valid)
=============================================================================
