--------------------------- MODULE EvalSchedule ---------------------------
(***************************************************************************)
(* maybeEvaluate, run after every report: claim the hourly prune slot and  *)
(* the 45-second evaluation slot.  A slot is a timestamp in app_settings   *)
(* that one conditional upsert advances (claimSlot); in front of it each   *)
(* server process keeps a cache of when the slot was last seen taken       *)
(* (tryClaimSlot), which callers of that process read before, and write    *)
(* after, the round trip to the database.  Several processes (serverless   *)
(* instances, replicas) share the database.  Any query can throw, with or  *)
(* without having taken effect, and a process can stop at any point.       *)
(***************************************************************************)
EXTENDS Integers, Sequences, FiniteSets

CONSTANTS
  Instances,   \* server processes
  Callers,     \* maybeEvaluate invocations that can be in progress at once
  Home,        \* the process a caller runs in
  PruneTenth, EvalTenth,   \* a tenth of PRUNE_ and of EVAL_MIN_INTERVAL_MS
  Steps,       \* how far the clock moves between two events
  MaxClock     \* bound on time

Keys == {"lastPruneAt", "lastEvalAt"}
Tenth(k) == IF k = "lastPruneAt" THEN PruneTenth ELSE EvalTenth
Interval(k) == 10 * Tenth(k)

\* Date.now() is far from 0: an unset cache entry never looks recent.
StartTime == Interval("lastPruneAt") + Interval("lastEvalAt")

ASSUME ConstantsAssumption ==
  /\ Home \in [Callers -> Instances]
  /\ PruneTenth \in Nat \ {0} /\ EvalTenth \in Nat \ {0}
  /\ Steps \subseteq Nat
  /\ MaxClock \in Nat

VARIABLES
  clock,    \* Date.now(), the same on every process
  slot,     \* per key: the stored timestamp, 0 when there is no row
  cache,    \* per process and key: __slotCache, 0 when unset
  caller,   \* per caller: where it is, for which key, and its reading of the clock
  won       \* per key: the timestamps claimed so far, for the properties

scheduleVars == <<clock, slot, cache, caller, won>>

Resting == [pc |-> "idle", key |-> "lastPruneAt", now |-> 0]

ScheduleInit ==
  /\ clock = StartTime
  /\ slot = [k \in Keys |-> 0]
  /\ cache = [i \in Instances |-> [k \in Keys |-> 0]]
  /\ caller = [c \in Callers |-> Resting]
  /\ won = [k \in Keys |-> <<>>]

Tick ==
  /\ \E d \in Steps : clock + d <= MaxClock /\ clock' = clock + d
  /\ UNCHANGED <<slot, cache, caller, won>>

\* Where a caller turns after a key: to the evaluation slot, or home.
After(k) == IF k = "lastPruneAt" THEN [Resting EXCEPT !.pc = "try", !.key = "lastEvalAt"]
            ELSE Resting

\* after(...): the report was answered; the prune slot comes first.
Begin(c) ==
  /\ caller[c].pc = "idle"
  /\ caller' = [caller EXCEPT ![c] = [Resting EXCEPT !.pc = "try"]]
  /\ UNCHANGED <<clock, slot, cache, won>>

\* Give up when this process saw the slot taken less than 0.9 of it ago.
TryCache(c) ==
  LET k == caller[c].key IN
  /\ caller[c].pc = "try"
  /\ caller' = [caller EXCEPT ![c] =
       IF clock - cache[Home[c]][k] < 9 * Tenth(k) THEN After(k)
       ELSE [pc |-> "claim", key |-> k, now |-> clock]]
  /\ UNCHANGED <<clock, slot, cache, won>>

ClaimableFromNow(stored, now, k) == stored = 0 \/ stored < now

\* ON CONFLICT DO UPDATE ... WHERE stored < now - interval.
Claimable(stored, now, k) == stored = 0 \/ stored < now - Interval(k)

ClaimSlot(c) ==
  LET k == caller[c].key
      now == caller[c].now IN
  /\ caller[c].pc = "claim"
  /\ IF Claimable(slot[k], now, k)
     THEN /\ slot' = [slot EXCEPT ![k] = now]
          /\ won' = [won EXCEPT ![k] = Append(@, now)]
          /\ caller' = [caller EXCEPT ![c].pc = "won"]
     ELSE /\ caller' = [caller EXCEPT ![c].pc = "lost"]
          /\ UNCHANGED <<slot, won>>
  /\ UNCHANGED <<clock, cache>>

CachedAsTaken(result, now, k) == now

\* The slot seen taken counts as half an interval old: it may be any age.
Cached(result, now, k) == IF result = "won" THEN now ELSE now - 5 * Tenth(k)

\* The claim's answer arrives; the winner prunes or evaluates.
WriteCache(c) ==
  LET k == caller[c].key IN
  /\ caller[c].pc \in {"won", "lost"}
  /\ cache' = [cache EXCEPT ![Home[c]] =
       [cache[Home[c]] EXCEPT ![k] = Cached(caller[c].pc, caller[c].now, k)]]
  /\ caller' = [caller EXCEPT ![c] =
       IF caller[c].pc = "won" THEN [caller[c] EXCEPT !.pc = "work"] ELSE After(k)]
  /\ UNCHANGED <<clock, slot, won>>

\* pruneHistory and pruneAuthAttempts, or evaluate, come to their end.
Work(c) ==
  /\ caller[c].pc = "work"
  /\ caller' = [caller EXCEPT ![c] = After(caller[c].key)]
  /\ UNCHANGED <<clock, slot, cache, won>>

\* A query throws: the caller is gone, what it claimed stays claimed.
Throw(c) ==
  /\ caller[c].pc \in {"claim", "won", "lost", "work"}
  /\ caller' = [caller EXCEPT ![c] = Resting]
  /\ UNCHANGED <<clock, slot, cache, won>>

\* A process stops and starts afresh.
Restart(i) ==
  /\ cache' = [cache EXCEPT ![i] = [k \in Keys |-> 0]]
  /\ caller' = [c \in Callers |-> IF Home[c] = i THEN Resting ELSE caller[c]]
  /\ UNCHANGED <<clock, slot, won>>

ScheduleNext ==
  \/ Tick
  \/ \E c \in Callers :
       \/ Begin(c) \/ TryCache(c) \/ ClaimSlot(c) \/ WriteCache(c) \/ Work(c) \/ Throw(c)
  \/ \E i \in Instances : Restart(i)

ScheduleSpec == ScheduleInit /\ [][ScheduleNext]_scheduleVars

-----------------------------------------------------------------------------
Caller == [pc : {"idle", "try", "claim", "won", "lost", "work"}, key : Keys, now : Nat]

\* The type invariant of the slots, the caches and the callers.
ScheduleTypeOK ==
  /\ clock \in Nat
  /\ slot \in [Keys -> Nat]
  /\ cache \in [Instances -> [Keys -> Int]]
  /\ caller \in [Callers -> Caller]
  /\ won \in [Keys -> Seq(Nat)]

\* claimSlot's comment, "true to at most one concurrent caller per interval":
\* any two timestamps that won a slot are more than its interval apart, in the
\* order they were won.
WinsSpaced ==
  \A k \in Keys : \A i, j \in 1..Len(won[k]) :
    i < j => won[k][j] > won[k][i] + Interval(k)

\* A caller is turned away by its process's cache only when the slot is in
\* fact younger than 1.4 intervals (0.9 of a slot seen half an interval old):
\* the short-circuit delays a due evaluation by at most 0.4 of an interval.
SkipsOnlyFresh ==
  \A i \in Instances, k \in Keys :
    clock - cache[i][k] < 9 * Tenth(k) => clock - slot[k] < 14 * Tenth(k)
=============================================================================
