-------------------------- MODULE Evaluation_proof --------------------------
(* What is proved of the evaluations for any processes, callers, intervals, *)
(* nodes and evaluations in progress: the slots that start them are claimed *)
(* an interval apart and held back no longer than the cache may be wrong    *)
(* (EvalSchedule); the repeated pages of the offline alerts are paid for by *)
(* failures and overlaps, and undisturbed evaluations page as Pager         *)
(* promises (OfflineAlerts).                                                *)
EXTENDS EvalSchedule, OfflineAlerts, FiniteSetTheorems, SequenceTheorems, TLAPS

-----------------------------------------------------------------------------
(* The schedule *)

LEMMA IntervalType ==
  ASSUME NEW k \in Keys
  PROVE  /\ Tenth(k) \in Nat \ {0}
         /\ Interval(k) = 10 * Tenth(k) /\ Interval(k) \in Nat \ {0}
  BY ConstantsAssumption DEF Tenth, Interval

LEMMA CallerUpdates ==
  ASSUME NEW q \in Caller, NEW p \in {"idle", "try", "claim", "won", "lost", "work"}
  PROVE  [q EXCEPT !.pc = p] \in Caller
  BY DEF Caller

LEMMA AfterType == ASSUME NEW k \in Keys PROVE After(k) \in Caller /\ Resting \in Caller
  BY DEF After, Resting, Caller, Keys

\* Every slot, cache entry and caller keeps its type.
LEMMA ScheduleTypeStep == ScheduleTypeOK /\ [ScheduleNext]_scheduleVars => ScheduleTypeOK'
<1> SUFFICES ASSUME ScheduleTypeOK, [ScheduleNext]_scheduleVars PROVE ScheduleTypeOK'
  OBVIOUS
<1> USE ConstantsAssumption DEF ScheduleTypeOK
<1>1. CASE Tick
  BY <1>1 DEF Tick
<1>2. ASSUME NEW c \in Callers, Begin(c) PROVE ScheduleTypeOK'
  <2>1. [Resting EXCEPT !.pc = "try"] \in Caller
    BY DEF Resting, Caller, Keys
  <2>2. QED BY <1>2, <2>1 DEF Begin
<1>3. ASSUME NEW c \in Callers, TryCache(c) PROVE ScheduleTypeOK'
  <2>1. caller[c].key \in Keys
    BY DEF Caller
  <2>2. [pc |-> "claim", key |-> caller[c].key, now |-> clock] \in Caller
    BY <2>1 DEF Caller
  <2>3. QED BY <1>3, <2>1, <2>2, AfterType DEF TryCache
<1>4. ASSUME NEW c \in Callers, ClaimSlot(c) PROVE ScheduleTypeOK'
  <2>1. caller[c] \in Caller /\ caller[c].key \in Keys /\ caller[c].now \in Nat
    BY DEF Caller
  <2>2. CASE Claimable(slot[caller[c].key], caller[c].now, caller[c].key)
    <3>1. Append(won[caller[c].key], caller[c].now) \in Seq(Nat)
      BY <2>1
    <3>2. slot' \in [Keys -> Nat] /\ won' \in [Keys -> Seq(Nat)]
      BY <1>4, <2>1, <2>2, <3>1 DEF ClaimSlot
    <3>3. [caller[c] EXCEPT !.pc = "won"] \in Caller
      BY <2>1, CallerUpdates
    <3>4. caller' = [caller EXCEPT ![c] = [caller[c] EXCEPT !.pc = "won"]]
      BY <1>4, <2>2 DEF ClaimSlot
    <3>5. caller' \in [Callers -> Caller]
      BY <3>3, <3>4
    <3>6. QED BY <1>4, <3>2, <3>5 DEF ClaimSlot
  <2>3. CASE ~Claimable(slot[caller[c].key], caller[c].now, caller[c].key)
    <3>1. [caller[c] EXCEPT !.pc = "lost"] \in Caller
      BY <2>1, CallerUpdates
    <3>2. caller' = [caller EXCEPT ![c] = [caller[c] EXCEPT !.pc = "lost"]]
      BY <1>4, <2>3 DEF ClaimSlot
    <3>3. caller' \in [Callers -> Caller]
      BY <3>1, <3>2
    <3>4. QED BY <1>4, <2>3, <3>3 DEF ClaimSlot
  <2>4. QED BY <2>2, <2>3
<1>5. ASSUME NEW c \in Callers, WriteCache(c) PROVE ScheduleTypeOK'
  <2>1. /\ caller[c] \in Caller /\ caller[c].key \in Keys /\ caller[c].now \in Nat
        /\ Home[c] \in Instances
    BY DEF Caller
  <2>2. Cached(caller[c].pc, caller[c].now, caller[c].key) \in Int
    BY <2>1, IntervalType DEF Cached
  <2>3. cache' \in [Instances -> [Keys -> Int]]
    BY <1>5, <2>1, <2>2 DEF WriteCache
  <2>4. caller' \in [Callers -> Caller]
    BY <1>5, <2>1, CallerUpdates, AfterType DEF WriteCache
  <2>5. QED BY <1>5, <2>3, <2>4 DEF WriteCache
<1>6. ASSUME NEW c \in Callers, Work(c) PROVE ScheduleTypeOK'
  <2>1. caller[c].key \in Keys
    BY DEF Caller
  <2>2. QED BY <1>6, <2>1, AfterType DEF Work
<1>7. ASSUME NEW c \in Callers, Throw(c) PROVE ScheduleTypeOK'
  <2>1. Resting \in Caller
    BY DEF Resting, Caller, Keys
  <2>2. QED BY <1>7, <2>1 DEF Throw
<1>8. ASSUME NEW i \in Instances, Restart(i) PROVE ScheduleTypeOK'
  <2>1. Resting \in Caller
    BY DEF Resting, Caller, Keys
  <2>2. QED BY <1>8, <2>1 DEF Restart
<1>9. CASE UNCHANGED scheduleVars
  BY <1>9 DEF scheduleVars
<1>10. QED BY <1>1, <1>2, <1>3, <1>4, <1>5, <1>6, <1>7, <1>8, <1>9 DEF ScheduleNext

LEMMA ScheduleTypeInit == ScheduleInit => ScheduleTypeOK
  BY ConstantsAssumption DEF ScheduleInit, ScheduleTypeOK, Caller, Resting, Keys, StartTime, Interval, Tenth

THEOREM ScheduleTypesHold == ScheduleSpec => []ScheduleTypeOK
  BY ScheduleTypeInit, ScheduleTypeStep, PTL DEF ScheduleSpec

-----------------------------------------------------------------------------
\* The clock, and every caller's reading of it, is past the start.
ReadingsPast ==
  /\ clock >= StartTime
  /\ \A c \in Callers : caller[c].pc \in {"claim", "won", "lost"} => caller[c].now >= StartTime

LEMMA StartType == StartTime \in Nat /\ StartTime >= 10 /\ \A k \in Keys : StartTime > Interval(k)
  BY ConstantsAssumption DEF StartTime, Interval, Tenth, Keys

LEMMA ReadingsStep == ScheduleTypeOK /\ ReadingsPast /\ [ScheduleNext]_scheduleVars => ReadingsPast'
<1> SUFFICES ASSUME ScheduleTypeOK, ReadingsPast, [ScheduleNext]_scheduleVars PROVE ReadingsPast'
  OBVIOUS
<1> USE StartType
<1>1. CASE Tick
  <2>1. PICK d \in Steps : clock' = clock + d
    BY <1>1 DEF Tick
  <2>2. clock' >= StartTime
    BY <2>1, ConstantsAssumption DEF ScheduleTypeOK, ReadingsPast
  <2>3. QED BY <1>1, <2>2 DEF Tick, ReadingsPast
<1>2. ASSUME NEW c \in Callers,
             Begin(c) \/ TryCache(c) \/ ClaimSlot(c) \/ WriteCache(c) \/ Work(c) \/ Throw(c)
      PROVE  ReadingsPast'
  <2>1. UNCHANGED clock /\ \A b \in Callers \ {c} : caller'[b] = caller[b]
    BY <1>2 DEF Begin, TryCache, ClaimSlot, WriteCache, Work, Throw, ScheduleTypeOK
  <2>2. caller'[c].pc \in {"claim", "won", "lost"} => caller'[c].now >= StartTime
    <3>1. CASE Begin(c)
      BY <3>1 DEF Begin, ScheduleTypeOK, Resting
    <3>2. CASE TryCache(c)
      BY <3>2 DEF TryCache, ScheduleTypeOK, After, Resting, ReadingsPast
    <3>3. CASE ClaimSlot(c)
      <4>1. /\ caller[c].pc = "claim"
            /\ \E p \in {"won", "lost"} : caller' = [caller EXCEPT ![c].pc = p]
        BY <3>3 DEF ClaimSlot
      <4>2. caller'[c].now = caller[c].now
        BY <4>1 DEF ScheduleTypeOK, Caller
      <4>3. QED BY <4>1, <4>2 DEF ReadingsPast
    <3>4. CASE WriteCache(c)
      BY <3>4 DEF WriteCache, ScheduleTypeOK, Caller, After, Resting
    <3>5. CASE Work(c)
      BY <3>5 DEF Work, ScheduleTypeOK, After, Resting
    <3>6. CASE Throw(c)
      BY <3>6 DEF Throw, ScheduleTypeOK, Resting
    <3>7. QED BY <1>2, <3>1, <3>2, <3>3, <3>4, <3>5, <3>6
  <2>3. QED BY <2>1, <2>2 DEF ReadingsPast
<1>3. ASSUME NEW i \in Instances, Restart(i) PROVE ReadingsPast'
  BY <1>3 DEF Restart, ReadingsPast, Resting
<1>4. CASE UNCHANGED scheduleVars
  BY <1>4 DEF scheduleVars, ReadingsPast
<1>5. QED BY <1>1, <1>2, <1>3, <1>4 DEF ScheduleNext

LEMMA ReadingsInit == ScheduleInit => ReadingsPast
  BY StartType DEF ScheduleInit, ReadingsPast, Resting

-----------------------------------------------------------------------------
(***************************************************************************)
(* Spacing.  The stored timestamp bounds every one won so far, so the next *)
(* winner, whose reading of the clock exceeds it by the interval, exceeds  *)
(* them all by that much, however stale that reading is.                   *)
(***************************************************************************)
SlotBoundsWins ==
  \A k \in Keys : /\ slot[k] = 0 => won[k] = <<>>
                  /\ \A i \in 1..Len(won[k]) : won[k][i] <= slot[k]

SpacingInv == ScheduleTypeOK /\ ReadingsPast /\ SlotBoundsWins /\ WinsSpaced

LEMMA BeyondByInterval ==
  ASSUME NEW w \in Nat, NEW s \in Nat, NEW t \in Nat, NEW d \in Nat, w <= s, s < t - d
  PROVE  t > w + d /\ w <= t
  OBVIOUS

LEMMA IndexBelow ==
  ASSUME NEW n \in Nat, NEW i \in 1..(n + 1), i < n + 1
  PROVE  i \in 1..n
  OBVIOUS

LEMMA Indices ==
  ASSUME NEW n \in Nat, NEW j \in 1..(n + 1), j # n + 1
  PROVE  j \in 1..n /\ \A i \in 1..(n + 1) : i < j => i \in 1..n
  OBVIOUS

LEMMA SpacingStep == SpacingInv /\ [ScheduleNext]_scheduleVars => SpacingInv'
<1> SUFFICES ASSUME SpacingInv, [ScheduleNext]_scheduleVars PROVE SpacingInv'
  OBVIOUS
<1>0. ScheduleTypeOK /\ ScheduleTypeOK' /\ ReadingsPast'
  BY ScheduleTypeStep, ReadingsStep DEF SpacingInv
<1>1. CASE UNCHANGED <<slot, won>>
  BY <1>0, <1>1 DEF SpacingInv, SlotBoundsWins, WinsSpaced
<1>2. ASSUME NEW c \in Callers, ClaimSlot(c), ~UNCHANGED <<slot, won>> PROVE SpacingInv'
  <2> DEFINE k == caller[c].key
             now == caller[c].now
  <2>1. /\ k \in Keys /\ now \in Nat /\ slot[k] \in Nat /\ won[k] \in Seq(Nat)
        /\ Len(won[k]) \in Nat /\ Interval(k) \in Nat
    BY <1>0, IntervalType, SMTT(60) DEF ScheduleTypeOK, Caller
  <2>2. /\ Claimable(slot[k], now, k)
        /\ slot' = [slot EXCEPT ![k] = now] /\ won' = [won EXCEPT ![k] = Append(@, now)]
    BY <1>2 DEF ClaimSlot
  <2>3. slot'[k] = now /\ won'[k] = Append(won[k], now)
    BY <1>0, <2>1, <2>2 DEF ScheduleTypeOK
  <2>4. \A h \in Keys \ {k} : slot'[h] = slot[h] /\ won'[h] = won[h]
    BY <1>0, <2>2 DEF ScheduleTypeOK
  <2> HIDE DEF k, now
  <2>5. \A i \in 1..Len(won[k]) : now > won[k][i] + Interval(k) /\ won[k][i] <= now
    <3> SUFFICES ASSUME NEW i \in 1..Len(won[k])
                 PROVE  now > won[k][i] + Interval(k) /\ won[k][i] <= now
      OBVIOUS
    <3>1. won[k][i] \in Nat /\ won[k] # <<>>
      BY <2>1
    <3>2. slot[k] # 0 /\ won[k][i] <= slot[k]
      BY <2>1, <3>1 DEF SpacingInv, SlotBoundsWins
    <3>3. slot[k] < now - Interval(k)
      BY <2>2, <3>2 DEF Claimable
    <3>4. QED BY <2>1, <3>1, <3>2, <3>3, BeyondByInterval
  <2>6. /\ Len(won'[k]) = Len(won[k]) + 1
        /\ \A i \in 1..Len(won[k]) : won'[k][i] = won[k][i]
        /\ won'[k][Len(won[k]) + 1] = now
    BY <2>1, <2>3
  <2>7. WinsSpaced'
    <3> SUFFICES ASSUME NEW h \in Keys, NEW i \in 1..Len(won'[h]), NEW j \in 1..Len(won'[h]), i < j
                 PROVE  won'[h][j] > won'[h][i] + Interval(h)
      BY DEF WinsSpaced
    <3>1. CASE h # k
      BY <2>4, <3>1 DEF SpacingInv, WinsSpaced
    <3>2. CASE h = k /\ j = Len(won[k]) + 1
      <4>1. i \in 1..Len(won[k])
        BY <2>1, <2>6, <3>2, IndexBelow
      <4>2. /\ won'[k][i] = won[k][i] /\ won'[k][j] = now
            /\ now > won[k][i] + Interval(k)
        BY <2>5, <2>6, <3>2, <4>1
      <4>3. QED BY <3>2, <4>2
    <3>3. CASE h = k /\ j # Len(won[k]) + 1
      <4>1. i \in 1..Len(won[k]) /\ j \in 1..Len(won[k])
        BY <2>1, <2>6, <3>3, Indices
      <4>2. QED BY <2>6, <3>3, <4>1 DEF SpacingInv, WinsSpaced
    <3>4. QED BY <3>1, <3>2, <3>3
  <2>8. now # 0
    BY <1>2, StartType DEF ClaimSlot, SpacingInv, ReadingsPast, now
  <2>9. SlotBoundsWins'
    <3>1. \A i \in 1..Len(won'[k]) : won'[k][i] <= slot'[k]
      <4> SUFFICES ASSUME NEW i \in 1..Len(won'[k]) PROVE won'[k][i] <= now
        BY <2>3
      <4>1. CASE i = Len(won[k]) + 1
        BY <2>1, <2>6, <4>1
      <4>2. CASE i # Len(won[k]) + 1
        BY <2>1, <2>5, <2>6, <4>2, Indices
      <4>3. QED BY <4>1, <4>2
    <3>2. QED BY <2>3, <2>4, <2>8, <3>1 DEF SpacingInv, SlotBoundsWins
  <2>10. QED BY <1>0, <2>7, <2>9 DEF SpacingInv
<1>3. QED
  BY <1>1, <1>2 DEF ScheduleNext, scheduleVars, Tick, Begin, TryCache, WriteCache, Work, Throw, Restart

\* Any two claims of a slot are more than its interval apart.
THEOREM ClaimsAreSpaced == ScheduleSpec => []WinsSpaced
<1>1. ScheduleInit => SpacingInv
  BY ScheduleTypeInit, ReadingsInit DEF ScheduleInit, SpacingInv, SlotBoundsWins, WinsSpaced
<1>2. SpacingInv => WinsSpaced
  BY DEF SpacingInv
<1>3. QED BY <1>1, <1>2, SpacingStep, PTL DEF ScheduleSpec

-----------------------------------------------------------------------------
(***************************************************************************)
(* What the cache knows.  An answer under way is backed by the slot, which *)
(* only grows, so an entry is at most half an interval ahead of the slot.  *)
(***************************************************************************)
SlotBacks(k, pc, now) ==
  /\ pc = "won" => slot[k] >= now
  /\ pc = "lost" => slot[k] >= now - Interval(k)

AnswersBacked == \A c \in Callers : SlotBacks(caller[c].key, caller[c].pc, caller[c].now)

CacheBacked == \A i \in Instances, k \in Keys : cache[i][k] <= slot[k] + 5 * Tenth(k)

FreshInv == ScheduleTypeOK /\ AnswersBacked /\ CacheBacked

LEMMA FreshImplies == FreshInv => SkipsOnlyFresh
<1> SUFFICES ASSUME FreshInv, NEW i \in Instances, NEW k \in Keys,
                    clock - cache[i][k] < 9 * Tenth(k)
             PROVE  clock - slot[k] < 14 * Tenth(k)
  BY DEF SkipsOnlyFresh
<1>1. /\ clock \in Nat /\ cache[i][k] \in Int /\ slot[k] \in Nat /\ Tenth(k) \in Nat
      /\ cache[i][k] <= slot[k] + 5 * Tenth(k)
  BY IntervalType DEF FreshInv, ScheduleTypeOK, CacheBacked
<1>2. \A a, b, s, t \in Int : a - b < 9 * t /\ b <= s + 5 * t => a - s < 14 * t
  OBVIOUS
<1>3. QED BY <1>1, <1>2

\* A claim moves a slot forward only.
LEMMA SlotGrows ==
  ASSUME ScheduleTypeOK, NEW c \in Callers, ClaimSlot(c), NEW k \in Keys
  PROVE  slot'[k] >= slot[k]
<1>1. /\ caller[c].key \in Keys /\ caller[c].now \in Nat /\ slot[k] \in Nat
      /\ Interval(caller[c].key) \in Nat /\ slot[caller[c].key] \in Nat
  BY IntervalType DEF ScheduleTypeOK, Caller
<1>2. CASE slot' = slot
  BY <1>1, <1>2
<1>3. CASE slot' # slot
  <2>1. /\ Claimable(slot[caller[c].key], caller[c].now, caller[c].key)
        /\ slot' = [slot EXCEPT ![caller[c].key] = caller[c].now]
    BY <1>3 DEF ClaimSlot
  <2>2. caller[c].now >= slot[caller[c].key]
    BY <1>1, <2>1 DEF Claimable
  <2>3. QED BY <1>1, <2>1, <2>2 DEF ScheduleTypeOK
<1>4. QED BY <1>2, <1>3

\* What the slot backs now, a later slot backs.
LEMMA BackingStays ==
  ASSUME ScheduleTypeOK, ScheduleTypeOK', \A k \in Keys : slot'[k] >= slot[k],
         NEW q \in Caller, SlotBacks(q.key, q.pc, q.now)
  PROVE  SlotBacks(q.key, q.pc, q.now)'
<1>1. /\ slot[q.key] \in Nat /\ slot'[q.key] \in Nat /\ slot'[q.key] >= slot[q.key]
      /\ q.now \in Nat /\ Interval(q.key) \in Nat
  BY IntervalType DEF ScheduleTypeOK, Caller
<1>2. QED BY <1>1 DEF SlotBacks

LEMMA FreshStep == FreshInv /\ [ScheduleNext]_scheduleVars => FreshInv'
<1> SUFFICES ASSUME FreshInv, [ScheduleNext]_scheduleVars PROVE FreshInv'
  OBVIOUS
<1>0. ScheduleTypeOK /\ ScheduleTypeOK' /\ \A c \in Callers : caller[c] \in Caller
  BY ScheduleTypeStep DEF FreshInv, ScheduleTypeOK
<1>1. \A k \in Keys : slot'[k] >= slot[k]
  <2>1. CASE UNCHANGED slot
    BY <1>0, <2>1 DEF ScheduleTypeOK
  <2>2. CASE \E c \in Callers : ClaimSlot(c)
    BY <1>0, <2>2, SlotGrows
  <2>3. QED
    BY <2>1, <2>2 DEF ScheduleNext, scheduleVars, Tick, Begin, TryCache, WriteCache, Work, Throw, Restart
<1>2. AnswersBacked'
  <2> SUFFICES ASSUME NEW c \in Callers
               PROVE  SlotBacks(caller[c].key, caller[c].pc, caller[c].now)'
    BY DEF AnswersBacked
  <2>1. CASE caller'[c] = caller[c]
    <3>1. SlotBacks(caller[c].key, caller[c].pc, caller[c].now)
      BY DEF FreshInv, AnswersBacked
    <3>2. QED BY <1>0, <1>1, <2>1, <3>1, BackingStays DEF SlotBacks
  <2>2. CASE caller'[c].pc \notin {"won", "lost"}
    BY <2>2 DEF SlotBacks
  <2>3. CASE ClaimSlot(c)
    <3>1. /\ caller[c].key \in Keys /\ caller[c].now \in Nat /\ slot[caller[c].key] \in Nat
          /\ Interval(caller[c].key) \in Nat
      BY <1>0, IntervalType DEF ScheduleTypeOK, Caller
    <3>2. CASE Claimable(slot[caller[c].key], caller[c].now, caller[c].key)
      <4>1. /\ slot' = [slot EXCEPT ![caller[c].key] = caller[c].now]
            /\ caller' = [caller EXCEPT ![c].pc = "won"]
        BY <2>3, <3>2 DEF ClaimSlot
      <4>2. /\ slot'[caller[c].key] = caller[c].now /\ caller'[c].pc = "won"
            /\ caller'[c].key = caller[c].key /\ caller'[c].now = caller[c].now
        BY <1>0, <3>1, <4>1 DEF ScheduleTypeOK, Caller
      <4>3. QED BY <3>1, <4>2 DEF SlotBacks
    <3>3. CASE ~Claimable(slot[caller[c].key], caller[c].now, caller[c].key)
      <4>1. slot' = slot /\ caller' = [caller EXCEPT ![c].pc = "lost"]
        BY <2>3, <3>3 DEF ClaimSlot
      <4>2. /\ caller'[c].pc = "lost" /\ caller'[c].key = caller[c].key
            /\ caller'[c].now = caller[c].now
        BY <1>0, <4>1 DEF ScheduleTypeOK, Caller
      <4>3. slot[caller[c].key] >= caller[c].now - Interval(caller[c].key)
        BY <3>1, <3>3 DEF Claimable
      <4>4. QED BY <4>1, <4>2, <4>3 DEF SlotBacks
    <3>4. QED BY <3>2, <3>3
  <2>4. \/ caller'[c] = caller[c] \/ caller'[c].pc \notin {"won", "lost"} \/ ClaimSlot(c)
    <3>1. CASE \E b \in Callers \ {c} : \/ Begin(b) \/ TryCache(b) \/ ClaimSlot(b)
                                        \/ WriteCache(b) \/ Work(b) \/ Throw(b)
      BY <1>0, <3>1 DEF Begin, TryCache, ClaimSlot, WriteCache, Work, Throw, ScheduleTypeOK
    <3>2. CASE Begin(c)
      BY <1>0, <3>2 DEF Begin, Resting, ScheduleTypeOK
    <3>3. CASE TryCache(c)
      BY <1>0, <3>3 DEF TryCache, After, Resting, ScheduleTypeOK
    <3>4. CASE WriteCache(c)
      BY <1>0, <3>4 DEF WriteCache, After, Resting, ScheduleTypeOK, Caller
    <3>5. ASSUME Work(c) \/ Throw(c) PROVE caller'[c].pc \notin {"won", "lost"}
      <4>1. CASE Work(c)
        BY <1>0, <4>1 DEF Work, After, Resting, ScheduleTypeOK
      <4>2. CASE Throw(c)
        BY <1>0, <4>2 DEF Throw, Resting, ScheduleTypeOK
      <4>3. QED BY <3>5, <4>1, <4>2
    <3>6. CASE Tick \/ UNCHANGED scheduleVars
      BY <3>6 DEF Tick, scheduleVars
    <3>7. CASE \E i \in Instances : Restart(i)
      BY <3>7 DEF Restart, Resting
    <3>8. QED BY <3>1, <3>2, <3>3, <3>4, <3>5, <3>6, <3>7 DEF ScheduleNext
  <2>5. QED BY <2>1, <2>2, <2>3, <2>4
<1>3. CacheBacked'
  <2> SUFFICES ASSUME NEW i \in Instances, NEW k \in Keys
               PROVE  cache'[i][k] <= slot'[k] + 5 * Tenth(k)
    BY DEF CacheBacked
  <2>1. /\ slot[k] \in Nat /\ slot'[k] \in Nat /\ Tenth(k) \in Nat /\ slot'[k] >= slot[k]
        /\ cache[i][k] \in Int /\ cache[i][k] <= slot[k] + 5 * Tenth(k)
    BY <1>0, <1>1, IntervalType DEF ScheduleTypeOK, FreshInv, CacheBacked
  <2>2. CASE cache'[i][k] = cache[i][k]
    BY <2>1, <2>2
  <2>3. CASE cache'[i][k] = 0
    BY <2>1, <2>3
  <2>4. ASSUME NEW c \in Callers, WriteCache(c), cache'[i][k] # cache[i][k]
        PROVE  cache'[i][k] <= slot'[k] + 5 * Tenth(k)
    <3>1. /\ k = caller[c].key /\ slot' = slot
          /\ cache'[i][k] = Cached(caller[c].pc, caller[c].now, k)
      BY <1>0, <2>4, ConstantsAssumption, SMTT(60) DEF WriteCache, ScheduleTypeOK, Caller
    <3>2. /\ caller[c].pc \in {"won", "lost"} /\ caller[c].now \in Nat
          /\ SlotBacks(k, caller[c].pc, caller[c].now)
      BY <1>0, <2>4, <3>1 DEF WriteCache, FreshInv, AnswersBacked, Caller
    <3>3. CASE caller[c].pc = "won"
      BY <2>1, <3>1, <3>2, <3>3 DEF Cached, SlotBacks
    <3>4. CASE caller[c].pc = "lost"
      BY <2>1, <3>1, <3>2, <3>4, IntervalType DEF Cached, SlotBacks
    <3>5. QED BY <3>2, <3>3, <3>4
  <2>5. CASE \E j \in Instances : Restart(j)
    BY <1>0, <2>2, <2>3, <2>5 DEF Restart, ScheduleTypeOK
  <2>6. CASE UNCHANGED cache
    BY <2>2, <2>6
  <2>7. QED
    BY <2>2, <2>4, <2>5, <2>6 DEF ScheduleNext, scheduleVars, Tick, Begin, TryCache, ClaimSlot, Work, Throw
<1>4. QED BY <1>0, <1>2, <1>3 DEF FreshInv

\* The cache holds back a caller only while the slot is under 1.4 intervals old.
THEOREM CacheSkipsOnlyFresh == ScheduleSpec => []SkipsOnlyFresh
<1>1. ScheduleInit => FreshInv
  <2> SUFFICES ASSUME ScheduleInit PROVE AnswersBacked /\ CacheBacked
    BY ScheduleTypeInit DEF FreshInv
  <2>1. AnswersBacked
    BY DEF ScheduleInit, AnswersBacked, SlotBacks, Resting
  <2>2. CacheBacked
    BY IntervalType DEF ScheduleInit, CacheBacked
  <2>3. QED BY <2>1, <2>2
<1>2. QED BY <1>1, FreshStep, FreshImplies, PTL DEF ScheduleSpec

-----------------------------------------------------------------------------
(* The offline alerts *)

Last(n) == pages[n][Len(pages[n])]
FlagLevel(n) == IF setting[n].offline THEN "offline" ELSE "online"

Active == {e \in Evaluators : ev[e].pc # "idle"}

\* Evaluations that may still page n, and those that have and not yet written.
Facing(n) == {e \in Evaluators : ev[e].pc = "settings" \/ n \in ev[e].todo}
Told(n) == {e \in Evaluators : ev[e].pc = "write" /\ ev[e].node = n}

\* The flag, or what is about to be written to it, is not the last page's.
Astray(n) ==
  /\ setting[n].exists /\ pages[n] # <<>>
  /\ IF Told(n) = {} THEN FlagLevel(n) # Last(n)
     ELSE \E e \in Told(n) : ev[e].level # Last(n)

\* The next page of n repeats none, or only one that is paid for by the flag.
Free(n) ==
  /\ Facing(n) # {}
  /\ IF setting[n].exists
     THEN /\ Told(n) = {}
          /\ pages[n] # <<>> =>
               \A e \in Evaluators : n \in ev[e].todo => LevelFor(e, n) # FlagLevel(n)
     ELSE pages[n] # <<>> =>
            \A e \in Evaluators : n \in ev[e].todo => LevelFor(e, n) # Last(n)

Bit(b) == IF b THEN 1 ELSE 0

\* Where an evaluation is says what it holds.
Sound ==
  \A e \in Evaluators :
    /\ ev[e].pc \in {"idle", "settings"} => ev[e].todo = {}
    /\ ev[e].pc = "write" => ev[e].node \in Nodes \ ev[e].todo /\ ev[e].level \in Levels
    /\ ev[e].pc # "write" => ev[e].node = ""

\* Each evaluation in progress but one has been counted when it began.
Crowd == IsFiniteSet(Active) /\ Cardinality(Active) <= 1 + overlaps

\* Every repeat is paid for, those that evaluations in progress may yet cause
\* and that of a flag gone astray included.
Paid(n) ==
  Cardinality(Repeats(n)) + Cardinality(Facing(n)) + Bit(Astray(n)) - Bit(Free(n))
    <= faults + overlaps

OfflineInv == TypeOK /\ Sound /\ Crowd /\ \A n \in Nodes : Paid(n)

-----------------------------------------------------------------------------
(* What the steps of an evaluation do to it *)

LEMMA OneEvaluation ==
  ASSUME TypeOK, NEW e \in Evaluators, NEW q \in Evaluation, ev' = [ev EXCEPT ![e] = q]
  PROVE  /\ ev' \in [Evaluators -> Evaluation]
         /\ ev'[e] = q
         /\ \A x \in Evaluators \ {e} : ev'[x] = ev[x]
  BY DEF TypeOK

LEMMA IdleType ==
  /\ Idle \in Evaluation
  /\ Idle.pc = "idle" /\ Idle.todo = {} /\ Idle.node = "" /\ Idle.level = ""
  BY DEF Idle, Evaluation

LEMMA LevelsOf ==
  ASSUME TypeOK, NEW e \in Evaluators, NEW n
  PROVE  LevelFor(e, n) \in Levels
  BY DEF LevelFor, Levels

LEMMA StartDoes ==
  ASSUME TypeOK, NEW e \in Evaluators, Start(e)
  PROVE  /\ ev' \in [Evaluators -> Evaluation]
         /\ \A x \in Evaluators \ {e} : ev'[x] = ev[x]
         /\ ev[e].pc = "idle"
         /\ ev'[e].pc = "settings" /\ ev'[e].todo = {} /\ ev'[e].node = ""
<1> DEFINE q == [Idle EXCEPT !.pc = "settings", !.nodes = present,
                   !.down = {n \in present : silent[n]}]
<1>1. q \in Evaluation
  BY DEF Idle, Evaluation, TypeOK
<1>2. q.pc = "settings" /\ q.todo = {} /\ q.node = ""
  BY DEF Idle
<1>3. ev' = [ev EXCEPT ![e] = q] /\ ev[e].pc = "idle"
  BY DEF Start
<1> HIDE DEF q
<1> QED BY <1>1, <1>2, <1>3, OneEvaluation

LEMMA ReadDoes ==
  ASSUME TypeOK, NEW e \in Evaluators, ReadSettings(e)
  PROVE  /\ ev' \in [Evaluators -> Evaluation]
         /\ \A x \in Evaluators \ {e} : ev'[x] = ev[x]
         /\ ev[e].pc = "settings"
         /\ \/ ev'[e] = Idle /\ \A n \in ev[e].nodes : ~NeedsPage(setting[n], n \in ev[e].down)
            \/ /\ ev'[e].pc = "notify" /\ ev'[e].down = ev[e].down
               /\ ev'[e].node = ev[e].node /\ ev'[e].level = ev[e].level
               /\ ev'[e].todo = {n \in ev[e].nodes : NeedsPage(setting[n], n \in ev[e].down)}
<1> DEFINE todo == {n \in ev[e].nodes : NeedsPage(setting[n], n \in ev[e].down)}
           q == [ev[e] EXCEPT !.pc = "notify", !.todo = todo]
<1>1. ev[e] \in Evaluation /\ todo \in SUBSET Nodes
  BY DEF TypeOK, Evaluation
<1>2. ev[e].pc = "settings" /\ ev' = [ev EXCEPT ![e] = IF todo = {} THEN Idle ELSE q]
  BY DEF ReadSettings
<1>3. CASE todo = {}
  <2>1. ev' = [ev EXCEPT ![e] = Idle]
    BY <1>2, <1>3
  <2>2. ev' \in [Evaluators -> Evaluation] /\ ev'[e] = Idle
        /\ \A x \in Evaluators \ {e} : ev'[x] = ev[x]
    BY <2>1, IdleType, OneEvaluation
  <2> QED BY <1>2, <1>3, <2>2
<1>4. CASE todo # {}
  <2>1. ev' = [ev EXCEPT ![e] = q]
    BY <1>2, <1>4
  <2> HIDE DEF todo
  <2>2. q \in Evaluation
    BY <1>1 DEF Evaluation
  <2>3. /\ q.pc = "notify" /\ q.down = ev[e].down /\ q.todo = todo
        /\ q.node = ev[e].node /\ q.level = ev[e].level
    BY <1>1 DEF Evaluation
  <2> HIDE DEF q
  <2>4. ev' \in [Evaluators -> Evaluation] /\ ev'[e] = q
        /\ \A x \in Evaluators \ {e} : ev'[x] = ev[x]
    BY <2>1, <2>2, OneEvaluation
  <2> QED BY <1>2, <2>3, <2>4 DEF todo
<1> QED BY <1>3, <1>4

LEMMA NotifyDoes ==
  ASSUME TypeOK, NEW e \in Evaluators, NEW n \in Nodes, Notify(e, n)
  PROVE  /\ ev' \in [Evaluators -> Evaluation]
         /\ \A x \in Evaluators \ {e} : ev'[x] = ev[x]
         /\ ev[e].pc = "notify" /\ n \in ev[e].todo
         /\ ev'[e].pc = "write" /\ ev'[e].node = n /\ ev'[e].level = LevelFor(e, n)
         /\ ev'[e].todo = ev[e].todo \ {n} /\ ev'[e].down = ev[e].down
<1> DEFINE level == LevelFor(e, n)
           todo == ev[e].todo \ {n}
           q == [ev[e] EXCEPT !.pc = "write", !.node = n, !.level = level, !.todo = todo]
<1>1. ev[e] \in Evaluation /\ todo \in SUBSET Nodes /\ level \in Levels
  BY LevelsOf DEF TypeOK, Evaluation
<1>2. ev[e].pc = "notify" /\ n \in ev[e].todo /\ ev' = [ev EXCEPT ![e] = q]
  BY DEF Notify
<1> HIDE DEF level, todo
<1>3. q \in Evaluation
  BY <1>1 DEF Evaluation
<1>4. q.pc = "write" /\ q.node = n /\ q.level = level /\ q.todo = todo /\ q.down = ev[e].down
  BY <1>1 DEF Evaluation
<1> HIDE DEF q
<1>5. ev' \in [Evaluators -> Evaluation] /\ ev'[e] = q
      /\ \A x \in Evaluators \ {e} : ev'[x] = ev[x]
  BY <1>2, <1>3, OneEvaluation
<1> QED BY <1>2, <1>4, <1>5 DEF level, todo

LEMMA WriteDoes ==
  ASSUME TypeOK, NEW e \in Evaluators, SetOfflineState(e)
  PROVE  /\ ev' \in [Evaluators -> Evaluation]
         /\ \A x \in Evaluators \ {e} : ev'[x] = ev[x]
         /\ ev[e].pc = "write"
         /\ \/ ev[e].todo = {} /\ ev'[e] = Idle
            \/ /\ ev'[e].pc = "notify" /\ ev'[e].node = "" /\ ev'[e].level = ""
               /\ ev'[e].todo = ev[e].todo /\ ev'[e].down = ev[e].down
<1> DEFINE q == [ev[e] EXCEPT !.pc = "notify", !.node = "", !.level = ""]
<1>1. ev[e] \in Evaluation
  BY DEF TypeOK
<1>2. /\ ev[e].pc = "write"
      /\ ev' = [ev EXCEPT ![e] = IF ev[e].todo = {} THEN Idle ELSE q]
  BY DEF SetOfflineState
<1>3. CASE ev[e].todo = {}
  <2>1. ev' = [ev EXCEPT ![e] = Idle]
    BY <1>2, <1>3
  <2> QED BY <1>2, <1>3, <2>1, IdleType, OneEvaluation
<1>4. CASE ev[e].todo # {}
  <2>1. ev' = [ev EXCEPT ![e] = q]
    BY <1>2, <1>4
  <2>2. q \in Evaluation
    BY <1>1 DEF Evaluation
  <2>3. q.pc = "notify" /\ q.node = "" /\ q.level = "" /\ q.todo = ev[e].todo /\ q.down = ev[e].down
    BY <1>1 DEF Evaluation
  <2> HIDE DEF q
  <2>4. ev' \in [Evaluators -> Evaluation] /\ ev'[e] = q
        /\ \A x \in Evaluators \ {e} : ev'[x] = ev[x]
    BY <2>1, <2>2, OneEvaluation
  <2> QED BY <1>2, <2>3, <2>4
<1> QED BY <1>3, <1>4

LEMMA FailDoes ==
  ASSUME TypeOK, NEW e \in Evaluators, Fail(e)
  PROVE  /\ ev' \in [Evaluators -> Evaluation]
         /\ \A x \in Evaluators \ {e} : ev'[x] = ev[x]
         /\ ev'[e] = Idle
  BY IdleType, OneEvaluation DEF Fail

\* The flags of the settings, and the one row a step may change.
LEMMA SettingsKeep ==
  ASSUME TypeOK, NEW n \in Nodes, NEW s \in Setting, setting' = [setting EXCEPT ![n] = s]
  PROVE  /\ setting' \in [Nodes -> Setting]
         /\ setting'[n] = s
         /\ \A m \in Nodes \ {n} : setting'[m] = setting[m]
  BY DEF TypeOK

\* A report or an edit: a row there was keeps its flag and its pages, a row
\* created starts afresh.
LEMMA RowDoes ==
  ASSUME TypeOK, NEW n \in Nodes, Report(n) \/ \E b \in BOOLEAN : UpsertOfflineSetting(n, b)
  PROVE  /\ setting' \in [Nodes -> Setting] /\ pages' \in [Nodes -> Seq(Levels)]
         /\ \A m \in Nodes \ {n} : setting'[m] = setting[m] /\ pages'[m] = pages[m]
         /\ setting'[n].exists
         /\ IF setting[n].exists
            THEN setting'[n].offline = setting[n].offline /\ pages'[n] = pages[n]
            ELSE pages'[n] = <<>>
         /\ UNCHANGED <<ev, faults, overlaps>>
<1>1. setting[n] \in Setting /\ setting[n].offline \in BOOLEAN
  BY DEF TypeOK, Setting
<1>2. pages' = Afresh(n) /\ UNCHANGED <<ev, faults, overlaps>>
  BY DEF Report, UpsertOfflineSetting
<1>3. /\ pages' \in [Nodes -> Seq(Levels)]
      /\ \A m \in Nodes \ {n} : pages'[m] = pages[m]
      /\ pages'[n] = IF setting[n].exists THEN pages[n] ELSE <<>>
  BY <1>2 DEF TypeOK, Afresh
<1>4. CASE Report(n)
  <2>1. CASE setting[n].exists
    <3>1. setting' = [setting EXCEPT ![n] = setting[n]]
      BY <1>4, <2>1 DEF Report
    <3>2. /\ setting' \in [Nodes -> Setting] /\ setting'[n] = setting[n]
          /\ \A m \in Nodes \ {n} : setting'[m] = setting[m]
      BY <1>1, <3>1, SettingsKeep
    <3> QED BY <1>2, <1>3, <2>1, <3>2
  <2>2. CASE ~setting[n].exists
    <3>1. setting' = [setting EXCEPT ![n] = Bootstrapped]
      BY <1>4, <2>2 DEF Report
    <3>2. Bootstrapped \in Setting /\ Bootstrapped.exists /\ ~Bootstrapped.offline
      BY DEF Bootstrapped, Setting
    <3>3. /\ setting' \in [Nodes -> Setting] /\ setting'[n] = Bootstrapped
          /\ \A m \in Nodes \ {n} : setting'[m] = setting[m]
      BY <3>1, <3>2, SettingsKeep
    <3> QED BY <1>2, <1>3, <2>2, <3>2, <3>3
  <2> QED BY <2>1, <2>2
<1>5. ASSUME NEW b \in BOOLEAN, UpsertOfflineSetting(n, b)
      PROVE  /\ setting' \in [Nodes -> Setting]
             /\ setting'[n].exists /\ setting'[n].offline = setting[n].offline
             /\ \A m \in Nodes \ {n} : setting'[m] = setting[m]
  <2> DEFINE s == [exists |-> TRUE, enabled |-> b, offline |-> setting[n].offline]
  <2>1. s \in Setting /\ s.exists /\ s.offline = setting[n].offline
    BY <1>1 DEF Setting
  <2>2. setting' = [setting EXCEPT ![n] = s]
    BY <1>5 DEF UpsertOfflineSetting, SettingAfterEdit
  <2> HIDE DEF s
  <2> QED BY <2>1, <2>2, SettingsKeep
<1> QED BY <1>2, <1>3, <1>4, <1>5

LEMMA DeleteDoes ==
  ASSUME TypeOK, NEW n \in Nodes, DeleteNode(n)
  PROVE  /\ setting' \in [Nodes -> Setting]
         /\ \A m \in Nodes \ {n} : setting'[m] = setting[m]
         /\ ~setting'[n].exists
         /\ UNCHANGED <<ev, pages, faults, overlaps>>
<1>1. NoSetting \in Setting /\ ~NoSetting.exists
  BY DEF NoSetting, Setting
<1>2. setting' = [setting EXCEPT ![n] = NoSetting] /\ UNCHANGED <<ev, pages, faults, overlaps>>
  BY DEF DeleteNode
<1> QED BY <1>1, <1>2, SettingsKeep

LEMMA FlagDoes ==
  ASSUME TypeOK, NEW e \in Evaluators, SetOfflineState(e), ev[e].node \in Nodes
  PROVE  /\ setting' \in [Nodes -> Setting]
         /\ \A m \in Nodes \ {ev[e].node} : setting'[m] = setting[m]
         /\ \A n \in Nodes : setting'[n].exists = setting[n].exists
         /\ setting[ev[e].node].exists =>
              setting'[ev[e].node].offline = (ev[e].level = "offline")
<1> DEFINE n == ev[e].node
           b == ev[e].level = "offline"
           s == Written(setting[n], ev[e].level)
<1>1. n \in Nodes /\ setting[n] \in Setting
  BY DEF TypeOK
<1>2. setting' = [setting EXCEPT ![n] = s]
  BY DEF SetOfflineState
<1>3. s \in Setting /\ s.exists = setting[n].exists /\ (setting[n].exists => s.offline = b)
  <2>1. CASE ~setting[n].exists
    BY <1>1, <2>1 DEF Written
  <2>2. CASE setting[n].exists
    <3>1. s = [setting[n] EXCEPT !.offline = b]
      BY <2>2 DEF Written
    <3>2. b \in BOOLEAN
      OBVIOUS
    <3> HIDE DEF b, s
    <3> QED BY <1>1, <2>2, <3>1, <3>2 DEF Setting
  <2> QED BY <2>1, <2>2
<1> HIDE DEF s
<1>4. /\ setting' \in [Nodes -> Setting] /\ setting'[n] = s
      /\ \A m \in Nodes \ {n} : setting'[m] = setting[m]
  BY <1>1, <1>2, <1>3, SettingsKeep
<1> HIDE DEF n
<1>5. \A m \in Nodes : setting'[m].exists = setting[m].exists
  BY <1>3, <1>4
<1> QED BY <1>3, <1>4, <1>5 DEF n

-----------------------------------------------------------------------------
(* Types and places *)

LEMMA TypesStep == TypeOK /\ Sound /\ [Next]_vars => TypeOK'
<1> SUFFICES ASSUME TypeOK, Sound, [Next]_vars PROVE TypeOK'
  OBVIOUS
<1>1. CASE UNCHANGED vars
  BY <1>1 DEF vars, TypeOK
<1>2. ASSUME NEW n \in Nodes, Report(n) \/ \E b \in BOOLEAN : UpsertOfflineSetting(n, b)
      PROVE  TypeOK'
  <2>1. /\ setting' \in [Nodes -> Setting] /\ pages' \in [Nodes -> Seq(Levels)]
        /\ UNCHANGED <<ev, faults, overlaps>>
    BY <1>2, RowDoes
  <2>2. /\ silent' \in [Nodes -> BOOLEAN] /\ present' \subseteq Nodes
        /\ flips' \in Nat /\ edits' \in Nat
    <3>1. CASE Report(n)
      BY <3>1 DEF TypeOK, Report
    <3>2. ASSUME NEW b \in BOOLEAN, UpsertOfflineSetting(n, b)
          PROVE  UNCHANGED <<silent, present, flips>> /\ edits' = edits + 1
      BY <3>2 DEF UpsertOfflineSetting
    <3> QED BY <1>2, <3>1, <3>2 DEF TypeOK
  <2> QED BY <2>1, <2>2 DEF TypeOK
<1>3. ASSUME NEW n \in Nodes, FallSilent(n) PROVE TypeOK'
  BY <1>3 DEF TypeOK, FallSilent
<1>4. ASSUME NEW n \in Nodes, DeleteNode(n) PROVE TypeOK'
  <2>1. setting' \in [Nodes -> Setting] /\ UNCHANGED <<ev, pages, faults, overlaps>>
    BY <1>4, DeleteDoes
  <2>2. /\ silent' \in [Nodes -> BOOLEAN] /\ present' \subseteq Nodes
        /\ flips' \in Nat /\ edits' \in Nat
    BY <1>4 DEF TypeOK, DeleteNode
  <2> QED BY <2>1, <2>2 DEF TypeOK
<1>5. ASSUME NEW e \in Evaluators, Start(e) PROVE TypeOK'
  <2>1. ev' \in [Evaluators -> Evaluation]
    BY <1>5, StartDoes
  <2> QED BY <1>5, <2>1 DEF TypeOK, Start
<1>6. ASSUME NEW e \in Evaluators, ReadSettings(e) PROVE TypeOK'
  <2>1. ev' \in [Evaluators -> Evaluation]
    BY <1>6, ReadDoes
  <2> QED BY <1>6, <2>1 DEF TypeOK, ReadSettings
<1>7. ASSUME NEW e \in Evaluators, NEW n \in Nodes, Notify(e, n) PROVE TypeOK'
  <2>1. ev' \in [Evaluators -> Evaluation] /\ LevelFor(e, n) \in Levels
    BY <1>7, NotifyDoes, LevelsOf
  <2>2. pages' = [pages EXCEPT ![n] = Append(pages[n], LevelFor(e, n))]
    BY <1>7 DEF Notify
  <2>3. pages' \in [Nodes -> Seq(Levels)]
    BY <2>1, <2>2 DEF TypeOK
  <2> QED BY <1>7, <2>1, <2>3 DEF TypeOK, Notify
<1>8. ASSUME NEW e \in Evaluators, SetOfflineState(e) PROVE TypeOK'
  <2>1. ev[e].node \in Nodes
    BY <1>8 DEF Sound, SetOfflineState
  <2>2. ev' \in [Evaluators -> Evaluation] /\ setting' \in [Nodes -> Setting]
    BY <1>8, <2>1, WriteDoes, FlagDoes
  <2> QED BY <1>8, <2>2 DEF TypeOK, SetOfflineState
<1>9. ASSUME NEW e \in Evaluators, Fail(e) PROVE TypeOK'
  <2>1. ev' \in [Evaluators -> Evaluation]
    BY <1>9, FailDoes
  <2> QED BY <1>9, <2>1 DEF TypeOK, Fail
<1> QED BY <1>1, <1>2, <1>3, <1>4, <1>5, <1>6, <1>7, <1>8, <1>9 DEF Next, Proceed

LEMMA SoundStep == TypeOK /\ Sound /\ [Next]_vars => Sound'
<1> SUFFICES ASSUME TypeOK, Sound, [Next]_vars PROVE Sound'
  OBVIOUS
<1>1. CASE ev' = ev
  BY <1>1 DEF Sound
<1>2. ASSUME NEW e \in Evaluators, Start(e) \/ Proceed(e) \/ Fail(e) PROVE Sound'
  <2>1. ASSUME \A x \in Evaluators \ {e} : ev'[x] = ev[x],
               ev'[e].pc \in {"idle", "settings"} => ev'[e].todo = {},
               ev'[e].pc = "write" => ev'[e].node \in Nodes \ ev'[e].todo /\ ev'[e].level \in Levels,
               ev'[e].pc # "write" => ev'[e].node = ""
        PROVE  Sound'
    BY <2>1 DEF Sound
  <2>2. CASE Start(e)
    BY <2>1, <2>2, StartDoes
  <2>3. CASE ReadSettings(e)
    <3>1. ev[e].node = ""
      BY <2>3, ReadDoes DEF Sound
    <3> QED BY <2>1, <2>3, <3>1, ReadDoes, IdleType
  <2>4. ASSUME NEW n \in Nodes, Notify(e, n) PROVE Sound'
    <3>1. /\ \A x \in Evaluators \ {e} : ev'[x] = ev[x]
          /\ ev'[e].pc = "write" /\ ev'[e].node = n /\ ev'[e].level = LevelFor(e, n)
          /\ ev'[e].todo = ev[e].todo \ {n}
      BY <2>4, NotifyDoes
    <3>2. LevelFor(e, n) \in Levels
      BY LevelsOf
    <3> QED BY <2>1, <3>1, <3>2
  <2>5. CASE SetOfflineState(e)
    BY <2>1, <2>5, WriteDoes, IdleType
  <2>6. CASE Fail(e)
    BY <2>1, <2>6, FailDoes, IdleType
  <2> QED BY <1>2, <2>2, <2>3, <2>4, <2>5, <2>6 DEF Proceed
<1>3. (\E n \in Nodes : Report(n) \/ FallSilent(n) \/ DeleteNode(n)
                          \/ \E b \in BOOLEAN : UpsertOfflineSetting(n, b)) => ev' = ev
  BY DEF Report, FallSilent, DeleteNode, UpsertOfflineSetting
<1> QED BY <1>1, <1>2, <1>3 DEF Next, vars

LEMMA InitOffline == Init => OfflineInv
<1> SUFFICES ASSUME Init PROVE OfflineInv
  OBVIOUS
<1>1. TypeOK
  <2>1. Bootstrapped \in Setting /\ <<>> \in Seq(Levels)
    BY DEF Bootstrapped, Setting
  <2>2. setting \in [Nodes -> Setting] /\ pages \in [Nodes -> Seq(Levels)]
    BY <2>1 DEF Init
  <2>3. ev \in [Evaluators -> Evaluation]
    BY IdleType DEF Init
  <2> QED BY <2>2, <2>3 DEF Init, TypeOK
<1>2. Sound
  BY IdleType DEF Init, Sound
<1>3. Active = {}
  BY IdleType DEF Init, Active
<1>4. Crowd
  BY <1>3, FS_EmptySet DEF Crowd, Init
<1>5. ASSUME NEW n \in Nodes PROVE Paid(n)
  <2>1. Facing(n) = {} /\ pages[n] = <<>> /\ Len(pages[n]) = 0
    BY <1>5, IdleType DEF Init, Facing
  <2>2. Repeats(n) = {}
    BY <2>1 DEF Repeats
  <2>3. ~Astray(n) /\ ~Free(n)
    BY <2>1 DEF Astray, Free
  <2>4. Bit(Astray(n)) = 0 /\ Bit(Free(n)) = 0
    BY <2>3 DEF Bit
  <2> QED BY <2>1, <2>2, <2>4, FS_EmptySet DEF Paid, Init
<1> QED BY <1>1, <1>2, <1>4, <1>5 DEF OfflineInv

LEMMA CrowdStep == TypeOK /\ Crowd /\ [Next]_vars => Crowd'
<1> SUFFICES ASSUME TypeOK, Crowd, [Next]_vars PROVE Crowd'
  OBVIOUS
<1>0. overlaps \in Nat /\ IsFiniteSet(Active) /\ Cardinality(Active) \in Nat
      /\ Cardinality(Active) <= 1 + overlaps
  BY FS_CardinalityType DEF TypeOK, Crowd
<1>1. CASE Active' \subseteq Active /\ overlaps' = overlaps
  <2>1. IsFiniteSet(Active') /\ Cardinality(Active') <= Cardinality(Active)
    BY <1>0, <1>1, FS_Subset
  <2>2. Cardinality(Active') \in Nat
    BY <2>1, FS_CardinalityType
  <2> QED BY <1>0, <1>1, <2>1, <2>2 DEF Crowd
<1>2. ASSUME NEW e \in Evaluators, Start(e) PROVE Crowd'
  <2>1. /\ \A x \in Evaluators \ {e} : ev'[x] = ev[x]
        /\ ev[e].pc = "idle" /\ ev'[e].pc = "settings"
    BY <1>2, StartDoes
  <2>2. Active' = Active \cup {e} /\ e \notin Active
    BY <2>1 DEF Active
  <2>3. IsFiniteSet(Active') /\ Cardinality(Active') = Cardinality(Active) + 1
    BY <1>0, <2>2, FS_AddElement
  <2>4. CASE \A f \in Evaluators : ev[f].pc = "idle"
    <3>1. Active = {} /\ overlaps' = overlaps
      BY <1>2, <2>4 DEF Active, Start
    <3> QED BY <1>0, <2>3, <3>1, FS_EmptySet DEF Crowd
  <2>5. CASE ~\A f \in Evaluators : ev[f].pc = "idle"
    BY <1>0, <1>2, <2>3, <2>5 DEF Crowd, Start
  <2> QED BY <2>4, <2>5
<1>3. ASSUME NEW e \in Evaluators, Proceed(e) \/ Fail(e) PROVE Crowd'
  <2>1. ev[e].pc # "idle" /\ overlaps' = overlaps
    BY <1>3 DEF Proceed, Fail, ReadSettings, Notify, SetOfflineState
  <2>2. \A x \in Evaluators \ {e} : ev'[x] = ev[x]
    BY <1>3, ReadDoes, NotifyDoes, WriteDoes, FailDoes DEF Proceed
  <2>3. Active' \subseteq Active
    BY <2>1, <2>2 DEF Active
  <2> QED BY <1>1, <2>1, <2>3
<1>4. CASE \/ UNCHANGED vars
           \/ \E n \in Nodes : \/ Report(n) \/ FallSilent(n) \/ DeleteNode(n)
                               \/ \E b \in BOOLEAN : UpsertOfflineSetting(n, b)
  <2>1. ev' = ev /\ overlaps' = overlaps
    BY <1>4 DEF vars, Report, FallSilent, DeleteNode, UpsertOfflineSetting
  <2> QED BY <1>1, <2>1 DEF Active
<1> QED BY <1>2, <1>3, <1>4 DEF Next

-----------------------------------------------------------------------------
(* Repeated pages *)

LEMMA Amounts ==
  ASSUME TypeOK, Sound, Crowd, NEW n \in Nodes
  PROVE  /\ IsFiniteSet(Repeats(n)) /\ Cardinality(Repeats(n)) \in Nat
         /\ IsFiniteSet(Facing(n)) /\ Cardinality(Facing(n)) \in Nat
         /\ Facing(n) \subseteq Active /\ Told(n) \subseteq Active
         /\ Facing(n) \cap Told(n) = {}
         /\ Bit(Astray(n)) \in 0 .. 1 /\ Bit(Free(n)) \in 0 .. 1
         /\ faults \in Nat /\ overlaps \in Nat
<1>1. Len(pages[n]) \in Nat /\ Repeats(n) \in SUBSET (1 .. (Len(pages[n]) - 1))
  BY DEF TypeOK, Repeats
<1>2. IsFiniteSet(Repeats(n)) /\ Cardinality(Repeats(n)) \in Nat
  <2>1. IsFiniteSet(1 .. (Len(pages[n]) - 1))
    BY <1>1, FS_Interval
  <2>2. IsFiniteSet(Repeats(n))
    BY <1>1, <2>1, FS_Subset
  <2> QED BY <2>2, FS_CardinalityType
<1>3. Facing(n) \subseteq Active /\ Told(n) \subseteq Active
  BY DEF Facing, Told, Active, Sound
<1>4. IsFiniteSet(Facing(n)) /\ Cardinality(Facing(n)) \in Nat
  BY <1>3, FS_Subset, FS_CardinalityType DEF Crowd
<1>5. Facing(n) \cap Told(n) = {}
  BY DEF Facing, Told, Sound
<1>6. \A b : Bit(b) \in 0 .. 1
  BY DEF Bit
<1> QED BY <1>2, <1>3, <1>4, <1>5, <1>6 DEF TypeOK

\* A page more repeats one at most, and only the last.
LEMMA OnePageMore ==
  ASSUME TypeOK, Sound, Crowd, NEW n \in Nodes, NEW level \in Levels,
         pages'[n] = Append(pages[n], level)
  PROVE  /\ Last(n)' = level /\ pages'[n] # <<>>
         /\ Cardinality(Repeats(n)') \in Nat
         /\ \/ Cardinality(Repeats(n)') <= Cardinality(Repeats(n))
            \/ /\ Cardinality(Repeats(n)') <= Cardinality(Repeats(n)) + 1
               /\ pages[n] # <<>> /\ Last(n) = level
<1> DEFINE p == pages[n]
           k == Len(pages[n])
<1>1. p \in Seq(Levels) /\ k \in Nat /\ IsFiniteSet(Repeats(n)) /\ Cardinality(Repeats(n)) \in Nat
  BY Amounts DEF TypeOK
<1>2. /\ Len(Append(p, level)) = k + 1 /\ Append(p, level)[k + 1] = level
      /\ \A i \in 1 .. k : Append(p, level)[i] = p[i]
  BY <1>1
<1>3. Last(n)' = level /\ pages'[n] # <<>>
  BY <1>1, <1>2 DEF Last
<1>4. Repeats(n)' = {i \in 1 .. k : Append(p, level)[i] = Append(p, level)[i + 1]}
  BY <1>1, <1>2 DEF Repeats
<1>5. Repeats(n) = {i \in 1 .. (k - 1) : p[i] = p[i + 1]}
  BY DEF Repeats
<1>6. \A i \in Repeats(n)' : i \in Repeats(n) \/ i = k
  BY <1>1, <1>2, <1>4, <1>5
<1>7. k \in Repeats(n)' => p # <<>> /\ p[k] = level
  <2>1. ASSUME k \in Repeats(n)' PROVE k \in 1 .. k /\ Append(p, level)[k] = Append(p, level)[k + 1]
    BY <1>4, <2>1
  <2>2. ASSUME k \in 1 .. k PROVE p # <<>>
    BY <1>1, <2>2
  <2> QED BY <1>2, <2>1, <2>2
<1>8. CASE k \in Repeats(n)'
  <2>1. IsFiniteSet(Repeats(n) \cup {k}) /\ Cardinality(Repeats(n) \cup {k}) <= Cardinality(Repeats(n)) + 1
    <3>1. /\ IsFiniteSet(Repeats(n) \cup {k})
          /\ Cardinality(Repeats(n) \cup {k})
               = IF k \in Repeats(n) THEN Cardinality(Repeats(n)) ELSE Cardinality(Repeats(n)) + 1
      BY <1>1, FS_AddElement
    <3> HIDE DEF k
    <3> QED BY <1>1, <3>1
  <2>2. Cardinality(Repeats(n) \cup {k}) \in Nat
    BY <2>1, FS_CardinalityType
  <2>3. Repeats(n)' \in SUBSET (Repeats(n) \cup {k})
    BY <1>6
  <2>4. IsFiniteSet(Repeats(n)') /\ Cardinality(Repeats(n)') <= Cardinality(Repeats(n) \cup {k})
    BY <2>1, <2>3, FS_Subset
  <2>5. Cardinality(Repeats(n)') \in Nat
    BY <2>4, FS_CardinalityType
  <2> QED BY <1>1, <1>3, <1>7, <1>8, <2>1, <2>2, <2>4, <2>5 DEF Last
<1>9. CASE k \notin Repeats(n)'
  <2>1. Repeats(n)' \in SUBSET Repeats(n)
    BY <1>6, <1>9
  <2>2. IsFiniteSet(Repeats(n)') /\ Cardinality(Repeats(n)') <= Cardinality(Repeats(n))
    BY <1>1, <2>1, FS_Subset
  <2> QED BY <1>3, <2>2, FS_CardinalityType
<1> QED BY <1>8, <1>9

\* What a step does not touch of a node's flag, pages and evaluations.
Unmoved(n) ==
  \A e \in Evaluators :
    /\ (ev[e].pc = "settings")' <=> ev[e].pc = "settings"
    /\ (n \in ev[e].todo)' <=> n \in ev[e].todo
    /\ n \in ev[e].todo => (ev[e].down)' = ev[e].down
    /\ (ev[e].pc = "write" /\ ev[e].node = n)' <=> (ev[e].pc = "write" /\ ev[e].node = n)
    /\ ev[e].pc = "write" /\ ev[e].node = n => (ev[e].level)' = ev[e].level

LEMMA UnmovedPaid ==
  ASSUME NEW n \in Nodes, Paid(n), Unmoved(n), pages'[n] = pages[n],
         setting'[n].exists = setting[n].exists, setting'[n].offline = setting[n].offline,
         faults' = faults, overlaps' = overlaps
  PROVE  Paid(n)'
<1>1. Repeats(n)' = Repeats(n) /\ Last(n)' = Last(n) /\ FlagLevel(n)' = FlagLevel(n)
  BY DEF Repeats, Last, FlagLevel
<1>2. Facing(n)' = Facing(n)
  BY DEF Facing, Unmoved
<1>3. Told(n)' = Told(n)
  BY DEF Told, Unmoved
<1>4. \A e \in Told(n) : (ev[e].level)' = ev[e].level
  BY DEF Told, Unmoved
<1>5. Astray(n)' <=> Astray(n)
  BY <1>1, <1>3, <1>4 DEF Astray
<1>6. \A e \in Evaluators : /\ (n \in ev[e].todo)' <=> n \in ev[e].todo
                            /\ n \in ev[e].todo => LevelFor(e, n)' = LevelFor(e, n)
  BY DEF Unmoved, LevelFor
<1>7. Free(n)' <=> Free(n)
  BY <1>1, <1>2, <1>3, <1>6 DEF Free
<1>8. Bit(Astray(n))' = Bit(Astray(n)) /\ Bit(Free(n))' = Bit(Free(n))
  BY <1>5, <1>7 DEF Bit
<1> QED BY <1>1, <1>2, <1>8 DEF Paid

\* An evaluation out of those that face the node, or of those that do not.
LEMMA OneFacingLess ==
  ASSUME TypeOK, Sound, Crowd, NEW n \in Nodes, NEW e \in Evaluators
  PROVE  /\ Cardinality(Facing(n) \ {e}) \in Nat
         /\ e \in Facing(n) => Cardinality(Facing(n) \ {e}) = Cardinality(Facing(n)) - 1
         /\ e \notin Facing(n) => Facing(n) \ {e} = Facing(n)
<1>1. IsFiniteSet(Facing(n)) /\ Cardinality(Facing(n)) \in Nat
  BY Amounts
<1>2. /\ IsFiniteSet(Facing(n) \ {e})
      /\ Cardinality(Facing(n) \ {e})
           = IF e \in Facing(n) THEN Cardinality(Facing(n)) - 1 ELSE Cardinality(Facing(n))
  BY <1>1, FS_RemoveElement
<1>3. Cardinality(Facing(n) \ {e}) \in Nat
  BY <1>2, FS_CardinalityType
<1> QED BY <1>2, <1>3

\* A setting created or edited.
LEMMA RowPaid ==
  ASSUME TypeOK, Sound, Crowd, NEW n \in Nodes, Paid(n), ev' = ev, overlaps' = overlaps,
         faults' = faults, setting'[n].exists,
         IF setting[n].exists
         THEN setting'[n].offline = setting[n].offline /\ pages'[n] = pages[n]
         ELSE pages'[n] = <<>>
  PROVE  Paid(n)'
<1>1. CASE setting[n].exists
  <2>1. Unmoved(n)
    BY DEF Unmoved
  <2> QED BY <1>1, <2>1, UnmovedPaid
<1>2. CASE ~setting[n].exists
  <2>1. pages'[n] = <<>> /\ Len(pages'[n]) = 0
    BY <1>2
  <2>2. Repeats(n)' = {}
    BY <2>1 DEF Repeats
  <2>3. Facing(n)' = Facing(n) /\ Told(n)' = Told(n)
    BY DEF Facing, Told
  <2>4. Bit(Astray(n))' = 0
    BY <2>1 DEF Bit, Astray
  <2>5. /\ IsFiniteSet(Facing(n)) /\ Cardinality(Facing(n)) \in Nat
        /\ Facing(n) \subseteq Active /\ Told(n) \subseteq Active
        /\ Facing(n) \cap Told(n) = {}
        /\ faults \in Nat /\ overlaps \in Nat
    BY Amounts
  <2>6. IsFiniteSet(Active) /\ Cardinality(Active) <= 1 + overlaps /\ Cardinality(Active) \in Nat
    BY FS_CardinalityType DEF Crowd
  <2>7. Bit(Free(n))' \in 0 .. 1 /\ Cardinality({}) = 0
    BY FS_EmptySet DEF Bit
  <2>8. Cardinality(Facing(n)) - Bit(Free(n))' <= overlaps
    <3>1. CASE Facing(n) = {}
      BY <2>5, <2>7, <3>1
    <3>2. CASE Facing(n) # {} /\ Told(n) = {}
      <4>1. Bit(Free(n))' = 1
        BY <2>1, <2>3, <3>2 DEF Bit, Free
      <4>2. Cardinality(Facing(n)) <= Cardinality(Active)
        BY <2>5, <2>6, FS_Subset
      <4> QED BY <2>5, <2>6, <4>1, <4>2
    <3>3. CASE Told(n) # {}
      <4>1. PICK e : e \in Told(n)
        BY <3>3
      <4>2. e \notin Facing(n) /\ Facing(n) \cup {e} \subseteq Active
        BY <2>5, <4>1
      <4>3. Cardinality(Facing(n) \cup {e}) = Cardinality(Facing(n)) + 1
        BY <2>5, <4>2, FS_AddElement
      <4>4. Cardinality(Facing(n) \cup {e}) <= Cardinality(Active)
        BY <2>6, <4>2, FS_Subset
      <4> QED BY <2>5, <2>6, <2>7, <4>3, <4>4
    <3> QED BY <3>1, <3>2, <3>3
  <2> QED BY <2>2, <2>3, <2>4, <2>5, <2>7, <2>8 DEF Paid
<1> QED BY <1>1, <1>2

LEMMA DeletePaid ==
  ASSUME TypeOK, Sound, Crowd, NEW n \in Nodes, Paid(n), ev' = ev, pages' = pages,
         overlaps' = overlaps, faults' = faults, ~setting'[n].exists
  PROVE  Paid(n)'
<1>1. Repeats(n)' = Repeats(n) /\ Last(n)' = Last(n)
  BY DEF Repeats, Last
<1>2. Facing(n)' = Facing(n) /\ Told(n)' = Told(n)
  BY DEF Facing, Told
<1>3. Bit(Astray(n))' = 0
  BY DEF Bit, Astray
<1>4. Free(n) => Astray(n) \/ Free(n)'
  <2>1. ASSUME Free(n), ~Astray(n), pages[n] # <<>>, NEW e \in Evaluators, n \in ev[e].todo
        PROVE  LevelFor(e, n) # Last(n)
    BY <2>1 DEF Free, Astray
  <2> QED BY <1>1, <1>2, <2>1 DEF Free, LevelFor
<1>5. Bit(Free(n)) <= Bit(Astray(n)) + Bit(Free(n))'
  BY <1>4 DEF Bit
<1>6. Bit(Free(n))' \in 0 .. 1
  BY DEF Bit
<1> QED BY <1>1, <1>2, <1>3, <1>5, <1>6, Amounts DEF Paid

LEMMA StartPaid ==
  ASSUME TypeOK, Sound, Crowd, NEW n \in Nodes, Paid(n), NEW e \in Evaluators, Start(e)
  PROVE  Paid(n)'
<1>1. /\ \A x \in Evaluators \ {e} : ev'[x] = ev[x]
      /\ ev[e].pc = "idle"
      /\ ev'[e].pc = "settings" /\ ev'[e].todo = {} /\ ev'[e].node = ""
  BY StartDoes
<1>2. UNCHANGED <<setting, pages, faults>> /\ ev[e].todo = {}
  BY <1>1 DEF Start, Sound
<1>3. Repeats(n)' = Repeats(n) /\ Last(n)' = Last(n) /\ FlagLevel(n)' = FlagLevel(n)
  BY <1>2 DEF Repeats, Last, FlagLevel
<1>4. Facing(n)' = Facing(n) \cup {e} /\ e \notin Facing(n)
  BY <1>1, <1>2 DEF Facing
<1>5. Told(n)' = Told(n) /\ \A x \in Told(n) : ev'[x] = ev[x]
  BY <1>1 DEF Told
<1>6. Bit(Astray(n))' = Bit(Astray(n))
  BY <1>2, <1>3, <1>5 DEF Astray, Bit
<1>7. Cardinality(Facing(n)') = Cardinality(Facing(n)) + 1
  BY <1>4, Amounts, FS_AddElement
<1>8. Free(n) => Free(n)'
  BY <1>1, <1>2, <1>3, <1>4, <1>5 DEF Free, LevelFor
<1>9. Bit(Free(n)) <= Bit(Free(n))' /\ Bit(Free(n))' \in 0 .. 1
  BY <1>8 DEF Bit
<1>10. CASE \A f \in Evaluators : ev[f].pc = "idle"
  <2>1. Facing(n) = {} /\ Told(n) = {} /\ overlaps' = overlaps
    BY <1>10 DEF Facing, Told, Start, Sound
  <2>2. ~Free(n) /\ Free(n)'
    <3>1. \A f \in Evaluators : n \notin ev'[f].todo
      BY <1>1, <1>10 DEF Sound
    <3>2. Facing(n)' # {} /\ Told(n)' = {}
      BY <1>4, <1>5, <2>1
    <3>3. Free(n)'
      BY <3>1, <3>2 DEF Free
    <3> QED BY <2>1, <3>3 DEF Free
  <2>3. Bit(Free(n)) = 0 /\ Bit(Free(n))' = 1
    BY <2>2 DEF Bit
  <2>4. /\ Cardinality(Repeats(n)) \in Nat /\ Cardinality(Facing(n)) \in Nat
        /\ Bit(Astray(n)) \in 0 .. 1 /\ faults \in Nat /\ overlaps \in Nat
    BY Amounts
  <2>5. Cardinality(Repeats(n)) + Cardinality(Facing(n)) + Bit(Astray(n)) <= faults + overlaps
    BY <2>3, <2>4 DEF Paid
  <2>6. overlaps' = overlaps
    BY <2>1
  <2> QED BY <1>2, <1>3, <1>6, <1>7, <2>3, <2>4, <2>5, <2>6 DEF Paid
<1>11. CASE ~\A f \in Evaluators : ev[f].pc = "idle"
  <2>1. overlaps' = overlaps + 1
    BY <1>11 DEF Start
  <2> QED BY <1>2, <1>3, <1>6, <1>7, <1>9, <2>1, Amounts DEF Paid
<1> QED BY <1>10, <1>11

LEMMA ReadPaid ==
  ASSUME TypeOK, Sound, Crowd, NEW n \in Nodes, Paid(n), NEW e \in Evaluators, ReadSettings(e)
  PROVE  Paid(n)'
<1>1. /\ \A x \in Evaluators \ {e} : ev'[x] = ev[x]
      /\ ev[e].pc = "settings"
      /\ \/ ev'[e] = Idle
         \/ /\ ev'[e].pc = "notify" /\ ev'[e].down = ev[e].down
            /\ ev'[e].todo = {m \in ev[e].nodes : NeedsPage(setting[m], m \in ev[e].down)}
  BY ReadDoes
<1>2. UNCHANGED <<setting, pages, faults, overlaps>> /\ ev[e].todo = {}
  BY <1>1 DEF ReadSettings, Sound
<1>3. Repeats(n)' = Repeats(n) /\ Last(n)' = Last(n) /\ FlagLevel(n)' = FlagLevel(n)
  BY <1>2 DEF Repeats, Last, FlagLevel
<1>4. ev'[e].pc \in {"idle", "notify"}
  BY <1>1, IdleType
<1>5. Told(n)' = Told(n) /\ \A x \in Told(n) : ev'[x] = ev[x]
  BY <1>1, <1>4 DEF Told
<1>6. Bit(Astray(n))' = Bit(Astray(n))
  BY <1>2, <1>3, <1>5 DEF Astray, Bit
<1>7. e \in Facing(n)
  BY <1>1 DEF Facing
<1>8. /\ Cardinality(Repeats(n)) \in Nat /\ Cardinality(Facing(n)) \in Nat
      /\ Bit(Astray(n)) \in 0 .. 1 /\ Bit(Free(n)) \in 0 .. 1
      /\ faults \in Nat /\ overlaps \in Nat
  BY Amounts
<1>9. Bit(Free(n))' \in 0 .. 1
  BY DEF Bit
<1>10. CASE n \in ev'[e].todo
  <2>1. ev'[e].down = ev[e].down /\ NeedsPage(setting[n], n \in ev[e].down)
    BY <1>1, <1>10, IdleType
  <2>2. Facing(n)' = Facing(n)
    BY <1>1, <1>7, <1>10 DEF Facing
  <2>3. LevelFor(e, n)' # FlagLevel(n) /\ setting[n].exists
    <3>1. setting[n] \in Setting /\ setting[n].offline \in BOOLEAN
      BY DEF TypeOK, Setting
    <3> QED BY <2>1, <3>1 DEF LevelFor, FlagLevel, NeedsPage
  <2>4. \A x \in Evaluators \ {e} : LevelFor(x, n)' = LevelFor(x, n)
    BY <1>1 DEF LevelFor
  <2>5. Free(n) => Free(n)'
    BY <1>1, <1>2, <1>3, <1>5, <2>2, <2>3, <2>4 DEF Free
  <2>6. Bit(Free(n)) <= Bit(Free(n))'
    BY <2>5 DEF Bit
  <2> QED BY <1>2, <1>3, <1>6, <1>8, <1>9, <2>2, <2>6 DEF Paid
<1>11. CASE n \notin ev'[e].todo
  <2>1. Facing(n)' = Facing(n) \ {e}
    BY <1>1, <1>4, <1>11 DEF Facing
  <2>2. Cardinality(Facing(n)') = Cardinality(Facing(n)) - 1
    BY <1>7, <2>1, OneFacingLess
  <2> QED BY <1>2, <1>3, <1>6, <1>8, <1>9, <2>2 DEF Paid
<1> QED BY <1>10, <1>11

\* The page goes out: a repeat has been paid for by the flag or by the page's
\* evaluation.
LEMMA NotifyPaid ==
  ASSUME TypeOK, Sound, Crowd, NEW n \in Nodes, Paid(n), NEW e \in Evaluators, Notify(e, n)
  PROVE  Paid(n)'
<1> DEFINE level == LevelFor(e, n)
<1>1. /\ \A x \in Evaluators \ {e} : ev'[x] = ev[x]
      /\ ev[e].pc = "notify" /\ n \in ev[e].todo
      /\ ev'[e].pc = "write" /\ ev'[e].node = n /\ ev'[e].level = level
      /\ ev'[e].todo = ev[e].todo \ {n}
  BY NotifyDoes
<1>2. /\ UNCHANGED <<setting, faults, overlaps>> /\ level \in Levels
      /\ pages' = [pages EXCEPT ![n] = Append(pages[n], level)]
  BY LevelsOf DEF Notify
<1> HIDE DEF level
<1>3. pages'[n] = Append(pages[n], level)
  BY <1>2 DEF TypeOK
<1>4. /\ Last(n)' = level /\ pages'[n] # <<>>
      /\ Cardinality(Repeats(n)') \in Nat
      /\ \/ Cardinality(Repeats(n)') <= Cardinality(Repeats(n))
         \/ /\ Cardinality(Repeats(n)') <= Cardinality(Repeats(n)) + 1
            /\ pages[n] # <<>> /\ Last(n) = level
  BY <1>2, <1>3, OnePageMore
<1>5. Told(n)' = Told(n) \cup {e} /\ e \notin Told(n) /\ \A x \in Told(n) : ev'[x] = ev[x]
  BY <1>1 DEF Told
<1>6. Facing(n)' = Facing(n) \ {e} /\ e \in Facing(n)
  BY <1>1 DEF Facing
<1>7. Cardinality(Facing(n)') = Cardinality(Facing(n)) - 1
  BY <1>6, OneFacingLess
<1>8. Astray(n)' => setting[n].exists /\ \E x \in Told(n) : ev[x].level # level
  BY <1>1, <1>2, <1>4, <1>5 DEF Astray
<1>9. Astray(n)' => ~Free(n)
  BY <1>8 DEF Free
<1>10. pages[n] # <<>> /\ Last(n) = level /\ Astray(n)' => Astray(n)
  BY <1>8 DEF Astray
<1>11. pages[n] # <<>> /\ Last(n) = level /\ Free(n) => Astray(n)
  BY <1>1 DEF Free, Astray, level
<1>12. /\ Cardinality(Repeats(n)) \in Nat /\ Cardinality(Facing(n)) \in Nat
       /\ faults \in Nat /\ overlaps \in Nat
  BY Amounts
<1>13. Bit(Free(n))' \in 0 .. 1
  BY DEF Bit
<1>14. CASE Cardinality(Repeats(n)') <= Cardinality(Repeats(n))
  <2>1. Bit(Astray(n))' <= 1 + Bit(Astray(n)) - Bit(Free(n))
    BY <1>9 DEF Bit
  <2>2. Bit(Astray(n))' \in 0 .. 1 /\ Bit(Astray(n)) \in 0 .. 1 /\ Bit(Free(n)) \in 0 .. 1
    BY DEF Bit
  <2> QED BY <1>2, <1>4, <1>7, <1>12, <1>13, <1>14, <2>1, <2>2 DEF Paid
<1>15. CASE /\ Cardinality(Repeats(n)') <= Cardinality(Repeats(n)) + 1
            /\ pages[n] # <<>> /\ Last(n) = level
  <2>1. Bit(Astray(n))' <= Bit(Astray(n)) - Bit(Free(n))
    BY <1>9, <1>10, <1>11, <1>15 DEF Bit
  <2>2. Bit(Astray(n))' \in 0 .. 1 /\ Bit(Astray(n)) \in 0 .. 1 /\ Bit(Free(n)) \in 0 .. 1
    BY DEF Bit
  <2> QED BY <1>2, <1>4, <1>7, <1>12, <1>13, <1>15, <2>1, <2>2 DEF Paid
<1> QED BY <1>4, <1>14, <1>15

\* The flag is written as the page said.
LEMMA WritePaid ==
  ASSUME TypeOK, Sound, Crowd, NEW n \in Nodes, Paid(n), NEW e \in Evaluators, SetOfflineState(e),
         n = ev[e].node
  PROVE  Paid(n)'
<1>1. /\ \A x \in Evaluators \ {e} : ev'[x] = ev[x]
      /\ ev[e].pc = "write"
      /\ \/ ev[e].todo = {} /\ ev'[e] = Idle
         \/ /\ ev'[e].pc = "notify" /\ ev'[e].todo = ev[e].todo /\ ev'[e].down = ev[e].down
  BY WriteDoes
<1>2. UNCHANGED <<pages, faults, overlaps>> /\ ev[e].level \in Levels /\ n \notin ev[e].todo
  BY <1>1 DEF SetOfflineState, Sound
<1>3. /\ setting'[n].exists = setting[n].exists
      /\ setting[n].exists => setting'[n].offline = (ev[e].level = "offline")
  BY FlagDoes
<1>4. n \notin ev'[e].todo /\ ev'[e].pc \in {"idle", "notify"}
  BY <1>1, <1>2, IdleType
<1>5. Repeats(n)' = Repeats(n) /\ Last(n)' = Last(n)
  BY <1>2 DEF Repeats, Last
<1>6. Facing(n)' = Facing(n)
  BY <1>1, <1>2, <1>4 DEF Facing
<1>7. Told(n)' = Told(n) \ {e} /\ e \in Told(n) /\ \A x \in Told(n)' : ev'[x] = ev[x]
  BY <1>1, <1>4 DEF Told
<1>8. setting[n].exists => FlagLevel(n)' = ev[e].level
  BY <1>2, <1>3 DEF FlagLevel, Levels
<1>9. Astray(n)' => Astray(n)
  <2>1. CASE Told(n)' = {}
    BY <1>2, <1>3, <1>5, <1>7, <1>8, <2>1 DEF Astray
  <2>2. CASE Told(n)' # {}
    BY <1>2, <1>3, <1>5, <1>7, <2>2 DEF Astray
  <2> QED BY <2>1, <2>2
<1>10. Free(n) => Free(n)'
  <2>1. Free(n) => ~setting[n].exists
    BY <1>7 DEF Free
  <2>2. \A x \in Evaluators : n \in ev'[x].todo => n \in ev[x].todo /\ LevelFor(x, n)' = LevelFor(x, n)
    BY <1>1, <1>4 DEF LevelFor
  <2> QED BY <1>2, <1>3, <1>5, <1>6, <2>1, <2>2 DEF Free
<1>11. Bit(Astray(n))' <= Bit(Astray(n)) /\ Bit(Free(n)) <= Bit(Free(n))'
  BY <1>9, <1>10 DEF Bit
<1>12. Bit(Astray(n))' \in 0 .. 1 /\ Bit(Free(n))' \in 0 .. 1
  BY DEF Bit
<1>13. /\ Cardinality(Repeats(n)) \in Nat /\ Cardinality(Facing(n)) \in Nat
       /\ Bit(Astray(n)) \in 0 .. 1 /\ Bit(Free(n)) \in 0 .. 1
       /\ faults \in Nat /\ overlaps \in Nat
  BY Amounts
<1> QED BY <1>2, <1>5, <1>6, <1>11, <1>12, <1>13 DEF Paid

LEMMA FailPaid ==
  ASSUME TypeOK, Sound, Crowd, NEW n \in Nodes, Paid(n), NEW e \in Evaluators, Fail(e)
  PROVE  Paid(n)'
<1>1. (\A x \in Evaluators \ {e} : ev'[x] = ev[x]) /\ ev'[e] = Idle
  BY FailDoes
<1>2. UNCHANGED <<setting, pages, overlaps>> /\ faults' = faults + 1
  BY DEF Fail
<1>3. Repeats(n)' = Repeats(n) /\ Last(n)' = Last(n) /\ FlagLevel(n)' = FlagLevel(n)
  BY <1>2 DEF Repeats, Last, FlagLevel
<1>4. Facing(n)' = Facing(n) \ {e} /\ Told(n)' = Told(n) \ {e}
  BY <1>1, IdleType DEF Facing, Told
<1>5. /\ Cardinality(Repeats(n)) \in Nat /\ Cardinality(Facing(n)) \in Nat
      /\ Bit(Astray(n)) \in 0 .. 1 /\ Bit(Free(n)) \in 0 .. 1
      /\ faults \in Nat /\ overlaps \in Nat
  BY Amounts
<1>6. Bit(Astray(n))' \in 0 .. 1 /\ Bit(Free(n))' \in 0 .. 1
  BY DEF Bit
<1>7. CASE e \in Facing(n)
  <2>1. Cardinality(Facing(n)') = Cardinality(Facing(n)) - 1
    BY <1>4, <1>7, OneFacingLess
  <2> QED BY <1>2, <1>3, <1>5, <1>6, <2>1 DEF Paid
<1>8. CASE e \notin Facing(n)
  <2>1. Facing(n)' = Facing(n)
    BY <1>4, <1>8
  <2>2. \A x \in Evaluators : n \in ev'[x].todo => n \in ev[x].todo /\ LevelFor(x, n)' = LevelFor(x, n)
    BY <1>1, IdleType DEF LevelFor
  <2>3. Free(n) => Free(n)'
    BY <1>2, <1>3, <1>4, <2>1, <2>2 DEF Free
  <2>4. Bit(Free(n)) <= Bit(Free(n))'
    BY <2>3 DEF Bit
  <2> QED BY <1>2, <1>3, <1>5, <1>6, <2>1, <2>4 DEF Paid
<1> QED BY <1>7, <1>8

\* A step of an evaluation about another node, and the rows of other nodes.
LEMMA OthersPaid ==
  ASSUME TypeOK, Sound, Crowd, NEW n \in Nodes, Paid(n), NEW m \in Nodes \ {n},
         \/ Report(m) \/ FallSilent(m) \/ DeleteNode(m)
         \/ \E b \in BOOLEAN : UpsertOfflineSetting(m, b)
         \/ \E e \in Evaluators : Notify(e, m) \/ (SetOfflineState(e) /\ ev[e].node = m)
  PROVE  Paid(n)'
<1>1. ASSUME ev' = ev PROVE Unmoved(n)
  BY <1>1 DEF Unmoved
<1>2. CASE Report(m) \/ \E b \in BOOLEAN : UpsertOfflineSetting(m, b)
  BY <1>1, <1>2, RowDoes, UnmovedPaid
<1>3. CASE FallSilent(m)
  BY <1>1, <1>3, UnmovedPaid DEF FallSilent
<1>4. CASE DeleteNode(m)
  BY <1>1, <1>4, DeleteDoes, UnmovedPaid
<1>5. ASSUME NEW e \in Evaluators, Notify(e, m) PROVE Paid(n)'
  <2>1. /\ \A x \in Evaluators \ {e} : ev'[x] = ev[x]
        /\ ev[e].pc = "notify"
        /\ ev'[e].pc = "write" /\ ev'[e].node = m
        /\ ev'[e].todo = ev[e].todo \ {m} /\ ev'[e].down = ev[e].down
    BY <1>5, NotifyDoes
  <2>2. Unmoved(n)
    BY <2>1 DEF Unmoved
  <2>3. UNCHANGED <<setting, faults, overlaps>> /\ pages'[n] = pages[n]
    BY <1>5 DEF Notify, TypeOK
  <2> QED BY <2>2, <2>3, UnmovedPaid
<1>6. ASSUME NEW e \in Evaluators, SetOfflineState(e), ev[e].node = m PROVE Paid(n)'
  <2>1. /\ \A x \in Evaluators \ {e} : ev'[x] = ev[x]
        /\ ev[e].pc = "write"
        /\ \/ ev[e].todo = {} /\ ev'[e] = Idle
           \/ /\ ev'[e].pc = "notify"
              /\ ev'[e].todo = ev[e].todo /\ ev'[e].down = ev[e].down
    BY <1>6, WriteDoes
  <2>2. Unmoved(n)
    BY <1>6, <2>1, IdleType DEF Unmoved
  <2>3. setting'[n] = setting[n]
    BY <1>6, FlagDoes
  <2>4. UNCHANGED <<pages, faults, overlaps>>
    BY <1>6 DEF SetOfflineState
  <2> QED BY <2>2, <2>3, <2>4, UnmovedPaid
<1> QED BY <1>2, <1>3, <1>4, <1>5, <1>6

LEMMA PaidStep ==
  ASSUME TypeOK, Sound, Crowd, NEW n \in Nodes, Paid(n), [Next]_vars PROVE Paid(n)'
<1>1. CASE UNCHANGED vars
  <2>1. Unmoved(n)
    BY <1>1 DEF Unmoved, vars
  <2> QED BY <1>1, <2>1, UnmovedPaid DEF vars
<1>2. ASSUME NEW m \in Nodes,
             \/ Report(m) \/ FallSilent(m) \/ DeleteNode(m)
             \/ \E b \in BOOLEAN : UpsertOfflineSetting(m, b)
      PROVE  Paid(n)'
  <2>1. CASE m # n
    BY <1>2, <2>1, OthersPaid
  <2>2. CASE m = n /\ FallSilent(m)
    <3>1. UNCHANGED <<setting, ev, pages, faults, overlaps>>
      BY <2>2 DEF FallSilent
    <3>2. Unmoved(n)
      BY <3>1 DEF Unmoved
    <3> QED BY <3>1, <3>2, UnmovedPaid
  <2>3. CASE m = n /\ DeleteNode(m)
    BY <2>3, DeleteDoes, DeletePaid
  <2>4. CASE m = n /\ (Report(m) \/ \E b \in BOOLEAN : UpsertOfflineSetting(m, b))
    BY <2>4, RowDoes, RowPaid
  <2> QED BY <1>2, <2>1, <2>2, <2>3, <2>4
<1>3. ASSUME NEW e \in Evaluators, Start(e) \/ ReadSettings(e) \/ Fail(e) PROVE Paid(n)'
  BY <1>3, StartPaid, ReadPaid, FailPaid
<1>4. ASSUME NEW e \in Evaluators, NEW m \in Nodes, Notify(e, m) PROVE Paid(n)'
  <2>1. CASE m = n
    BY <1>4, <2>1, NotifyPaid
  <2>2. CASE m # n
    BY <1>4, <2>2, OthersPaid
  <2> QED BY <2>1, <2>2
<1>5. ASSUME NEW e \in Evaluators, SetOfflineState(e) PROVE Paid(n)'
  <2>1. ev[e].node \in Nodes
    BY <1>5 DEF Sound, SetOfflineState
  <2>2. CASE ev[e].node = n
    BY <1>5, <2>2, WritePaid
  <2>3. CASE ev[e].node # n
    BY <1>5, <2>1, <2>3, OthersPaid
  <2> QED BY <2>2, <2>3
<1> QED BY <1>1, <1>2, <1>3, <1>4, <1>5 DEF Next, Proceed

LEMMA OfflineStep == OfflineInv /\ [Next]_vars => OfflineInv'
  BY TypesStep, SoundStep, CrowdStep, PaidStep DEF OfflineInv

LEMMA PaidImplies == OfflineInv => RepeatsOnlyFromFaultsAndOverlaps
<1> SUFFICES ASSUME OfflineInv, NEW n \in Nodes PROVE Cardinality(Repeats(n)) <= faults + overlaps
  BY DEF RepeatsOnlyFromFaultsAndOverlaps
<1>1. TypeOK /\ Sound /\ Crowd /\ Paid(n)
  BY DEF OfflineInv
<1>2. /\ Cardinality(Repeats(n)) \in Nat /\ Cardinality(Facing(n)) \in Nat
      /\ Bit(Astray(n)) \in 0 .. 1 /\ Bit(Free(n)) \in 0 .. 1
      /\ IsFiniteSet(Facing(n)) /\ faults \in Nat /\ overlaps \in Nat
  BY <1>1, Amounts
<1>3. Bit(Free(n)) <= Cardinality(Facing(n))
  <2>1. CASE Free(n)
    <3>1. Facing(n) # {}
      BY <2>1 DEF Free
    <3>2. Cardinality(Facing(n)) # 0
      BY <1>2, <3>1, FS_EmptySet
    <3> QED BY <1>2, <3>2
  <2>2. CASE ~Free(n)
    BY <1>2, <2>2 DEF Bit
  <2> QED BY <2>1, <2>2
<1> QED BY <1>1, <1>2, <1>3 DEF Paid

\* The types hold in every reachable state.
THEOREM OfflineTypesHold == Spec => []TypeOK
<1>1. OfflineInv => TypeOK
  BY DEF OfflineInv
<1> QED BY <1>1, InitOffline, OfflineStep, PTL DEF Spec

\* However evaluations overlap and wherever they die, the repeated pages of a
\* node are never more than the evaluations that failed or overlapped.
THEOREM RepeatsArePaidFor == Spec => []RepeatsOnlyFromFaultsAndOverlaps
<1> QED BY InitOffline, OfflineStep, PaidImplies, PTL DEF Spec

-----------------------------------------------------------------------------
(* The pager's view *)

\* Alerted and PagesOfLife of one node.
AlertedAt(n) ==
  /\ Undisturbed /\ setting[n].exists
  /\ \/ \E e \in Evaluators : n \in ev[e].todo /\ LevelFor(e, n) = "online"
     \/ \E e \in Told(n) : ev[e].level = "offline"
     \/ /\ \A e \in Evaluators : n \notin ev[e].todo
        /\ Told(n) = {} /\ setting[n].offline

PagesAt(n) == IF Undisturbed /\ setting[n].exists THEN pages[n] ELSE <<>>

NodeByNode ==
  /\ Alerted = [n \in Nodes |-> AlertedAt(n)]
  /\ PagesOfLife = [n \in Nodes |-> PagesAt(n)]

LEMMA Views == Sound => NodeByNode
<1> SUFFICES ASSUME Sound PROVE NodeByNode
  OBVIOUS
<1>1. \A n \in Nodes, e \in Evaluators : ev[e].node = n <=> e \in Told(n)
  BY NodesAssumption DEF Sound, Told
<1>2. ASSUME NEW n \in Nodes PROVE Alerted[n] = AlertedAt(n)
  <2>1. (\E e \in Evaluators : ev[e].node = n /\ ev[e].level = "offline")
          <=> (\E e \in Told(n) : ev[e].level = "offline")
    BY <1>1 DEF Told
  <2>2. (\A e \in Evaluators : n \notin ev[e].todo /\ ev[e].node # n)
          <=> (\A e \in Evaluators : n \notin ev[e].todo) /\ Told(n) = {}
    BY <1>1 DEF Told
  <2>3. Alerted[n] <=> AlertedAt(n)
    BY <2>1, <2>2 DEF Alerted, AlertedAt
  <2>4. Alerted[n] \in BOOLEAN /\ AlertedAt(n) \in BOOLEAN
    BY DEF Alerted, AlertedAt
  <2> QED BY <2>3, <2>4
<1>3. Alerted = [n \in Nodes |-> Alerted[n]]
  BY DEF Alerted
<1>4. PagesOfLife = [n \in Nodes |-> PagesAt(n)]
  BY DEF PagesOfLife, PagesAt
<1> QED BY <1>2, <1>3, <1>4 DEF NodeByNode

LEMMA AlertedBoolean == \A n \in Nodes : AlertedAt(n) \in BOOLEAN
  BY DEF AlertedAt

\* Without an overlap there is one evaluation at a time.
LEMMA Alone ==
  ASSUME TypeOK, Crowd, Undisturbed, NEW e \in Evaluators, NEW f \in Evaluators,
         ev[e].pc # "idle", ev[f].pc # "idle"
  PROVE  e = f
<1>1. IsFiniteSet(Active) /\ Cardinality(Active) <= 1 /\ e \in Active /\ f \in Active
  BY DEF Crowd, Undisturbed, Active
<1>2. Cardinality(Active) \in Nat
  BY <1>1, FS_CardinalityType
<1>3. Cardinality(Active) # 0
  BY <1>1, FS_EmptySet
<1>4. Cardinality(Active) = 1
  BY <1>1, <1>2, <1>3
<1>5. PICK x : Active = {x}
  BY <1>1, <1>4, FS_Singleton
<1> QED BY <1>1, <1>5

\* A step that moves nothing of n is none for the pager.
LEMMA SameView ==
  ASSUME NEW n \in Nodes, Undisturbed, Undisturbed', pages'[n] = pages[n],
         setting'[n].exists = setting[n].exists, setting'[n].offline = setting[n].offline,
         \A e \in Evaluators :
           /\ n \in ev'[e].todo <=> n \in ev[e].todo
           /\ n \in ev[e].todo => ev'[e].down = ev[e].down
           /\ ev'[e].pc = "write" /\ ev'[e].node = n <=> ev[e].pc = "write" /\ ev[e].node = n
           /\ ev[e].pc = "write" /\ ev[e].node = n => ev'[e].level = ev[e].level
  PROVE  AlertedAt(n)' = AlertedAt(n) /\ PagesAt(n)' = PagesAt(n)
<1>1. Told(n)' = Told(n) /\ \A e \in Told(n) : ev'[e].level = ev[e].level
  BY DEF Told
<1>2. \A e \in Evaluators : n \in ev[e].todo => LevelFor(e, n)' = LevelFor(e, n)
  BY DEF LevelFor
<1>3. AlertedAt(n)' <=> AlertedAt(n)
  BY <1>1, <1>2 DEF AlertedAt
<1>4. AlertedAt(n)' \in BOOLEAN /\ AlertedAt(n) \in BOOLEAN
  BY DEF AlertedAt
<1> QED BY <1>3, <1>4 DEF PagesAt

\* What the pager makes of it.
LEMMA NothingSeen ==
  ASSUME Sound, Sound', \A n \in Nodes : AlertedAt(n)' = AlertedAt(n) /\ PagesAt(n)' = PagesAt(n)
  PROVE  UNCHANGED <<Alerted, PagesOfLife>>
<1>1. NodeByNode /\ NodeByNode'
  BY Views, PTL
<1> QED BY <1>1 DEF NodeByNode

LEMMA ForgottenSeen ==
  ASSUME Sound, Sound', NEW q \in SUBSET Nodes,
         \A n \in Nodes \ q : AlertedAt(n)' = AlertedAt(n) /\ PagesAt(n)' = PagesAt(n),
         \A n \in q : PagesAt(n)' = <<>>
  PROVE  P!Next
<1>0. NodeByNode /\ NodeByNode'
  BY Views, PTL
<1>1. /\ Alerted' = [n \in Nodes |-> AlertedAt(n)']
      /\ PagesOfLife' = [n \in Nodes |-> PagesAt(n)']
      /\ Alerted = [n \in Nodes |-> AlertedAt(n)]
      /\ PagesOfLife = [n \in Nodes |-> PagesAt(n)]
  BY <1>0 DEF NodeByNode
<1>2. PagesOfLife' = [s \in Nodes |-> IF s \in q THEN <<>> ELSE PagesOfLife[s]]
  BY <1>1
<1>3. \A n \in Nodes : AlertedAt(n)' \in BOOLEAN
  BY DEF AlertedAt
<1>4. Alerted' \in [Nodes -> BOOLEAN]
  BY <1>1, <1>3
<1>5. \A s \in Nodes \ q : Alerted'[s] = Alerted[s]
  BY <1>1
<1>6. P!Forget(q)
  BY <1>2, <1>4, <1>5 DEF P!Forget
<1> QED BY <1>6 DEF P!Next

LEMMA PageSeen ==
  ASSUME Sound, Sound', NEW n \in Nodes,
         \A m \in Nodes \ {n} : AlertedAt(m)' = AlertedAt(m) /\ PagesAt(m)' = PagesAt(m),
         \/ ~AlertedAt(n) /\ AlertedAt(n)' /\ PagesAt(n)' = Append(PagesAt(n), "offline")
         \/ AlertedAt(n) /\ ~AlertedAt(n)' /\ PagesAt(n)' = Append(PagesAt(n), "online")
  PROVE  P!Next
<1>0. NodeByNode /\ NodeByNode'
  BY Views, PTL
<1>1. /\ Alerted' = [m \in Nodes |-> AlertedAt(m)']
      /\ PagesOfLife' = [m \in Nodes |-> PagesAt(m)']
      /\ Alerted = [m \in Nodes |-> AlertedAt(m)]
      /\ PagesOfLife = [m \in Nodes |-> PagesAt(m)]
  BY <1>0 DEF NodeByNode
<1>2. AlertedAt(n)' \in BOOLEAN /\ AlertedAt(n) \in BOOLEAN
  BY DEF AlertedAt
<1>3. ASSUME NEW b \in BOOLEAN, AlertedAt(n)' = b, NEW level, PagesAt(n)' = Append(PagesAt(n), level)
      PROVE  /\ Alerted' = [Alerted EXCEPT ![n] = b]
             /\ PagesOfLife' = [PagesOfLife EXCEPT ![n] = Append(PagesOfLife[n], level)]
  BY <1>1, <1>3
<1>4. CASE ~AlertedAt(n) /\ AlertedAt(n)' /\ PagesAt(n)' = Append(PagesAt(n), "offline")
  <2>1. AlertedAt(n)' = TRUE
    BY <1>2, <1>4
  <2>2. /\ Alerted' = [Alerted EXCEPT ![n] = TRUE]
        /\ PagesOfLife' = [PagesOfLife EXCEPT ![n] = Append(PagesOfLife[n], "offline")]
    BY <1>3, <1>4, <2>1
  <2>3. ~Alerted[n]
    BY <1>1, <1>4
  <2>4. P!Raise(n)
    BY <2>2, <2>3 DEF P!Raise, P!Page
  <2> QED BY <2>4 DEF P!Next
<1>5. CASE AlertedAt(n) /\ ~AlertedAt(n)' /\ PagesAt(n)' = Append(PagesAt(n), "online")
  <2>1. AlertedAt(n)' = FALSE
    BY <1>2, <1>5
  <2>2. /\ Alerted' = [Alerted EXCEPT ![n] = FALSE]
        /\ PagesOfLife' = [PagesOfLife EXCEPT ![n] = Append(PagesOfLife[n], "online")]
    BY <1>3, <1>5, <2>1
  <2>3. Alerted[n]
    BY <1>1, <1>5
  <2>4. P!Clear(n)
    BY <2>2, <2>3 DEF P!Clear, P!Page
  <2> QED BY <2>4 DEF P!Next
<1> QED BY <1>4, <1>5

\* The decisions: whoever is to be paged has a flag that says the opposite.
LEMMA ReadSeen ==
  ASSUME TypeOK, Sound, Crowd, Undisturbed, NEW e \in Evaluators, ReadSettings(e), NEW n \in Nodes
  PROVE  AlertedAt(n)' = AlertedAt(n) /\ PagesAt(n)' = PagesAt(n)
<1>1. /\ \A x \in Evaluators \ {e} : ev'[x] = ev[x]
      /\ ev[e].pc = "settings"
      /\ \/ ev'[e] = Idle
         \/ /\ ev'[e].pc = "notify" /\ ev'[e].down = ev[e].down
            /\ ev'[e].todo = {m \in ev[e].nodes : NeedsPage(setting[m], m \in ev[e].down)}
  BY ReadDoes
<1>2. UNCHANGED <<setting, pages, faults, overlaps>> /\ ev[e].todo = {}
  BY <1>1 DEF ReadSettings, Sound
<1>3. \A x \in Evaluators \ {e} : ev[x].pc = "idle" /\ ev[x].todo = {}
  BY <1>1, Alone DEF Sound
<1>4. Undisturbed' /\ ev'[e].pc \in {"idle", "notify"}
  BY <1>1, <1>2, IdleType DEF Undisturbed
<1>5. CASE n \notin ev'[e].todo
  BY <1>1, <1>2, <1>4, <1>5, SameView
<1>6. CASE n \in ev'[e].todo
  <2>1. ev'[e].down = ev[e].down /\ NeedsPage(setting[n], n \in ev[e].down)
    BY <1>1, <1>6, IdleType
  <2>2. Told(n) = {} /\ Told(n)' = {}
    BY <1>1, <1>3, <1>4 DEF Told
  <2>3. AlertedAt(n) <=> setting[n].offline
    BY <1>2, <1>3, <2>1, <2>2 DEF AlertedAt, NeedsPage
  <2>4. AlertedAt(n)' <=> LevelFor(e, n)' = "online"
    BY <1>1, <1>2, <1>3, <1>4, <1>6, <2>1, <2>2 DEF AlertedAt, NeedsPage
  <2>5. LevelFor(e, n)' = "online" <=> setting[n].offline
    <3>1. setting[n].offline \in BOOLEAN
      BY DEF TypeOK, Setting
    <3> QED BY <2>1, <3>1 DEF LevelFor, NeedsPage
  <2>6. AlertedAt(n)' \in BOOLEAN /\ AlertedAt(n) \in BOOLEAN
    BY DEF AlertedAt
  <2> QED BY <1>2, <1>4, <2>3, <2>4, <2>5, <2>6 DEF PagesAt
<1> QED BY <1>5, <1>6

\* The page: a raise of what does not stand, or a clear of what does.
LEMMA NotifySeen ==
  ASSUME TypeOK, Sound, Crowd, Sound', Undisturbed, NEW e \in Evaluators, NEW n \in Nodes, Notify(e, n)
  PROVE  P!Next \/ UNCHANGED <<Alerted, PagesOfLife>>
<1> DEFINE level == LevelFor(e, n)
<1>1. /\ \A x \in Evaluators \ {e} : ev'[x] = ev[x]
      /\ ev[e].pc = "notify" /\ n \in ev[e].todo
      /\ ev'[e].pc = "write" /\ ev'[e].node = n /\ ev'[e].level = level
      /\ ev'[e].todo = ev[e].todo \ {n} /\ ev'[e].down = ev[e].down
  BY NotifyDoes
<1>2. /\ UNCHANGED <<setting, faults, overlaps>> /\ level \in Levels
      /\ pages' = [pages EXCEPT ![n] = Append(pages[n], level)]
  BY LevelsOf DEF Notify
<1>3. Undisturbed'
  BY <1>2 DEF Undisturbed
<1>4. ASSUME NEW m \in Nodes \ {n} PROVE AlertedAt(m)' = AlertedAt(m) /\ PagesAt(m)' = PagesAt(m)
  <2>1. pages'[m] = pages[m]
    BY <1>2 DEF TypeOK
  <2> QED BY <1>1, <1>2, <1>3, <2>1, SameView
<1>5. \A x \in Evaluators \ {e} : ev[x].pc = "idle" /\ ev[x].todo = {}
  BY <1>1, Alone DEF Sound
<1>6. Told(n) = {} /\ Told(n)' = {e}
  BY <1>1, <1>5 DEF Told
<1>7. CASE ~setting[n].exists
  <2>1. AlertedAt(n)' = AlertedAt(n) /\ PagesAt(n)' = PagesAt(n)
    BY <1>2, <1>7 DEF AlertedAt, PagesAt
  <2> QED BY <1>4, <2>1, NothingSeen
<1>8. CASE setting[n].exists
  <2>1. PagesAt(n)' = Append(PagesAt(n), level)
    <3>1. pages'[n] = Append(pages[n], level)
      BY <1>2 DEF TypeOK
    <3> QED BY <1>2, <1>3, <1>8, <3>1 DEF PagesAt
  <2>2. AlertedAt(n) <=> level = "online"
    BY <1>1, <1>5, <1>6, <1>8 DEF AlertedAt
  <2>3. AlertedAt(n)' <=> level = "offline"
    <3>1. \A x \in Evaluators : n \notin ev'[x].todo
      BY <1>1, <1>5
    <3> QED BY <1>1, <1>2, <1>3, <1>6, <1>8, <3>1 DEF AlertedAt
  <2>4. level = "offline" \/ level = "online"
    BY <1>2 DEF Levels
  <2> HIDE DEF level
  <2> QED BY <1>4, <2>1, <2>2, <2>3, <2>4, PageSeen
<1> QED BY <1>7, <1>8

\* The flag follows the page.
LEMMA WriteSeen ==
  ASSUME TypeOK, Sound, Crowd, Undisturbed, NEW e \in Evaluators, SetOfflineState(e), NEW n \in Nodes
  PROVE  AlertedAt(n)' = AlertedAt(n) /\ PagesAt(n)' = PagesAt(n)
<1>1. /\ \A x \in Evaluators \ {e} : ev'[x] = ev[x]
      /\ ev[e].pc = "write"
      /\ \/ ev[e].todo = {} /\ ev'[e] = Idle
         \/ /\ ev'[e].pc = "notify" /\ ev'[e].node = ""
            /\ ev'[e].todo = ev[e].todo /\ ev'[e].down = ev[e].down
  BY WriteDoes
<1>2. /\ UNCHANGED <<pages, faults, overlaps>> /\ ev[e].level \in Levels
      /\ ev[e].node \in Nodes /\ ev[e].node \notin ev[e].todo
  BY <1>1 DEF SetOfflineState, Sound
<1>3. Undisturbed' /\ ev'[e].pc \in {"idle", "notify"}
  BY <1>1, <1>2, IdleType DEF Undisturbed
<1>4. CASE n # ev[e].node
  <2>1. setting'[n] = setting[n]
    BY <1>2, <1>4, FlagDoes
  <2>2. \A x \in Evaluators : n \in ev'[x].todo <=> n \in ev[x].todo
    BY <1>1, IdleType
  <2>3. \A x \in Evaluators : n \in ev[x].todo => ev'[x].down = ev[x].down
    BY <1>1
  <2> QED BY <1>1, <1>2, <1>3, <1>4, <2>1, <2>2, <2>3, SameView
<1>5. CASE n = ev[e].node
  <2>1. /\ setting'[n].exists = setting[n].exists
        /\ setting[n].exists => setting'[n].offline = (ev[e].level = "offline")
    BY <1>2, <1>5, FlagDoes
  <2>2. \A x \in Evaluators \ {e} : ev[x].pc = "idle" /\ ev[x].todo = {}
    BY <1>1, Alone DEF Sound
  <2>3. Told(n) = {e} /\ Told(n)' = {}
    BY <1>1, <1>3, <1>5, <2>2 DEF Told
  <2>4. \A x \in Evaluators : n \notin ev[x].todo /\ n \notin ev'[x].todo
    BY <1>1, <1>2, <1>5, <2>2, IdleType
  <2>5. AlertedAt(n) <=> setting[n].exists /\ ev[e].level = "offline"
    BY <2>3, <2>4 DEF AlertedAt
  <2>6. AlertedAt(n)' <=> setting[n].exists /\ ev[e].level = "offline"
    BY <1>3, <2>1, <2>3, <2>4 DEF AlertedAt
  <2>7. AlertedAt(n)' \in BOOLEAN /\ AlertedAt(n) \in BOOLEAN
    BY DEF AlertedAt
  <2> QED BY <1>2, <1>3, <2>1, <2>5, <2>6, <2>7 DEF PagesAt
<1> QED BY <1>4, <1>5

LEMMA PagerStep ==
  OfflineInv /\ OfflineInv' /\ [Next]_vars => [P!Next]_<<Alerted, PagesOfLife>>
<1> SUFFICES ASSUME OfflineInv, OfflineInv', [Next]_vars
             PROVE  P!Next \/ UNCHANGED <<Alerted, PagesOfLife>>
  OBVIOUS
<1>0. TypeOK /\ Sound /\ Crowd /\ Sound' /\ faults \in Nat /\ overlaps \in Nat
  BY DEF OfflineInv, TypeOK
<1>1. CASE ~Undisturbed'
  <2>1. \A n \in Nodes : PagesAt(n)' = <<>>
    BY <1>1 DEF PagesAt
  <2> QED BY <1>0, <2>1, ForgottenSeen
<1>2. CASE Undisturbed'
  <2>0. faults' \in {faults, faults + 1} /\ overlaps' \in {overlaps, overlaps + 1}
    <3>1. ASSUME NEW e \in Evaluators, Start(e) \/ Proceed(e) \/ Fail(e)
          PROVE  faults' \in {faults, faults + 1} /\ overlaps' \in {overlaps, overlaps + 1}
      BY <3>1 DEF Proceed, Start, ReadSettings, Notify, SetOfflineState, Fail
    <3>2. CASE \/ UNCHANGED vars
               \/ \E n \in Nodes : \/ Report(n) \/ FallSilent(n) \/ DeleteNode(n)
                                   \/ \E b \in BOOLEAN : UpsertOfflineSetting(n, b)
      BY <3>2 DEF vars, Report, FallSilent, DeleteNode, UpsertOfflineSetting
    <3> QED BY <3>1, <3>2 DEF Next
  <2>1. Undisturbed
    BY <1>0, <1>2, <2>0 DEF Undisturbed
  <2>2. ASSUME UNCHANGED <<setting, ev, pages>> PROVE UNCHANGED <<Alerted, PagesOfLife>>
    <3>1. \A n \in Nodes : AlertedAt(n)' = AlertedAt(n) /\ PagesAt(n)' = PagesAt(n)
      BY <1>2, <2>1, <2>2, SameView
    <3> QED BY <1>0, <3>1, NothingSeen
  <2>3. ASSUME NEW n \in Nodes, ev' = ev,
               \A m \in Nodes \ {n} : setting'[m] = setting[m] /\ pages'[m] = pages[m],
               \/ ~setting'[n].exists \/ pages'[n] = <<>>
               \/ /\ setting'[n].exists = setting[n].exists
                  /\ setting'[n].offline = setting[n].offline /\ pages'[n] = pages[n]
        PROVE  P!Next \/ UNCHANGED <<Alerted, PagesOfLife>>
    <3>1. \A m \in Nodes \ {n} : AlertedAt(m)' = AlertedAt(m) /\ PagesAt(m)' = PagesAt(m)
      BY <1>2, <2>1, <2>3, SameView
    <3>2. CASE ~setting'[n].exists \/ pages'[n] = <<>>
      <4>1. PagesAt(n)' = <<>>
        BY <3>2 DEF PagesAt
      <4>2. {n} \in SUBSET Nodes /\ \A x \in {n} : PagesAt(x)' = <<>>
        BY <4>1
      <4>3. P!Next
        BY <1>0, <3>1, <4>2, ForgottenSeen
      <4> QED BY <4>3
    <3>3. CASE /\ setting'[n].exists = setting[n].exists
               /\ setting'[n].offline = setting[n].offline /\ pages'[n] = pages[n]
      <4>1. AlertedAt(n)' = AlertedAt(n) /\ PagesAt(n)' = PagesAt(n)
        BY <1>2, <2>1, <2>3, <3>3, SameView
      <4> QED BY <1>0, <3>1, <4>1, NothingSeen
    <3> QED BY <2>3, <3>2, <3>3
  <2>4. CASE UNCHANGED vars \/ \E n \in Nodes : FallSilent(n)
    BY <2>2, <2>4 DEF vars, FallSilent
  <2>5. ASSUME NEW n \in Nodes, Report(n) \/ \E b \in BOOLEAN : UpsertOfflineSetting(n, b)
        PROVE  P!Next \/ UNCHANGED <<Alerted, PagesOfLife>>
    <3>1. /\ \A m \in Nodes \ {n} : setting'[m] = setting[m] /\ pages'[m] = pages[m]
          /\ setting'[n].exists
          /\ IF setting[n].exists
             THEN setting'[n].offline = setting[n].offline /\ pages'[n] = pages[n]
             ELSE pages'[n] = <<>>
          /\ ev' = ev /\ setting' \in [Nodes -> Setting]
      BY <1>0, <2>5, RowDoes
    <3>2. setting'[n].exists \in BOOLEAN /\ setting[n].exists \in BOOLEAN
      BY <1>0, <3>1 DEF TypeOK, Setting
    <3>3. CASE setting[n].exists
      BY <2>3, <3>1, <3>2, <3>3
    <3>4. CASE ~setting[n].exists
      BY <2>3, <3>1, <3>4
    <3> QED BY <3>3, <3>4
  <2>6. ASSUME NEW n \in Nodes, DeleteNode(n) PROVE P!Next \/ UNCHANGED <<Alerted, PagesOfLife>>
    BY <1>0, <2>3, <2>6, DeleteDoes
  <2>7. ASSUME NEW e \in Evaluators, Start(e) PROVE UNCHANGED <<Alerted, PagesOfLife>>
    <3>1. /\ \A x \in Evaluators \ {e} : ev'[x] = ev[x]
          /\ ev[e].pc = "idle" /\ ev[e].todo = {}
          /\ ev'[e].pc = "settings" /\ ev'[e].todo = {} /\ UNCHANGED <<setting, pages>>
      BY <1>0, <2>7, StartDoes DEF Sound, Start
    <3>2. \A n \in Nodes : AlertedAt(n)' = AlertedAt(n) /\ PagesAt(n)' = PagesAt(n)
      BY <1>2, <2>1, <3>1, SameView
    <3> QED BY <1>0, <3>2, NothingSeen
  <2>8. ASSUME NEW e \in Evaluators, ReadSettings(e) \/ SetOfflineState(e)
        PROVE  UNCHANGED <<Alerted, PagesOfLife>>
    <3>1. \A n \in Nodes : AlertedAt(n)' = AlertedAt(n) /\ PagesAt(n)' = PagesAt(n)
      BY <1>0, <2>1, <2>8, ReadSeen, WriteSeen
    <3> QED BY <1>0, <3>1, NothingSeen
  <2>9. ASSUME NEW e \in Evaluators, NEW n \in Nodes, Notify(e, n)
        PROVE  P!Next \/ UNCHANGED <<Alerted, PagesOfLife>>
    BY <1>0, <2>1, <2>9, NotifySeen
  <2>10. ASSUME NEW e \in Evaluators, Fail(e) PROVE FALSE
    BY <1>0, <1>2, <2>10 DEF Fail, Undisturbed
  <2> QED BY <2>4, <2>5, <2>6, <2>7, <2>8, <2>9, <2>10 DEF Next, Proceed
<1> QED BY <1>1, <1>2

LEMMA PagerInit == Init => P!Init
<1> SUFFICES ASSUME Init PROVE P!Init
  OBVIOUS
<1>1. OfflineInv /\ Sound
  BY InitOffline DEF OfflineInv
<1>2. NodeByNode
  BY <1>1, Views
<1>3. ASSUME NEW n \in Nodes PROVE AlertedAt(n) = FALSE /\ PagesAt(n) = <<>>
  <2>1. ~setting[n].offline /\ pages[n] = <<>>
    BY DEF Init, Bootstrapped
  <2>2. Told(n) = {} /\ \A e \in Evaluators : n \notin ev[e].todo
    BY IdleType DEF Init, Told
  <2> QED BY <2>1, <2>2 DEF AlertedAt, PagesAt
<1> QED BY <1>2, <1>3 DEF NodeByNode, P!Init

\* While nothing fails or overlaps, evaluateOffline implements the pager: it
\* raises what does not stand, clears what does, and repeats nothing.
THEOREM OfflinePages == Spec => ImplementsPager
<1> QED BY InitOffline, OfflineStep, PagerInit, PagerStep, PTL DEF Spec, P!Spec, ImplementsPager
=============================================================================
