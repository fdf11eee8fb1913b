------------------------------ MODULE Settings ------------------------------
(* The generated secrets of app_settings: the shared node token            *)
(* (master/lib/auth.ts) and the key and tweak of the opaque ids            *)
(* (master/lib/opaqueid.ts), read and written through the envelope of      *)
(* master/lib/db.ts by the requests of master/app/api/settings/route.ts,   *)
(* in several server processes that each keep the cipher and the schema    *)
(* check in memory.                                                        *)
(*                                                                         *)
(* A value is a number that nobody holds yet when it is drawn; 0 is the    *)
(* absent row, the null of getSetting and the dropped memo.  Environment   *)
(* overrides of the cipher, and settings that are only typed in, are left  *)
(* out.                                                                    *)
EXTENDS OpaqueId, Sequences, FiniteSets

CONSTANTS Requests,      \* requests in flight at the same time
          Procs,         \* server processes on the one database
          Routes,        \* Routes[r]: the processes the proxy sends r to
          MaxPosts,      \* bound: administrators' writes
          MaxFaults      \* bound: outages, restarts and changes of the secret key

ASSUME SettingsAssumption ==
  /\ IsFiniteSet(Requests) /\ IsFiniteSet(Procs) /\ Procs # {}
  /\ Routes \in [Requests -> SUBSET Procs]
  /\ MaxPosts \in Nat /\ MaxFaults \in Nat

NodeToken   == "nodeToken"
CipherKeys  == {"idCipherKey", "idCipherTweak"}
SettingKeys == CipherKeys \cup {NodeToken}
Cipher      == <<"idCipherKey", "idCipherTweak">>   \* in the order they are read

VARIABLES
  rows,     \* app_settings: each key's value, Sealed under another secret
  up,       \* whether the database answers
  schema,   \* schema[p]: the memo of ensureSchema in process p
  memo,     \* memo[p]: the cipher process p holds; zeros when it holds none
  req,      \* req[r]: the request r
  posts, faults,
  shown,    \* history: the shared token that pages show since it was last replaced; or 0
  torn      \* history: the keys written while someone relied on their old value

vars == <<rows, up, schema, memo, req, posts, faults, shown, torn>>

Sealed   == -1
NoCipher == [k \in CipherKeys |-> 0]
Idle     == [pc |-> "idle", proc |-> CHOOSE p \in Procs : TRUE, todo |-> <<>>,
             got |-> NoCipher, post |-> FALSE, refused |-> FALSE, cut |-> FALSE]

Init ==
  /\ rows = [k \in SettingKeys |-> 0]
  /\ up = TRUE
  /\ schema = [p \in Procs |-> "none"]
  /\ memo = [p \in Procs |-> NoCipher]
  /\ req = [r \in Requests |-> Idle]
  /\ posts = 0 /\ faults = 0 /\ shown = 0 /\ torn = {}

(***************************************************************************)
(* getSetting answers null for a row that another secret sealed; setSetting*)
(* upserts the row, sealed with the present one.                           *)
(***************************************************************************)
GetSetting(k) == IF rows[k] = Sealed THEN 0 ELSE rows[k]

SetSettingOnce(k, v) == IF rows[k] = 0 THEN [rows EXCEPT ![k] = v] ELSE rows
SetSetting(k, v)     == [rows EXCEPT ![k] = v]

\* What randomBytes can answer for k: a value nobody holds for it.
Fresh(k) == CHOOSE v \in 1 .. (Cardinality(Requests) + Cardinality(Procs) + 3) :
  /\ v # rows[k]
  /\ IF k = NodeToken THEN v # shown
     ELSE /\ \A p \in Procs : v # memo[p][k]
          /\ \A r \in Requests : v # req[r].got[k]

Held(p)      == memo[p] # NoCipher
Goto(r, pc)  == req' = [req EXCEPT ![r].pc = pc]
Wants(r)     == Head(req[r].todo)

\* Someone other than r answers with what k held before: another process, or
\* a request that has already looked k up.
ReliedOn(r, k) ==
  \/ k \in CipherKeys /\ \E p \in Procs \ {req[r].proc} : Held(p)
  \/ \E q \in Requests \ {r} :
       \/ k \in CipherKeys /\ req[q].got[k] # 0
       \/ req[q].pc = "generate" /\ Wants(q) = k

Write(r, k) ==
  /\ rows' = SetSetting(k, Fresh(k))
  /\ torn' = IF ReliedOn(r, k) THEN torn \cup {k} ELSE torn

(***************************************************************************)
(* ensureSchema runs the statements once per process; a failure clears the *)
(* memo, so that the next request tries again.                             *)
(***************************************************************************)
Entry(job) == IF job.post THEN "post" ELSE "lookup"

Begin(r, p, todo, job) ==
  /\ req[r].pc = "idle"
  /\ req' = [req EXCEPT ![r] = [Idle EXCEPT
       !.pc = IF schema[p] = "done" THEN Entry(job) ELSE "schema",
       !.proc = p, !.todo = todo, !.post = job.post,
       !.refused = job.refused, !.cut = job.cut]]
  /\ schema' = [schema EXCEPT ![p] = IF @ = "none" THEN "running" ELSE @]
  /\ UNCHANGED <<rows, up, memo, faults, shown, torn>>

Waiters(p) == {r \in Requests : req[r].pc = "schema" /\ req[r].proc = p}

SchemaRuns(p) ==
  /\ schema[p] = "running" /\ up
  /\ schema' = [schema EXCEPT ![p] = "done"]
  /\ req' = [r \in Requests |->
       IF r \in Waiters(p) THEN [req[r] EXCEPT !.pc = Entry(req[r])] ELSE req[r]]
  /\ UNCHANGED <<rows, up, memo, posts, faults, shown, torn>>

\* A promise that rejected once rejects whoever awaits it.
Rejects(p) == schema[p] = "failed" \/ (schema[p] = "running" /\ ~up)

AfterFailureKept(p) == "failed"
AfterFailure(p) == "none"

SchemaFails(p) ==
  /\ Rejects(p)
  /\ schema' = [schema EXCEPT ![p] = AfterFailure(p)]
  /\ req' = [r \in Requests |-> IF r \in Waiters(p) THEN Idle ELSE req[r]]
  /\ UNCHANGED <<rows, up, memo, posts, faults, shown, torn>>

(***************************************************************************)
(* GET /api/settings shows the shared token and the cipher's fingerprints; *)
(* the pages that list nodes need the cipher alone, the second half of it. *)
(***************************************************************************)
NoPost == [post |-> FALSE, refused |-> FALSE, cut |-> FALSE]
Page   == <<NodeToken, "idCipherKey", "idCipherTweak">>

GetPage(r, p) ==
  /\ Begin(r, p, Page, NoPost)
  /\ UNCHANGED posts

\* POST /api/settings.  A malformed version or a wrong password refuses the
\* request before the cipher is touched, a malformed tweak after the key is
\* written: refused and cut.
Post(r, p) ==
  /\ posts < MaxPosts
  /\ posts' = posts + 1
  /\ \E job \in {[post |-> TRUE, refused |-> a, cut |-> b] :
                   a, b \in BOOLEAN} \ {[post |-> TRUE, refused |-> TRUE, cut |-> TRUE]} :
       \E ids \in IF job.refused \/ job.cut THEN {Cipher} ELSE {<<>>, Cipher} :
         Begin(r, p, ids, job)

\* The body's fields are applied one after the other, none undone: the shared
\* token is replaced before the later fields are even looked at.
ApplyFields(r) ==
  /\ req[r].pc = "post" /\ up
  /\ \/ Write(r, NodeToken) /\ shown' = 0
     \/ UNCHANGED <<rows, torn, shown>>
  /\ req' = [req EXCEPT ![r] =
       IF req[r].refused THEN Idle
       ELSE IF req[r].todo = <<>> THEN [@ EXCEPT !.pc = "lookup", !.todo = Page]
       ELSE [@ EXCEPT !.pc = "write"]]
  /\ UNCHANGED <<up, schema, memo, posts, faults>>

\* setOpaqueIdConfig: the key, then the tweak, then the memo is dropped; a
\* malformed tweak throws in between.
WriteCipher(r) ==
  LET k == Wants(r)
  IN  /\ req[r].pc = "write" /\ up
      /\ IF k = "idCipherTweak" /\ req[r].cut
           THEN /\ req' = [req EXCEPT ![r] = Idle]
                /\ torn' = torn \cup {"idCipherKey"}
                /\ UNCHANGED rows
           ELSE /\ Write(r, k)
                /\ req' = [req EXCEPT ![r].todo = Tail(@),
                             ![r].pc = IF Len(req[r].todo) = 1 THEN "reload" ELSE @]
      /\ UNCHANGED <<up, schema, memo, posts, faults, shown>>

MemoKept(p) == memo[p]
Reloaded(p) == NoCipher

Reload(r) ==
  /\ req[r].pc = "reload"
  /\ memo' = [memo EXCEPT ![req[r].proc] = Reloaded(req[r].proc)]
  /\ req' = [req EXCEPT ![r].pc = "lookup", ![r].todo = Page]
  /\ UNCHANGED <<rows, up, schema, posts, faults, shown, torn>>

(***************************************************************************)
(* ensureNodeToken and cipher: take what is stored, or draw a value and    *)
(* store it.  The cipher comes from memory when the process holds one.     *)
(***************************************************************************)
Taken(r, v) ==
  LET rest == Tail(req[r].todo)
  IN  /\ req' = [req EXCEPT
           ![r].got = IF Wants(r) = NodeToken THEN @ ELSE [@ EXCEPT ![Wants(r)] = v],
           ![r].todo = rest,
           ![r].pc = IF rest = <<>> THEN "memoise" ELSE "lookup"]
      /\ shown' = IF Wants(r) = NodeToken /\ shown = 0 THEN v ELSE shown

FromMemory(r) == Wants(r) = "idCipherKey" /\ Held(req[r].proc)

UseMemo(r) ==
  /\ req[r].pc = "lookup" /\ FromMemory(r)
  /\ req' = [req EXCEPT ![r] = Idle]
  /\ UNCHANGED <<rows, up, schema, memo, posts, faults, shown, torn>>

Lookup(r) ==
  LET v == GetSetting(Wants(r))
  IN  /\ req[r].pc = "lookup" /\ ~FromMemory(r) /\ up
      /\ IF v # 0 THEN Taken(r, v)
         ELSE Goto(r, "generate") /\ UNCHANGED shown
      /\ UNCHANGED <<rows, up, schema, memo, posts, faults, torn>>

Generate(r) ==
  /\ req[r].pc = "generate" /\ up
  /\ Write(r, Wants(r))
  /\ Taken(r, Fresh(Wants(r)))
  /\ UNCHANGED <<up, schema, memo, posts, faults>>

MemoiseCipher(r) ==
  /\ req[r].pc = "memoise"
  /\ memo' = [memo EXCEPT ![req[r].proc] = req[r].got]
  /\ req' = [req EXCEPT ![r] = Idle]
  /\ UNCHANGED <<rows, up, schema, posts, faults, shown, torn>>

(***************************************************************************)
(* Faults.                                                                 *)
(***************************************************************************)
\* A query of r fails: the request answers with an error.  Between the two
\* writes of a new cipher that leaves half of it stored.
Fail(r) ==
  /\ ~up /\ req[r].pc \in {"post", "write", "lookup", "generate"}
  /\ ~(req[r].pc = "lookup" /\ FromMemory(r))
  /\ req' = [req EXCEPT ![r] = Idle]
  /\ torn' = IF req[r].pc = "write" /\ Wants(r) = "idCipherTweak"
               THEN torn \cup {"idCipherKey"} ELSE torn
  /\ UNCHANGED <<rows, up, schema, memo, posts, faults, shown>>

Outage  == up /\ faults < MaxFaults /\ up' = FALSE /\ faults' = faults + 1
           /\ UNCHANGED <<rows, schema, memo, req, posts, shown, torn>>
Restore == ~up /\ up' = TRUE
           /\ UNCHANGED <<rows, schema, memo, req, posts, faults, shown, torn>>

\* All processes restart, with the same secret or with a new one: nothing is
\* held in memory, and what was sealed before can no longer be read.
Redeploy ==
  /\ faults < MaxFaults /\ faults' = faults + 1
  /\ rows' \in {rows, [k \in SettingKeys |-> IF rows[k] = 0 THEN 0 ELSE Sealed]}
  /\ schema' = [p \in Procs |-> "none"]
  /\ memo' = [p \in Procs |-> NoCipher]
  /\ req' = [r \in Requests |-> Idle]
  /\ shown' = 0 /\ torn' = {}
  /\ UNCHANGED <<up, posts>>

Progress(r) ==
  ApplyFields(r) \/ WriteCipher(r) \/ Reload(r) \/ UseMemo(r)
  \/ Lookup(r) \/ Generate(r) \/ MemoiseCipher(r) \/ Fail(r)

Next ==
  \/ \E r \in Requests : \E p \in Routes[r] : GetPage(r, p) \/ Post(r, p)
  \/ \E r \in Requests : Progress(r)
  \/ \E p \in Procs : SchemaRuns(p) \/ SchemaFails(p)
  \/ Outage \/ Restore \/ Redeploy

\* The event loops run what is ready, and an outage ends; no request has to
\* arrive.
Fairness ==
  /\ \A p \in Procs : WF_vars(SchemaRuns(p) \/ SchemaFails(p))
  /\ \A r \in Requests : WF_vars(Progress(r))
  /\ WF_vars(Restore)

Spec == Init /\ [][Next]_vars /\ Fairness

(***************************************************************************)
(* Properties.                                                             *)
(***************************************************************************)
Request == [pc : {"idle", "schema", "post", "write", "reload", "lookup",
                  "generate", "memoise"},
            proc : Procs, todo : Seq(SettingKeys), got : [CipherKeys -> Nat],
            post : BOOLEAN, refused : BOOLEAN, cut : BOOLEAN]

\* Type of every variable.
TypeOK ==
  /\ rows \in [SettingKeys -> Nat \cup {Sealed}]
  /\ up \in BOOLEAN
  /\ schema \in [Procs -> {"none", "running", "done"}]
  /\ memo \in [Procs -> [CipherKeys -> Nat]]
  /\ req \in [Requests -> Request]
  /\ posts \in 0 .. MaxPosts /\ faults \in 0 .. MaxFaults
  /\ shown \in Nat /\ torn \subseteq SettingKeys

\* Nobody is in the middle of replacing the cipher.
NoRotation == \A r \in Requests : req[r].pc \notin {"write", "reload"}

\* The ids a process hands out are those every process will still decode after
\* a restart: its cipher is the stored one, unless a key was replaced while
\* another process or a load in progress relied on it, or only half of a new
\* cipher was stored (opaqueid.ts, cipher, setOpaqueIdConfig, reloadOpaqueId).
IdsSettled ==
  NoRotation /\ torn \cap CipherKeys = {}
    => \A p \in Procs : Held(p) => \A k \in CipherKeys : memo[p][k] = GetSetting(k)

\* The shared token on every settings page since it was last replaced is the
\* one agents are checked against, unless two requests raced to create it
\* (auth.ts, ensureNodeToken; db.ts, getSetting, setSetting).
ShownTokenStored ==
  shown # 0 /\ NodeToken \notin torn => GetSetting(NodeToken) = shown

\* What HMAC-SHA256 computes, for the purpose of a check: some function of the
\* key, the tweak, the round and the half.
RoundFunction(c) ==
  [i \in 0 .. 7 |-> [d \in Digit |->
     (c["idCipherKey"] * (d + 1) + c["idCipherTweak"] * i) % Radix]]

\* Whatever cipher a process comes to hold, the id it makes for a node leads
\* back to that node and to no other (opaqueid.ts, encodeNodeId, decodeNodeId).
IdsLeadBack ==
  \A r \in Requests :
    req[r].pc = "memoise" => RoundTrips(RoundFunction(req[r].got))

\* One failed schema check does not disable a process for good: a process that
\* keeps being asked comes to serve requests again (db.ts, ensureSchema).
SchemaRecovers ==
  \A p \in Procs : []<>(Waiters(p) # {}) => []<>(schema[p] = "done")
=============================================================================
