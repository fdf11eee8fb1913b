# A verification project for Wolf-Monitor

Wolf-Monitor is a server monitor: small Go agents (`node/`) report the metrics of their machines to a
Next.js master (`master/`) that stores them in Postgres, shows them, and sends alerts. This directory
holds TLA+ models of the system, the TLC configurations that check them on small instances, and proofs,
checked by TLAPS, of the properties that matter most. All paths below are relative to the root of the
repository.

The common theme of the system is that almost nothing is atomic. A report is stored by three
statements; an alert is paged first and recorded afterwards; the HTTP checks read one row, spend
seconds probing, and write the row back; a WebSocket upgrade checks its limits, waits for the
database, and then counts itself; a token is rotated by a SELECT and a DELETE; a switch on a page
moves before the server has heard of it. Several processes may share the database, evaluations of
alerts are started from three places, and a process may stop anywhere. The models keep every such gap
and abstract the data that passes through it.

## Inventory

| Component | Where | State it keeps | Operations | What is hard about it | What makes it correct |
|---|---|---|---|---|---|
| Report ingestion | `master/app/api/report/route.ts`, `master/lib/db.ts` `saveReport`, `deleteNode`; `node/main.go`, `node/collector`, `node/reporter` | `nodes`, `metrics_history`, `offline_settings`; per node the counter offset, the last counter, the boot time, the time of the last history row | a report (checks and clamps, upsert, claim and insert of history, bootstrap of the offline setting), deletion | reports of a node overlap and overtake; each statement commits on its own; deletion runs between them; the counter shrinks without a reboot and the boot time wobbles; numbers of any kind arrive | lifetime totals are not inflated; history rows keep their distance; a deletion is final; what is stored is in range |
| Evaluation schedule | `master/lib/monitoring.ts` `claimSlot`, `tryClaimSlot`, `maybeEvaluate` | a timestamp per slot in `app_settings`, a cache per process | claim the prune slot, claim the evaluation slot | processes claim at once, with clock readings taken before the round trip; the cache is read before and written after an await | one claim per interval; the cache never holds a due evaluation up for long |
| Offline alerts | `monitoring.ts` `evaluateOffline`, `setOfflineState`, `upsertOfflineSetting` | `offline_settings` | evaluate, edit, bootstrap, delete | page before flag; overlapping evaluations; stale reads | one page per transition; the flag ends up right |
| Load alerts | `monitoring.ts` `evaluateLoadAlerts`, rule CRUD | `alert_rules`, `alert_state` | evaluate, upsert and delete a rule, delete a node | pages before one batched write; a failing rule among others; two-statement deletion | reminders keep their distance; no orphan state; the state ends up right |
| HTTP liveness checks | `master/lib/http-check.ts`, `master/app/api/http-checks/route.ts` | targets and states in one JSON row | evaluate, replace the targets | read-modify-write of the whole row over many seconds, by two kinds of writers | every page is earned by the probes before it; repeats only from lost writes; status ends up right |
| Latency probes | `node/pinger/{runner,pinger}.go`, `master/app/api/{tasks,ping,ping-tasks}`, `monitoring.ts` ping part | the runner's tasks and buffer; `ping_tasks`, `ping_results` | refresh, probe, flush; store a batch in slices; edit and delete tasks; check a target, at the master and at the node | lost calls, lost answers, timeouts while the handler works, retries, partial inserts; one check written twice, in two languages | no sample lost to a failed call, duplicates only from retries, the runner converges on its assignment; what is accepted is probed |
| WebSocket server | `master/server.ts` | connection counters, token index, token cache, per-connection locals | upgrade, frame, heartbeat, close, revocation | an await between check and count; revocation crossing an upgrade; half-open clients | counters exact; revoked tokens out; half-open connections reaped |
| Accounts and sessions | `master/lib/auth.ts`, `lib/session.ts`, `app/api/auth/*` | `users`, `sessions`, `auth_attempts` | setup, login, logout, logout everywhere, the refresh of a session, pruning | two setups at once; attempts counted before and recorded after the password; a refresh nobody waits for | one first administrator; guesses bounded; a logout is final; a session in use lives |
| Node tokens | `master/lib/auth.ts`, `app/api/settings/route.ts` | `node_tokens` | mint, bind, claim, rotate, delete, announce | two first reports race to bind; a rotation is a SELECT and a DELETE | a binding is final; a deletion is announced |
| Settings, schema, id cipher | `master/lib/db.ts`, `lib/opaqueid.ts`, `app/api/settings/route.ts` | `app_settings` sealed under a secret; memos of cipher and schema check per process | read or generate the shared token and the cipher's key and tweak; replace them; run the schema check | processes generate at once, keep what they read, meet outages, and restart under another secret | ids handed out are decoded by all; the token shown is the one stored; a failed schema check is tried again |
| Opaque node ids | `master/lib/opaqueid.ts` | - | encode, decode | the network must be a bijection | decoding inverts encoding |
| Request rate limiter | `master/lib/ratelimit.ts` | a bucket per key, in an LRU cache | take a token | refill and eviction at the boundary | grants bounded by capacity and refill |
| Node self-update | `node/pinger/updater.go`, `node/install.sh` | time of the last attempt in memory and on disk, the binary, the unit, the service | attempt, fetch, verify, stop, move, write the unit, restart | the update ends the process that started it; the installer may die at every step, with the service stopped | attempts a cooldown apart; the service comes back; the wanted version runs in the end |
| Dashboard reads | `app/api/nodes`, `app/api/nodes/[id]/{history,latency}`, `app/api/ping-results`, `db.ts`, `monitoring.ts` | - | list, history, latency | guests and administrators share the code; slices and limits meet at boundaries | guests see no address; both feeds agree; the newest slice is there |
| Node naming, order, address and country | `app/api/nodes/[id]`, `app/api/nodes/order`, `master/lib/{geo,net}.ts`, `db.ts` | columns of `nodes`, the cache of lookups | report's lookup, name, pin a country, order | an outbound lookup between the read and the write of the row | the administrator's choice stands; a country has a source |
| Notification dispatch | `master/lib/notify.ts`, `app/api/notify-{config,test}` | a setting | load, save, notify, test | three sources of a configuration, rows of older versions | what was saved is what is used |
| Pages and their calls | `master/components/{SettingsView,Dashboard,ServerDetail,AppShell,AuthForm}.tsx` | what a page shows, its calls in flight | load, poll, toggle, drag, edit, remove, sign in and out | answers in any order, refusals, lost calls, another administrator | what is shown ends up as what is stored |
| Cookies, password hashes, token shapes | `master/lib/{auth,session}.ts`, `master/proxy.ts` | - | hash, verify, migrate a row, let a host in, set and clear a cookie, judge an Origin | two formats of everything, old rows met by new code | an old row answers as a new one; what was signed in with is presented; other sites change nothing |
| Charts and server lists | `master/components/{Charts,Dashboard}.tsx`, `components/ui/node-multiselect.tsx` | - | place samples, bars and labels; filter, sort, group | empty and one-element series, zero and rounding at the edges | lines stay in the box; lists are partitions and orders |
| Captcha, password strength, latency table, translations, collectors, configuration | several | - | - | drawing, wording, reads of the operating system | not modelled, see below |

**How they interact.** A report (HTTP or WebSocket frame) is checked and clamped, authorised against the
node tokens, given an address and country, stored by `saveReport`, and then, after the answer, runs
`maybeEvaluate`, which claims the two slots and, when it wins the second, runs `evaluate`: load alerts,
offline alerts, HTTP checks, each behind a try/catch. The custom server runs `evaluate` every thirty
seconds by itself and `GET /api/cron/check` runs it on demand; neither claims the slot. Each evaluation
pages through `notify`. `deleteNode` is one transaction over the tables of all components. Revoking a
token reaches the WebSocket server through an in-process event. An agent learns of its latency tasks
and of the version it should run from one and the same call. Pages talk to the routes and to nothing
else.

## Modules

| Module | Models | State and actions |
|---|---|---|
| `Ingest` | report ingestion | `req[r]` is a handler and its locals, one action per statement (`Authorize`, `Stamp`, `InsertRow`/`UpdateRow`, `ClaimHistory`, `InsertHistory`, `Bootstrap`), `Abort` anywhere; `row`, `history`, `offline` are tables and `token` what lets a node's agent in, its own token or the one all nodes shared once; `agent` is the machine with its counter; `DeleteNode` is the transaction; `Enroll`, `DeleteToken`, `RotateShared` and `EditOffline` are the administrator's other requests about a node |
| `Intake` | the checks of a body | operators: `Refused`, `StoredMetrics`, `StoredHost` and the second check `saveReport` makes |
| `EvalSchedule` | slots and their cache | `slot` is the stored timestamp, `cache[i]` that of process `i`; `TryCache`, `ClaimSlot`, `WriteCache` are the three moments of `tryClaimSlot`; `Throw` and `Restart` are failures |
| `Pager` | what an alerting engine promises | the abstract specification: raise, remind, clear, forget |
| `OfflineAlerts` | `evaluateOffline` | `Start` reads the nodes, `ReadSettings` the settings and decides, `Notify` pages, `SetOfflineState` writes; `Fail` anywhere |
| `LoadAlerts` | `evaluateLoadAlerts` and the rules | `ListRules`, then rule by rule `Aggregate` (or `AggregateThrows`), `ReadStates`, `Notify`, `Save`; `RuleFails` is the catch of one rule, `Fail` the end of the evaluation |
| `HttpChecks` | the checks and their route | `Start` reads the row, `Probe` one target, `Save` writes the row; `EditRead`/`EditWrite` is the route, `EditReadFails` its read that fails and is taken for an empty row |
| `PingPipeline` | probe to table | the runner's loop (`Refresh`, `TakeSample`, `Flush`), the two handlers (`AnswerTasks`; `AcceptBatch`, `InsertSlice`, `SliceThrows`, `AnswerOk`), the network's ways to fail (`FlushFails`, `RefreshFails`), the admin |
| `Probes` | which targets are probed, and when | operators: `ValidatePingTarget` of the master, `ValidateTask` of the node, `Due`, `NextAt` |
| `WsServer` | the WebSocket endpoint | `UpgradeCached` or `UpgradeLookup`/`Lookup`/`Answer`, `Frame`, `PersistDone`, `Heartbeat`, `Pong`, `CloseEvent`, `RevokeInDb`, `Notify` |
| `Accounts` | setup, login, sessions | `Lock`, `CountUsers`, `CommitUser` are the transaction; `Login`, `Verify`, `RecordAttempt`, `CreateSession`; `SessionUser` reads and decides, `RefreshLands` is the UPDATE nobody waits for, `DeleteSession`, `DeleteSessionsForUser`, `Logout`; `Crash` anywhere |
| `NodeTokens` | the tokens of the nodes | `AuthorizeBound`, or `AuthorizeOlder` and then `Bind`/`Claim`; `RotateToken`, `DeleteAll`, `Announce`, `InsertToken` are a rotation; `DeleteToken`, `DeleteNode`, `Fail`; `Redeploy` starts the server again, under a secret that may not open older rows (`unreadable`) |
| `OpaqueId` | the Feistel network | operators: `EncodeNodeId`, `DecodeNodeId`, over any round function |
| `Settings` | the generated settings, sealed; the memos of the cipher and of the schema check | `GetPage`, `Post` start a request of one process, `Progress` is its next statement; `SchemaRuns`/`SchemaFails`, `Outage`, `Restore`, `Redeploy` |
| `RateLimit` | the token buckets | `TakeToken`, `Evict`, `Tick`; `Watch` starts the count of a span |
| `SelfUpdate` | `updater.go`, `install.sh`, systemd | `Attempt`, then `Install` step by step (`Fetch` ... restart); a step that fails (`StepFails`) leads to the `Trap`, whose own start may fail; `unit` is how much of the unit file there is; `Kill`, `Crash`, `Reboot`, `SystemdRestarts` |
| `Reads` | what a reader is answered | operators: `NodesAnswer`, `HistoryStatus`, `GetHistory`, the latency feeds |
| `NodeLabels` | name, place, address, country of a node | a report is `ClientIp`, `GetNodeNet`, the lookup, the write; the administrator's requests in between; `Forget` drops a cache entry |
| `Notify` | where notifications go | operators: `LoadConfig`, `ShownConfig`, `Posted`, `Notified` |
| `Pages` | one browser tab | `shown` and `stored` have, thing by thing, what the page shows and the server has; calls take a slot, `Handle` is the server (a call it fails may have had its effect), `Deliver` the answer, `Lose` either way; `Other` is another administrator; `EvaluationReads` and `EvaluationEnds` are an evaluation of the HTTP checks that writes the list back as it read it |
| `Credentials` | rows, hashes, cookies and origins of who asks | operators: `Migrated`, `AuthorizeForHost`, `LegacyBindRefuses`, `ReadSessionCookie`, `VerifyPassword`, `LetBy` |
| `Charts` | where the detail page draws | operators: the line, its dot, the bars, the axes and their labels |
| `ServerLists` | filters, orders and groups of servers | operators: the dashboard's filters and sort, the form's groups and summary |
| `..._proof` | the theorems (see below); `Requests_proof` is about the modules without a run, `Evaluation_proof` about `EvalSchedule` and `OfflineAlerts`, `Server_proof` about `WsServer` and `HttpChecks`, `Nodes_proof` about `NodeTokens`, `PingPipeline` and `SelfUpdate` | |
| `MC...` | small instances for TLC | |

What each statement, handler or helper is translated from is recorded, definition by definition, in
`PROJECT.json` under `map`. Variables that are not in the code (what really was sent, which pages
went out, whether evaluations overlapped) exist for the properties only and are marked as such.
The definitions named `...Unclamped`, `...KeepingIp`, `Not...` and the like, placed just before the
definition they resemble, are mistakes somebody could make there; each property of a run is known to
fail when one of them takes the place of the definition (`mutants` in `PROJECT.json`).

Every module with a run has its type invariant (`TypeOK`, with a prefix where names would clash); it was
checked with TLC while the module was written, and the runs spend their time on the other properties. It
is proved for every one of them; the proofs about `Accounts` and `NodeTokens` state it in a form of
their own.

Modules that one proof module speaks about have prefixes on the names they would otherwise share
(`PipelineInit`, `ScheduleNext`).

Abstractions worth knowing:

- One traffic direction is modelled; the other is the same code. A WebSocket frame and a POST share
  `saveReport` and are the same request here.
- A node's silence, a rule's aggregate being over its threshold and a site's being up change freely,
  within a bound on the number of changes; the models say what the evaluations make of them.
- In `HttpChecks` the time of the last check is kept as an age that stops at the interval and a streak
  stops at the threshold, since nothing tells larger values apart; `SelfUpdate` keeps times the same way.
- In `LoadAlerts` an edit may name a node that no longer exists: the form may be older than the
  deletion, and `upsertAlertRule` stores what it is sent.
- In `Accounts` a tick is about half of the refresh throttle, and a statement once sent ends within it.
- In `Settings` a secret is a number that nobody holds yet; a row sealed under another secret reads as
  absent, as `getSetting` has it.
- In `Pages` everything shown is a set, so that a switch, an order, a list of rules and a chart's range
  are one mechanism with different rules, as they are in the components; clean calls are those that no
  other call about the same thing crossed, and the properties are about these.
- `Reads`, `Intake`, `Probes`, `Notify`, `Credentials`, `Charts` and `ServerLists` are pure: they have no
  state and no run; what is said of them is proved for every input. `RateLimit` and `NodeLabels` have state
  and are proved about; `NodeLabels` was also explored with TLC while its invariant was looked for.
- Lengths, addresses and names are abstract: a text counts by its length, an address by whether it is
  public, in `Probes` also by how its text is read.

## Runs

Every run is a module `MC<X>` with a configuration; sizes are chosen so that each case named below
occurs, and the mutants confirm that each property is within reach of the bounds. Deadlock is checked
except where every client may stop for good (a bounded clock or number of tokens, no clients left).

| Run | Shows | Bounds, and why they are enough |
|---|---|---|
| `ingest` | `NeverInflated`: the stored total is at most what was sent, unless an older boot's report was applied after a newer one's; `HistorySpaced`; `DeletionSticks` | one node (nodes share no state), two handlers, two boots, a counter up to 1, slack 1, interval 2, clock to 3, one deletion (`Budget` lets either the counter move and the machine reboot, or the administrator delete the node, take its token away or edit its setting too early): a reboot, a dip, a wobble, an unreported boot time, an overtaking report, a second life, a handler spanning both, and a node that comes back through the shared token |
| `schedule` | `WinsSpaced`, `SkipsOnlyFresh` | two callers in one process and one in another, the prune interval twice the evaluation interval, time in half evaluation intervals: a lost claim cached at half age, a turn-away, a boundary reading equal to the interval, a second win |
| `offline` | `RepeatsOnlyFromFaultsAndOverlaps`, `ImplementsPager`, `Settles` | two nodes, two evaluations, three changes, one edit, one failure, two overlaps |
| `load` | `RemindersSpaced`, `NoOrphanState`, `ImplementsPager`, and `Settles` with a rule whose query always throws | two rules, one node, two evaluations, two changes, and two of an edit or deletion, a failure and an overlap (`Budget`); the clock runs from 2 to 4 and a reminder is due after 2 ticks: one that is due, one that is early after a failure, two that are after an overlap |
| `http` | `RepeatsOnlyFromLostWrites`, `PagesEarned`, `ImplementsPager`, `Settles` | one target, two evaluations, threshold 2, two changes, one timeout, one edit (whose read may fail), one failure, one overlap |
| `ping` | `AccountedFor`, `DuplicatesOnlyFromRetries`, `SamplesSettle`, `TasksConverge` | one node, two tasks of which one is valid, a cap of one, two handlers, three samples in slices of two, one edit, one failure |
| `ws` | `CountersExact`, `RevokedStaysOut`, `HalfOpenReaped` | two clients of one token and address, one connection per address allowed, four upgrades, three frames, a rate of two, one frame in flight |
| `accounts` | `OneAdministrator`, `GuessesBounded`, `LoggedOutStaysOut`, `ActiveSessionsLive` | two handlers, two addresses, one session, three stored attempts, limits of one and two, and a life of the session of three to four ticks in six: a race at the lock, a race past the limiter, a refresh across a logout, an idle session, one in use |
| `tokens` | `DeletedAreAnnounced`, `BindingIsFinal` | two handlers, two identities, four tokens of which one is unbound and one bound without a claim: a lost binding race, a token minted inside a rotation, and, after one redeployment, rows a rotation cannot read |
| `settings` | `IdsSettled`, `ShownTokenStored`, `IdsLeadBack`, `SchemaRecovers` | two processes, one request that reaches both and one of one of them, one post, one outage, redeployment or new secret; radix 3 |
| `agent` | `AttemptsSpaced`, `ServiceComesBack`, `Converges` | a good release and one that reports another version, a cooldown of three ticks, three failures: a lost stamp and a restart, a kill at every step, a reboot during an install, a unit file emptied or cut short and then a trap that fails |
| `client` | `ShownIsStored`, `DeletedStaysDeleted`, `AddedStaysAdded`, `ChartMatchesRange` | one rule, two checks, two ranges, three choices of pages to move between, two calls in flight and one fault (a loss, a failure before or after the effect, another administrator's edit, an evaluation's older list): two answers in either order, a refusal, a deletion behind an open form, a save behind a save |

What the properties say, in words:

- **A repeat costs something.** The pages of the offline and HTTP engines repeat only where a write
  was lost or two evaluations read the same state, and each such event accounts for at most one
  repeat. For load alerts an overlap may cost two early reminders: the page both send, and another
  because the later writer stores the older time. These bounds hold with evaluations arbitrarily
  stale, through edits and deletions.
- **Refinement.** Until the first failure or overlap (and, for HTTP checks, the first edit), each
  engine implements `Pager`: a raise, then a clear, alternating; reminders only while the problem
  stands. The refinement mapping takes a problem to stand from the page, not from the row: an
  evaluation that has paged and not yet written has already changed it.
- **It ends up right.** However stale the writes were, a condition that lasts is recorded in the end;
  the agent comes to run the version that stays wanted, and the service its installer stopped returns,
  unless the service was left down for a person to start.
  This is what makes the lost and repeated steps tolerable.
- **A race has a price, and it is known.** Guesses pass the limiter by no more than the handlers there are;
  a token goes unannounced only when it was minted or bound inside a rotation, or sealed under a secret the
  server no longer has; ids stay readable unless a key was replaced under a reader; a page may show
  something else than what is stored only after calls about one thing crossed, one was lost or failed after
  its effect, or somebody else wrote.

## Fairness

- The alert engines: `WF(Start(Loop))`, since the loop of `master/server.ts` starts an evaluation again
  and again, and `WF(Proceed(e))`, since every await of an evaluation ends: fetches carry a timeout,
  queries return or throw. Failures are not fair and are bounded; so are overlaps, and reports and
  cron calls owe nothing. The loop belongs to the custom server; a serverless deployment without it
  depends on reports and cron calls, and the liveness shown here does not apply there.
- `PingPipeline`: the runner's `select` picks among the tickers that are ready, so `Refresh` and `Flush`
  get strong fairness (each is disabled while the other is under way); handlers and answers weak.
- `WsServer`: the heartbeat timer, the lookup (its pool gives up after five seconds) and the close event
  of a terminated socket. Clients owe nothing.
- `HttpChecks`: time passes.
- `Settings`: the schema check ends, a request goes on, an outage of the database ends.
- `SelfUpdate`: time passes, the runner asks and attempts again and again, the installer goes on unless
  it is killed, and systemd restarts what its unit tells it to. Faults are bounded and not fair.

## What is proved

For every value of the constants (any nodes, handlers, processes, callers, intervals, tokens, versions
and bounds), under the named assumptions on them, which say only that numbers are naturals, intervals
are not zero, callers have a home, there is a server process, the requests and processes that are
counted (`Accounts`, `Settings`) are finitely many, mislabelled releases are among the versions, and the
value that stands for "none" is not a name (no node, and no handler, is called `""`):

Of the runs' properties:

- `Evaluation_proof!ClaimsAreSpaced` (`WinsSpaced`). Not inductive alone: the strengthening
  `SlotBoundsWins` says the stored timestamp bounds every one won so far, so the next winner, whose
  reading exceeds the stored one by the interval, exceeds them all by it however stale its reading is.
- `Evaluation_proof!CacheSkipsOnlyFresh` (`SkipsOnlyFresh`). `CacheBacked` (a cache entry is at most
  half an interval past the slot) and `AnswersBacked` (a claim's answer on its way tells the truth
  about a slot that only grows).
- `Evaluation_proof!RepeatsArePaidFor` (`RepeatsOnlyFromFaultsAndOverlaps`). A potential: per node, the
  repeats made so far, the evaluations that may still page it and a flag that has gone astray are
  covered by the failures and overlaps so far (`Paid`). A page moves a unit from one part to another;
  a new evaluation beside others is an overlap, a lost write a failure, and both are counted.
- `Evaluation_proof!OfflinePages` (`ImplementsPager`). As long as no evaluation failed or overlapped
  another, the one that runs holds the flag that is stored, so that what it decides is a step of `Pager`.
- `LoadAlerts_proof!NoOrphan` (`NoOrphanState`). What an evaluation is about to save is of a rule that
  is still there, unless it was deleted while the evaluation was under way (`Current`, `Owned`).
- `LoadAlerts_proof!RemindersPaidFor` (`RemindersSpaced`) and `LoadPages` (`ImplementsPager`). The same
  potential with a weight of two for an overlap; a row is in order when it has the time of the last
  alert or a later one (`Guards`), so that whoever reads it next is not early.
- `Ingest_proof!HistoryIsSpaced` (`HistorySpaced`). `ClaimsBounded`: within one life of a row the time of
  its last history row bounds every stamp claimed, written or about to be; claims that outlived a
  deletion belong to an earlier life.
- `Ingest_proof!DeletionIsFinal` (`DeletionSticks`). `NodeSettled`: as long as the last deletion met no
  handler, every admitted handler belongs to a node that was given a token since, or whose agent has the
  shared one, and past its upsert there is a row. What an agent may send is decided by `token`, so a
  deletion is final for a node of its own token, and no more than a reset for one of the shared token.
- `Ingest_proof!TrafficNeverInflated` (`NeverInflated`). `SamplesAgree`: every sample of the counter that
  is still under way, or stored, is covered by the boot it was taken in, with reboots that are told
  apart by the boot time really being different boots; `BankCovered`: what was banked is covered by
  the boots before the stored sample.
- `Nodes_proof!NoSampleLost` (`AccountedFor`) and `RetriesPayForDuplicates` (`DuplicatesOnlyFromRetries`).
  `PipeInv` says where the copies of a sample are: in its runner's buffer or batch, among the rows that
  handlers have still to insert, in the table. `Paid`: the rows stored, those still to come and the one
  in the buffer are at most one and the times it was put back, so a handler of an abandoned call that
  inserts moves a copy and makes none. `NothingLost`: a sample that is nowhere on its way was stored, or
  given up for a reason. `Loops` ties a runner that waits to the handler of its call.
- `Server_proof!BooksAreExact` (`CountersExact`). `Counted` ties the counters, through
  cardinalities, to the connections there are; a connection leaves all four once, in its close event.
- `Server_proof!RevocationHolds` (`RevokedStaysOut`). `Revoked`: once the server was told, neither
  the database nor the cache nor an upgrade's hands have the token, but for lookups already under way.
- `Server_proof!LostWritesPayForRepeats` (`RepeatsOnlyFromLostWrites`). A potential once more: per url, the
  repeats there are and those still to come (`Owed`: one for each evaluation that may yet page it, less one
  if all that is stored or about to be stored says what its last page said) never exceed the failures, the
  writes that undid another (an edit whose read failed undoes all) and the overlaps. `Current`: what is not
  stale is what is stored, so that a write counted as harmless is; `Crowd`: an evaluation more than one is
  an overlap.
- `Server_proof!ChecksEarnPages` (`PagesEarned`). `Backing`: while nothing was lost, a state that
  is stored or in hand with a baseline was observed, and its streak of failures is one of the latest probes.
- `Server_proof!ChecksPage` (`ImplementsPager`). `Baselines`: a url without a baseline was never paged,
  so that the silent first observation is a `Forget` of nothing; every later flip is a raise or a clear.
- `Accounts_proof!SetupIsExclusive` (`OneAdministrator`). `Locked`: a handler between the lock and its
  commit holds the lock alone, and one that has counted nobody and not yet inserted is right about it.
- `Accounts_proof!LogoutIsFinal` (`LoggedOutStaysOut`). `Unissued`: sessions are drawn once, so nothing can
  bring a row back but an UPDATE, and an UPDATE of no row is nothing; `Named` keeps a logout everywhere
  from meaning rows that are not anybody's.
- `Accounts_proof!GuessesAreBounded` (`GuessesBounded`). A potential again: the failures counted
  within the window and the handlers past the limiter that have not recorded theirs stay below the limit
  and the handlers there are (`Within`).
- `Accounts_proof!SessionsInUseLive` (`ActiveSessionsLive`). `Renewed`: a row was
  refreshed less than the throttle before the last request let in, or that request is long ago;
  `Awaited`: a refresh under way is for a session that is fit for use; `Doomed`: whoever goes to delete a
  session has found it overdue, which it stays.
- `Nodes_proof!BindingsAreFinal` (`BindingIsFinal`). `Bindings`: nothing is claimed but the binding,
  tokens not drawn yet have no row, and a handler about to claim still means the identity its token has;
  the UPDATE of a lost race finds the row bound and does nothing.
- `Nodes_proof!AnnouncedOrCrossed` (`DeletedAreAnnounced`). `Rotations`: what a rotation is about to
  delete it has read, or it was minted or bound while the rotation was between its two statements; what
  it has read it announces, or cannot read.
- `Nodes_proof!AttemptsKeepApart` (`AttemptsSpaced`) and `BinaryIsChecked` (`BinaryChecked`, which
  no run checks). `StampBacked`: the stamp on disk is no older than the last attempt that could
  write one, so a process that starts afresh waits as its predecessor would. `Installing`: past the
  verification a download is whole, and from the move on the service is stopped, so that only the
  installer, a kill or a boot changes that.
- `Requests_proof!CiphersAgree` (`IdsSettled`), `ShownTokenIsStored` (`ShownTokenStored`) and
  `HeldCiphersLeadBack` (`IdsLeadBack`). `SettingsInv`: a load in progress has the halves that are stored
  (`Gotten`), and a process holds the stored cipher except for the halves a request of its own is
  replacing (`Agreed`); a value about to be drawn is absent (`Missing`), so that who draws one meets no
  process that holds a cipher. The third is `IdsRoundTrip` for the keys a process can come to hold.
- `Pages_proof!SwitchesShowStored`, `DeletedRulesStayAway`, `SavedChecksStay`, `ChartShowsChosenRange`
  (`ShownIsStored`, `DeletedStaysDeleted`, `AddedStaysAdded`, `ChartMatchesRange`). `PagesInv` describes
  every call by what its answer will make of the page: a clean call carries what the page had when it
  was sent, and nothing about the same thing has happened since. A list of checks that an evaluation
  overwrote, and a switch stored by a call that failed, are in doubt (`stale`) until they are loaded again.

About the parts without a run, all in `Requests_proof`:

- `IdsRoundTrip`: decoding inverts encoding, for every radix and round function.
- `GrantsAreBounded`: what a key is granted within a span is bounded by the capacity and
  the refill, unless its bucket was dropped (which gives it a full one). `Paid`: what was granted plus
  what is left never exceeds what there was and came in.
- `CountriesAreFounded` and `OldCountryStays`. `HeldIsTrue`: what lookups in progress and
  the cache hold is true of their address.
- `StoredInRange`, `NothingIsCut` (reports); `GuestsSeeNoAddress`, `HistoryIsGated`, `IdsResolve`,
  `OnlyTheNewestIsCut`, `LatencyHasTheNewest`, `FeedsAgree` (reads); `AcceptedIsProbed` (targets);
  `SavedIsUsed` (notifications).
- `MigrationIsInvisible`, `ShownTokensWork`, `GatesAgree`, `StrictModeLocksOut` (tokens of either format and
  the two gates that read them), `CookiesFollowTheUser`, `HashesVerify`, `OtherSitesChangeNothing`.
- `LinesStayInside`, `DotIsOnTheLine`, `BarsAreWhole`, `AxisIsReadable`, `TimesAreSpread` (charts);
  `ListsArePartitions`, `SummaryIsTrue`, `OrdersAreConsistent` (server lists).

Only model-checked: all liveness, of every module (the prover has no rules for `ENABLED`, and so for
fairness).

## Divergences between the code and what it says

None of these stops a run; they showed while the models were written, and the properties exclude
exactly them, or a theorem states them. For whoever works on the code:

Reports and alerts:

- A report of the previous boot persisted after one of the new boot makes the next report look like
  another reboot, and its counter is banked again (`master/lib/db.ts:595`; the comment above it is about
  the same kind of inflation). `NeverInflated` excludes nodes this happened to.
- Reports claim a slot so that they "don't double-run" (`master/lib/monitoring.ts:504`); the loop and cron
  calls do not claim it, so two evaluations page the same transition (`:680`).
- A report in progress during `deleteNode` may write its offline setting or history row afterwards, and
  neither table has a foreign key to `nodes`, though the comment promises no dangling references
  (`master/lib/db.ts:727-731`). `DeletionSticks` excludes exactly these deletions.
- A rule saved from a form loaded before a deletion stores the deleted id again, though the comment says
  it can never reappear as a target (`master/lib/db.ts:729-730`). It has no effect while the node is gone.
- Deleting the last node of an allowlist leaves an empty list, which means every node
  (`master/lib/db.ts:745`).
- Two overlapping evaluations page the same flip of an HTTP target (`master/lib/http-check.ts:78` says both
  directions fire once), and one that read the row before a url was removed writes its state back, so
  that a url added again does not start fresh (`master/app/api/http-checks/route.ts:37-38`).
- The comment at `RENOTIFY_MS` speaks of notifying "an already-firing alert / still-offline node" again
  (`master/lib/monitoring.ts:65-66`). Only `evaluateLoadAlerts` looks at that interval; `evaluateOffline`
  pages a node that stays offline once (`:680-693`). The properties of `OfflineAlerts` state what the code
  does: its `Pager` has no reminders.
- `POST /api/http-checks` takes a read that fails for an empty row and stores no state for any target
  (`master/app/api/http-checks/route.ts:39`), though it means to "preserve state for surviving URLs": a site
  that is down gets a new baseline, and pages again after it was up. `RepeatsOnlyFromLostWrites` counts
  such an edit as a write that undid others.
- A node whose agent has the shared token comes back with its next report after it was deleted
  (`master/lib/auth.ts:677-683`); `deleteNodeToken` (`:535`) takes a token away and leaves the node;
  `POST /api/offline` stores the setting of a node that does not exist. `DeletionSticks` names all three.
- The route accepts `bootTimeMs` and `uptimeSec` in a host (`master/app/api/report/route.ts:53-61`), and
  `saveReport` drops them (`master/lib/db.ts:498-519`); agents send neither. `NothingIsCut` names them.
- A report whose hostname has forbidden characters binds an unbound token before `saveReport` refuses it.

Probes:

- The runner takes any HTTP answer for success (`node/pinger/runner.go:321`), and one sample of a deleted
  task makes the foreign key refuse the slice it is in: the master answers an error, and the rest of
  the batch is lost, though the comment above says samples are not.
- A host in brackets without a port is accepted by the master and dropped by the node without a word;
  a bare IPv6 address whose last group is decimal is read by the master as host and port. ICMP targets
  with a port are accepted and never answer. `AcceptedIsProbed` names the first.

Connections and tokens:

- Upgrades whose token lookups overlap pass the connection caps together (`master/server.ts:25`, `:328`),
  and a lookup that found a token before its revocation completes the upgrade after it
  (`master/server.ts:129-131`, `:204`). `RevokedStaysOut` excludes exactly these tokens.
- A token minted between the SELECT and the DELETE of `rotateTokenForNode` is deleted and not announced,
  and `deleteNode` announces nothing: connections stay, and only their frames are refused. A rotation
  also deletes rows it cannot decrypt and announces nothing of them (`master/lib/auth.ts:453-454`), which
  after a change of the secret is all of them. `DeletedAreAnnounced` excludes both.
- In strict mode (`legacyBindRefuses`) the shared token of the first version cannot be replaced by its
  successor for ten minutes after a rotation, though it is the successor that is valid
  (`StrictModeLocksOut`).
- The comment on `authorizeAnyNode` names `/api/ping` among its callers (`auth.ts:722-724`); that route uses
  `nodeForToken`, which the shared token does not pass.

Accounts and settings:

- `createSession` leaves `last_used_at` empty, and an empty value counts as fresh: a session never used
  lasts its thirty days, not the seven of an idle one (`master/lib/auth.ts:112-115`).
- `needsRehash` and `deleteOtherSessionsForUser` are described as used at login (`auth.ts:198`, `:374`) and have
  no caller, so that hashes of the older format are not "silently upgraded" (`auth.ts:133-134`).
- `setOpaqueIdConfig` with a valid key and a malformed tweak stores the key and does not reload; a
  settings request that is refused leaves the fields before the refused one stored, and so does a node's
  PATCH with a bad country. A changed secret regenerates the generated settings without a word.
- A read of the notification settings that fails is taken for "not configured": the channels of the
  environment are used, even by an administrator who switched notifications off. Without a saved
  configuration the page shows notifications as off while the environment's channels are used. A test
  message answers ok when its channels swallowed their errors.

Agents:

- An update loses `-insecure`, which is not among the arguments handed to the installer, though the
  comment says settings are carried over (`node/pinger/runner.go:166-169`). `Converges` excludes masters that
  need it. The binary is moved between file systems, which is not atomic. An installer that starts while
  systemd waits to restart the service does not restore it (`node/install.sh:140`).
- The comment above the trap says that it restores the old service if any later step fails
  (`node/install.sh:134-138`). But `cat >` has emptied the old unit before it can fail (`:167`), and the
  trap's own `systemctl start` may fail unnoticed (`:145`): on a full disk the service stays down until
  somebody comes. `ServiceComesBack` and `Converges` exclude these (`harm`).

Reads and labels:

- A failed lookup is not retried after a change of address: the report stores the new address with the
  old country, and the next one sees nothing to look up (`master/lib/geo.ts:49` means it to be retried).
  `OldCountryStays` proves it.
- `getHistory` takes the oldest slices up to its limit, so that it may cut the newest
  (`OnlyTheNewestIsCut`); the latency history always has it. A hostname of digits only may be taken for an
  opaque id (`IdsResolve`). The branch of `getHistory` without a window is never taken by its route.

Pages:

- The order of servers is lost when the tab changes while it is being saved, and a further drag undoes
  it. The pages of alert rules and HTTP checks take a refused load for an empty list, so that the next
  save of a check replaces them all. A network failure in `api()` is not caught, and the switch it
  moved stays moved. Deleting a latency task leaves the form open on it, and "apply to all" of the offline
  settings may succeed in part.
- `POST /api/settings` stores a switch (`master/app/api/settings/route.ts:153`) and builds its answer within
  the same `try` (`:203`): when that fails it answers 400, and the page puts the switch back
  (`master/components/SettingsView.tsx:432`), to the opposite of what is stored. `ShownIsStored` excludes
  such a switch until it is loaded again.
- An evaluation of the HTTP checks writes the whole row with the targets it read before it probed
  (`master/lib/http-check.ts:106`), and drops a check saved meanwhile although the save was answered ok.
  `AddedStaysAdded` excludes it. `GET /api/http-checks` answers a failed read with an empty list, which
  the page's next save then stores.

## Not modelled

Captcha and password strength, which only refuse; the text of notifications; drawing beyond where a
chart's samples land, the latency table and translations; the parsing of addresses and headers; the
response headers of `proxy.ts`, of which only the judgement on origins is modelled; the arithmetic of the
settings' envelope and of password hashes, which are taken to do what they are named for;
virtualisation detection, the collectors' reads of the operating system, and configuration parsing; the
choice of a mirror, the other service managers and the questions of `install.sh`. The handshake rate
and the Origin check of the WebSocket server only refuse. `WOLF_DISABLE_INGEST_RATELIMIT` is left out of
`RateLimit`. The forms of offline settings, latency tasks and notifications work like the modelled ones
and are left out of `Pages`. `PROJECT.json` lists every part under `components`, with what its model leaves
out, and under `hazards` every place the code is hard to test, with the properties that watch it.

One hazard listed has no property: the buffer of an agent whose master is away grows without a bound
(the model bounds the samples instead). Besides those listed, a slot claimed by a process that dies
before it evaluates is not given back (the loop makes up for it), a failed token lookup is cached as a
refusal for a minute (`master/server.ts:204`), and the connection caps and the emptied allowlist are among
the divergences above.

## What could come next

- The composition of `NodeTokens` with `WsServer`'s `registered` and `Ingest`'s `Authorize`, each of which
  models the other's part of the tokens as a free choice.
- A second tab in `Pages`, in place of the other administrator.
