----------------------------- MODULE Accounts -----------------------------
(***************************************************************************)
(* The administrator's account: the first-run setup, which takes an        *)
(* advisory lock so that two requests cannot both find no user; the login  *)
(* with its limiter, which counts failures, spends half a second on the    *)
(* password and only then records the attempt; and the sessions, which     *)
(* slide: a request reads the row, decides, and refreshes it in the        *)
(* background.  A tick stands for about half of SESSION_REFRESH_MS; a      *)
(* statement once sent ends within the tick.                               *)
(*                                                                         *)
(* A refused request (captcha, lengths, limit) leaves nothing behind and   *)
(* is not a step.  One client address is modelled; successful attempts are *)
(* stored too and nothing ever counts them.                                *)
(***************************************************************************)
EXTENDS Integers, Sequences, FiniteSets

CONSTANTS
  Requests,                  \* concurrent handlers, in any process
  Emails,
  MaxSessions, MaxClock, MaxRows,   \* bounds: sessions issued, ticks, rows of auth_attempts
  SessionTtl, SessionIdle, SessionRefresh,   \* SESSION_*_MS
  Window, MaxPerEmail, MaxPerIp              \* of the login limiter

NoUser == "nobody"

ASSUME ConstantsAssumption ==
  /\ NoUser \notin Emails /\ IsFiniteSet(Requests)
  /\ MaxSessions \in Nat /\ MaxClock \in Nat /\ MaxRows \in Nat
  /\ SessionRefresh \in Nat \ {0} /\ SessionIdle \in Nat /\ SessionTtl \in Nat
  /\ SessionRefresh < SessionIdle /\ SessionIdle =< SessionTtl
  /\ Window \in Nat /\ MaxPerEmail \in Nat \ {0} /\ MaxPerIp \in Nat \ {0}

VARIABLES
  clock,
  req,         \* per handler: where it is and its locals
  lock,        \* the handlers that hold the advisory lock (at most one)
  users,       \* committed rows of users
  attempts,    \* failed rows of auth_attempts, oldest first
  sessions,    \* the rows of sessions, by token
  refreshing,  \* sessions whose background UPDATE is under way, issued at this tick
  issued,      \* number of session tokens drawn so far
  ended,       \* sessions somebody logged out of
  accepted     \* per session: when a request was last let in with it, unless
               \* the refresh of that request was lost

vars == <<clock, req, lock, users, attempts, sessions, refreshing, issued, ended, accepted>>
authVars == <<lock, users, attempts>>
sessionVars == <<sessions, refreshing, issued, ended, accepted>>

Tokens == 1 .. MaxSessions
Null == -1      \* a column without a value, a moment that never came
Gone == [user |-> NoUser, last |-> Null, expires |-> Null]
Idle == [pc |-> "idle", email |-> NoUser, ok |-> FALSE, token |-> 0]

\* Time starts late enough for a session without last_used_at, read as 0, to
\* be due for its refresh.
Init ==
  /\ clock = SessionRefresh
  /\ req = [r \in Requests |-> Idle]
  /\ lock = {}
  /\ users = {}
  /\ attempts = <<>>
  /\ sessions = [t \in Tokens |-> Gone]
  /\ refreshing = {}
  /\ issued = 0
  /\ ended = {}
  /\ accepted = [t \in Tokens |-> Null]

Tick ==
  /\ clock < MaxClock
  /\ refreshing = {}
  /\ clock' = clock + 1
  /\ UNCHANGED <<req, authVars, sessionVars>>

At(r, pc) == req[r].pc = pc
Goto(r, pc) == req' = [req EXCEPT ![r].pc = pc]
Finish(r) == req' = [req EXCEPT ![r] = Idle]

-----------------------------------------------------------------------------
(* The limiter *)

\* The window of isRateLimited: failures since then, of an address or of it all.
InWindow(e, row) == row.at >= clock - Window /\ (e = NoUser \/ row.email = e)
Failures(e) == Cardinality({i \in DOMAIN attempts : InWindow(e, attempts[i])})

IsRateLimitedByOneScope(e) == Failures(e) >= MaxPerEmail

IsRateLimited(e) == Failures(e) >= MaxPerEmail \/ Failures(NoUser) >= MaxPerIp

Recorded(e, ok) == IF ok THEN attempts ELSE Append(attempts, [email |-> e, at |-> clock])

\* pruneAuthAttempts, called about once an hour and by cron: two statements.
\* The rows of the first k attempts are too old, and no others.
PruneAttempts ==
  /\ attempts # <<>>
  /\ \E k \in 0 .. Len(attempts) :
       /\ \A i \in DOMAIN attempts : i <= k <=> ~InWindow(NoUser, attempts[i])
       /\ attempts' = SubSeq(attempts, k + 1, Len(attempts))
  /\ UNCHANGED <<clock, req, lock, users, sessionVars>>

PruneSessions ==
  /\ sessions' = [t \in Tokens |-> IF sessions[t].expires < clock THEN Gone ELSE sessions[t]]
  /\ UNCHANGED <<clock, req, authVars, refreshing, issued, ended, accepted>>

-----------------------------------------------------------------------------
(* Setup *)

\* The route passes the limiter (setup itself records no attempt, so only the
\* address counts) and hashes the password.
Setup(r) ==
  /\ At(r, "idle")
  /\ Failures(NoUser) < MaxPerIp
  /\ \E e \in Emails : req' = [req EXCEPT ![r] = [Idle EXCEPT !.pc = "begin", !.email = e]]
  /\ UNCHANGED <<clock, authVars, sessionVars>>

LockNotTaken(r) ==
  /\ At(r, "begin")
  /\ Goto(r, "count")
  /\ UNCHANGED <<clock, authVars, sessionVars>>

\* SELECT pg_advisory_xact_lock
Lock(r) ==
  /\ At(r, "begin")
  /\ lock = {}
  /\ lock' = {r}
  /\ Goto(r, "count")
  /\ UNCHANGED <<clock, users, attempts, sessionVars>>

\* SELECT COUNT(*), which sees committed rows only.
CountUsers(r) ==
  /\ At(r, "count")
  /\ IF users = {}
     THEN Goto(r, "commit") /\ UNCHANGED lock
     ELSE Finish(r) /\ lock' = lock \ {r}
  /\ UNCHANGED <<clock, users, attempts, sessionVars>>

\* INSERT and COMMIT; the transaction and its lock end together.
CommitUser(r) ==
  /\ At(r, "commit")
  /\ users' = users \cup {req[r].email}
  /\ lock' = lock \ {r}
  /\ Goto(r, "session")
  /\ UNCHANGED <<clock, attempts, sessionVars>>

-----------------------------------------------------------------------------
(* Login *)

Login(r) ==
  /\ At(r, "idle")
  /\ Len(attempts) < MaxRows
  /\ \E e \in Emails :
       /\ ~IsRateLimited(e)
       /\ req' = [req EXCEPT ![r] = [Idle EXCEPT !.pc = "verify", !.email = e]]
  /\ UNCHANGED <<clock, authVars, sessionVars>>

\* findUser, then scrypt: a password is right only for a user there is.
Verify(r) ==
  /\ At(r, "verify")
  /\ \E ok \in {FALSE, req[r].email \in users} :
       req' = [req EXCEPT ![r].pc = "record", ![r].ok = ok]
  /\ UNCHANGED <<clock, authVars, sessionVars>>

RecordAttempt(r) ==
  /\ At(r, "record")
  /\ attempts' = Recorded(req[r].email, req[r].ok)
  /\ IF req[r].ok THEN Goto(r, "session") ELSE Finish(r)
  /\ UNCHANGED <<clock, lock, users, sessionVars>>

\* createSession leaves last_used_at without a value.
CreateSession(r) ==
  /\ At(r, "session")
  /\ issued < MaxSessions
  /\ issued' = issued + 1
  /\ sessions' = [sessions EXCEPT
       ![issued + 1] = [user |-> req[r].email, last |-> Null, expires |-> clock + SessionTtl]]
  /\ Finish(r)
  /\ UNCHANGED <<clock, authVars, refreshing, ended, accepted>>

\* A handler dies; its connection goes, and with it the transaction.
Crash(r) ==
  /\ ~At(r, "idle")
  /\ Finish(r)
  /\ lock' = lock \ {r}
  /\ UNCHANGED <<clock, users, attempts, sessionVars>>

-----------------------------------------------------------------------------
(* Sessions *)

\* The two bounds of sessionUser; no value counts as fresh.
Overdue(row) == row.expires < clock \/ (row.last # Null /\ clock - row.last > SessionIdle)

RefreshDueLate(row) == row.last = Null \/ clock - row.last >= SessionIdle

RefreshDue(row) == row.last = Null \/ clock - row.last >= SessionRefresh

\* sessionUser: SELECT, then either let in, with a refresh nobody waits for, or
\* refuse and delete.  Any request holding the cookie runs it, logout with
\* ?all=1 among them.
SessionUser(r, t, then) ==
  LET row == sessions[t] IN
  /\ At(r, "idle")
  /\ row # Gone
  /\ IF Overdue(row)
     THEN /\ req' = [req EXCEPT ![r] = [Idle EXCEPT !.pc = "delete", !.token = t]]
          /\ UNCHANGED <<refreshing, accepted>>
     ELSE /\ req' = [req EXCEPT ![r] = [then EXCEPT !.email = row.user]]
          /\ accepted' = [accepted EXCEPT ![t] = clock]
          /\ refreshing' = IF RefreshDue(row) THEN refreshing \cup {t} ELSE refreshing
  /\ UNCHANGED <<clock, authVars, sessions, issued, ended>>

Request(r) == \E t \in Tokens : SessionUser(r, t, Idle)

LogoutEverywhere(r) == \E t \in Tokens : SessionUser(r, t, [Idle EXCEPT !.pc = "delete all"])

RefreshedUpserting(row) ==
  [row EXCEPT !.last = clock, !.expires = clock + SessionTtl]

\* The background UPDATE; a deleted row is not there to be updated.
Refreshed(row) == IF row = Gone THEN Gone
                  ELSE [row EXCEPT !.last = clock, !.expires = clock + SessionTtl]

RefreshLands(t) ==
  /\ t \in refreshing
  /\ sessions' = [sessions EXCEPT ![t] = Refreshed(@)]
  /\ refreshing' = refreshing \ {t}
  /\ UNCHANGED <<clock, req, authVars, issued, ended, accepted>>

RefreshFails(t) ==
  /\ t \in refreshing
  /\ refreshing' = refreshing \ {t}
  /\ accepted' = [accepted EXCEPT ![t] = Null]
  /\ UNCHANGED <<clock, req, authVars, sessions, issued, ended>>

\* deleteSession: what sessionUser does with an overdue row.
DeleteSession(r) ==
  /\ At(r, "delete")
  /\ sessions' = [sessions EXCEPT ![req[r].token] = Gone]
  /\ Finish(r)
  /\ UNCHANGED <<clock, authVars, refreshing, issued, ended, accepted>>

\* Logout without the flag: the row of the cookie, whatever its state.
Logout(t) ==
  /\ sessions[t] # Gone
  /\ sessions' = [sessions EXCEPT ![t] = Gone]
  /\ ended' = ended \cup {t}
  /\ accepted' = [accepted EXCEPT ![t] = Null]
  /\ UNCHANGED <<clock, req, authVars, refreshing, issued>>

DeleteSessionsForUser(r) ==
  LET theirs == {t \in Tokens : sessions[t].user = req[r].email} IN
  /\ At(r, "delete all")
  /\ sessions' = [t \in Tokens |-> IF t \in theirs THEN Gone ELSE sessions[t]]
  /\ ended' = ended \cup theirs
  /\ accepted' = [t \in Tokens |-> IF t \in theirs THEN Null ELSE accepted[t]]
  /\ Finish(r)
  /\ UNCHANGED <<clock, authVars, refreshing, issued>>

Next ==
  \/ Tick \/ PruneAttempts \/ PruneSessions
  \/ \E r \in Requests :
       \/ Setup(r) \/ Lock(r) \/ CountUsers(r) \/ CommitUser(r)
       \/ Login(r) \/ Verify(r) \/ RecordAttempt(r) \/ CreateSession(r) \/ Crash(r)
       \/ Request(r) \/ LogoutEverywhere(r) \/ DeleteSession(r) \/ DeleteSessionsForUser(r)
  \/ \E t \in Tokens : RefreshLands(t) \/ RefreshFails(t) \/ Logout(t)

Spec == Init /\ [][Next]_vars

-----------------------------------------------------------------------------
(* Properties *)

\* The variables keep their types.
TypeOK ==
  /\ clock \in Nat
  /\ req \in [Requests -> [pc : {"idle", "begin", "count", "commit", "session", "verify",
                                 "record", "delete", "delete all"},
                           email : Emails \cup {NoUser}, ok : BOOLEAN, token : Nat]]
  /\ lock \subseteq Requests
  /\ users \subseteq Emails
  /\ attempts \in Seq([email : Emails, at : Nat])
  /\ issued \in 0 .. MaxSessions
  /\ refreshing \subseteq Tokens

\* However many setup requests race, in however many processes, and wherever
\* they die, there is at most one administrator (createUserExclusive).
OneAdministrator == \A e, f \in users : e = f

\* The limiter counts before the password is verified and records after, so
\* handlers may pass it together; the guesses of any window still never exceed
\* the limit by more than the handlers there are.
GuessesBounded ==
  LET pending(e) == {r \in Requests : req[r].pc \in {"verify", "record"} /\ (e = NoUser \/ req[r].email = e)}
      within(e, limit) == Failures(e) + Cardinality(pending(e)) < limit + Cardinality(Requests)
  IN within(NoUser, MaxPerIp) /\ \A e \in Emails : within(e, MaxPerEmail)

\* A session somebody logged out of never comes back, whatever refresh was
\* under way at the time.
LoggedOutStaysOut == \A t \in ended : sessions[t] = Gone

\* The refresh is throttled, not waited for, and races deletions and pruning;
\* still a session in use is never refused: until the idle bound, less the
\* throttle, has passed since a request was let in, the next one is.
ActiveSessionsLive ==
  \A t \in Tokens :
    accepted[t] # Null /\ clock =< accepted[t] + SessionIdle - SessionRefresh + 1
      => sessions[t] # Gone /\ ~Overdue(sessions[t])
=============================================================================
