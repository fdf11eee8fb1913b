-------------------------- MODULE Accounts_proof --------------------------
(* What is proved of the account for any number of handlers, addresses and *)
(* sessions: setup makes one administrator, a logout is final, no window   *)
(* takes many more guesses than the limit, and a session in use lives.     *)
EXTENDS Accounts, FiniteSetTheorems, SequenceTheorems, TLAPS

AnyEmail == Emails \cup {NoUser}
Pcs == {"idle", "begin", "count", "commit", "session", "verify", "record", "delete", "delete all"}
ReqType == [pc : Pcs, email : AnyEmail, ok : BOOLEAN, token : Nat]
RowType == [user : AnyEmail, last : Int, expires : Int]

Types ==
  /\ clock \in Nat /\ issued \in Nat
  /\ req \in [Requests -> ReqType]
  /\ sessions \in [Tokens -> RowType]
  /\ users \subseteq Emails
  /\ ended \subseteq Tokens

\* Between the lock and the end of its transaction a handler alone holds it,
\* and before its INSERT there is nobody.
Locked ==
  /\ \A r \in Requests : req[r].pc \in {"count", "commit"} => lock = {r}
  /\ \A r \in Requests : req[r].pc = "commit" => users = {}

\* Handlers that use an address have one, and so have sessions.
Named ==
  /\ \A r \in Requests : req[r].pc \notin {"idle", "delete"} => req[r].email \in Emails
  /\ \A t \in Tokens : sessions[t] # Gone => sessions[t].user \in Emails

\* Sessions not issued yet have no row, and nobody has logged out of them.
Unissued ==
  /\ \A t \in Tokens : t > issued => sessions[t] = Gone
  /\ \A t \in ended : ~(t > issued)

AccountsInv ==
  Types /\ Locked /\ Named /\ Unissued /\ OneAdministrator /\ LoggedOutStaysOut

LEMMA Locals ==
  /\ Idle \in ReqType /\ Gone \in RowType
  /\ \A q \in ReqType, pc \in Pcs : [q EXCEPT !.pc = pc] \in ReqType
  /\ \A q \in ReqType, pc \in Pcs, b \in BOOLEAN : [q EXCEPT !.pc = pc, !.ok = b] \in ReqType
  /\ \A q \in ReqType, e \in AnyEmail : [q EXCEPT !.email = e] \in ReqType
  /\ \A q \in ReqType, pc \in Pcs, e \in AnyEmail : [q EXCEPT !.pc = pc, !.email = e] \in ReqType
  /\ \A q \in ReqType, pc \in Pcs, t \in Nat : [q EXCEPT !.pc = pc, !.token = t] \in ReqType
<1>1. Idle \in ReqType /\ Gone \in RowType
  BY DEF Idle, Gone, ReqType, RowType, AnyEmail, Pcs, Null
<1>2. \A q \in ReqType, pc \in Pcs : [q EXCEPT !.pc = pc] \in ReqType
  BY DEF ReqType
<1>3. \A q \in ReqType, pc \in Pcs, b \in BOOLEAN : [q EXCEPT !.pc = pc, !.ok = b] \in ReqType
  BY DEF ReqType
<1>4. \A q \in ReqType, e \in AnyEmail : [q EXCEPT !.email = e] \in ReqType
  BY DEF ReqType
<1>5. \A q \in ReqType, pc \in Pcs, e \in AnyEmail : [q EXCEPT !.pc = pc, !.email = e] \in ReqType
  BY DEF ReqType
<1>6. \A q \in ReqType, pc \in Pcs, t \in Nat : [q EXCEPT !.pc = pc, !.token = t] \in ReqType
  BY DEF ReqType
<1> QED BY <1>1, <1>2, <1>3, <1>4, <1>5, <1>6

LEMMA Numbers == \A t \in Tokens : t \in Nat
  BY DEF Tokens

LEMMA InitAccounts == Init => AccountsInv
<1> SUFFICES ASSUME Init PROVE AccountsInv
  OBVIOUS
<1>1. Types
  BY Locals, ConstantsAssumption DEF Init, Types
<1>2. Locked /\ Named /\ Unissued
  BY DEF Init, Locked, Named, Unissued, Idle
<1>3. OneAdministrator /\ LoggedOutStaysOut
  BY DEF Init, OneAdministrator, LoggedOutStaysOut
<1> QED BY <1>1, <1>2, <1>3 DEF AccountsInv

\* One handler changes, and the others keep their locals.
LEMMA OneHandler ==
  ASSUME Types, NEW r \in Requests, NEW q \in ReqType, req' = [req EXCEPT ![r] = q]
  PROVE  /\ req' \in [Requests -> ReqType]
         /\ req'[r] = q
         /\ \A x \in Requests \ {r} : req'[x] = req[x]
  BY DEF Types

\* A handler that is not about to insert, the rows of sessions as they are.
LEMMA LocalStep ==
  ASSUME AccountsInv, NEW r \in Requests, NEW q \in ReqType, req' = [req EXCEPT ![r] = q],
         q.pc \notin {"count", "commit"},
         q.pc \notin {"idle", "delete"} => q.email \in Emails,
         lock' \in {lock, lock \ {r}},
         UNCHANGED <<clock, users, sessions, issued, ended>>
  PROVE  AccountsInv'
<1>1. Types /\ Locked /\ Named /\ Unissued /\ OneAdministrator /\ LoggedOutStaysOut
  BY DEF AccountsInv
<1>2. /\ req' \in [Requests -> ReqType]
      /\ req'[r] = q
      /\ \A x \in Requests \ {r} : req'[x] = req[x]
  BY <1>1, OneHandler
<1>3. Types'
  BY <1>1, <1>2 DEF Types
<1>4. Locked'
  BY <1>1, <1>2 DEF Locked
<1>5. Named'
  BY <1>1, <1>2 DEF Named
<1>6. Unissued' /\ OneAdministrator' /\ LoggedOutStaysOut'
  BY <1>1 DEF Unissued, OneAdministrator, LoggedOutStaysOut
<1> QED BY <1>3, <1>4, <1>5, <1>6 DEF AccountsInv

\* Only rows of sessions change: one of them goes, or stays somebody's.
LEMMA RowsStep ==
  ASSUME AccountsInv, UNCHANGED <<clock, users, issued>>,
         sessions' \in [Tokens -> RowType],
         \A t \in Tokens : \/ sessions'[t] = Gone
                           \/ sessions[t] # Gone /\ sessions'[t].user = sessions[t].user,
         ended \subseteq ended', ended' \subseteq Tokens,
         \A t \in ended' \ ended : sessions[t] # Gone /\ sessions'[t] = Gone
  PROVE  /\ (req' = req /\ lock' = lock) => AccountsInv'
         /\ Unissued' /\ OneAdministrator' /\ LoggedOutStaysOut'
         /\ \A t \in Tokens : sessions'[t] # Gone => sessions'[t].user \in Emails
<1>1. Types /\ Locked /\ Named /\ Unissued /\ OneAdministrator /\ LoggedOutStaysOut
  BY DEF AccountsInv
<1>2. \A t \in Tokens : sessions'[t] # Gone => sessions'[t].user \in Emails
  BY <1>1 DEF Named
<1>3. Unissued'
  BY <1>1 DEF Unissued, Types
<1>4. OneAdministrator' /\ LoggedOutStaysOut'
  BY <1>1 DEF OneAdministrator, LoggedOutStaysOut, Types
<1>5. ASSUME req' = req, lock' = lock PROVE Types' /\ Locked' /\ Named'
  BY <1>1, <1>2, <1>5 DEF Types, Locked, Named
<1> QED BY <1>2, <1>3, <1>4, <1>5 DEF AccountsInv

\* A handler ends, whatever happens to the sessions.
LEMMA FinishStep ==
  ASSUME AccountsInv, NEW r \in Requests, Finish(r), UNCHANGED <<lock, users>>
  PROVE  /\ req' \in [Requests -> ReqType] /\ Locked'
         /\ \A x \in Requests : req'[x].pc \notin {"idle", "delete"} => req'[x].email \in Emails
<1>1. Types /\ Locked /\ Named
  BY DEF AccountsInv
<1>2. req' = [req EXCEPT ![r] = Idle] /\ Idle \in ReqType /\ Idle.pc = "idle"
  BY Locals DEF Finish, Idle
<1>3. /\ req' \in [Requests -> ReqType]
      /\ req'[r] = Idle
      /\ \A x \in Requests \ {r} : req'[x] = req[x]
  BY <1>1, <1>2, OneHandler
<1>4. Locked'
  BY <1>1, <1>2, <1>3 DEF Locked
<1> QED BY <1>1, <1>2, <1>3, <1>4 DEF Named

LEMMA TickInv == ASSUME AccountsInv, Tick PROVE AccountsInv'
<1>1. clock' = clock + 1 /\ UNCHANGED <<req, lock, users, sessions, issued, ended>>
  BY DEF Tick, authVars, sessionVars
<1>2. Types /\ Locked /\ Named /\ Unissued /\ OneAdministrator /\ LoggedOutStaysOut
  BY DEF AccountsInv
<1>3. Types'
  BY <1>1, <1>2 DEF Types
<1> QED BY <1>1, <1>2, <1>3
        DEF AccountsInv, Locked, Named, Unissued, OneAdministrator, LoggedOutStaysOut

\* The handlers' steps that only move on, or die.
LEMMA MovesInv ==
  ASSUME AccountsInv, NEW r \in Requests,
         Setup(r) \/ Login(r) \/ Verify(r) \/ RecordAttempt(r) \/ Crash(r)
  PROVE  AccountsInv'
<1>1. req[r] \in ReqType
  BY DEF AccountsInv, Types
<1>2. UNCHANGED <<clock, users, sessions, issued, ended>> /\ lock' \in {lock, lock \ {r}}
  BY DEF Setup, Login, Verify, RecordAttempt, Crash, authVars, sessionVars
<1>3. Idle \in ReqType /\ Idle.pc = "idle"
  BY Locals DEF Idle
<1>4. CASE req' = [req EXCEPT ![r] = Idle]
  BY <1>2, <1>3, <1>4, LocalStep
<1>5. ASSUME NEW e \in Emails, NEW pc \in {"begin", "verify"},
             req' = [req EXCEPT ![r] = [Idle EXCEPT !.pc = pc, !.email = e]]
      PROVE  AccountsInv'
  <2> DEFINE q == [Idle EXCEPT !.pc = pc, !.email = e]
  <2>1. q \in ReqType
    BY Locals DEF AnyEmail, Pcs
  <2>2. q.pc = pc /\ q.email = e
    BY DEF Idle
  <2>3. req' = [req EXCEPT ![r] = q]
    BY <1>5
  <2> HIDE DEF q
  <2> QED BY <1>2, <2>1, <2>2, <2>3, LocalStep
<1>6. ASSUME NEW b \in BOOLEAN, req[r].pc = "verify",
             req' = [req EXCEPT ![r].pc = "record", ![r].ok = b]
      PROVE  AccountsInv'
  <2> DEFINE q == [req[r] EXCEPT !.pc = "record", !.ok = b]
  <2>1. q \in ReqType
    BY <1>1, Locals DEF Pcs
  <2>2. q.pc = "record" /\ q.email = req[r].email
    BY <1>1 DEF ReqType
  <2>3. req' = [req EXCEPT ![r] = q]
    BY <1>6
  <2>4. q.email \in Emails
    BY <1>6, <2>2 DEF AccountsInv, Named
  <2> HIDE DEF q
  <2> QED BY <1>2, <2>1, <2>2, <2>3, <2>4, LocalStep
<1>7. ASSUME req[r].pc = "record", req' = [req EXCEPT ![r].pc = "session"]
      PROVE  AccountsInv'
  <2> DEFINE q == [req[r] EXCEPT !.pc = "session"]
  <2>1. q \in ReqType
    BY <1>1, Locals DEF Pcs
  <2>2. q.pc = "session" /\ q.email = req[r].email
    BY <1>1 DEF ReqType
  <2>3. req' = [req EXCEPT ![r] = q]
    BY <1>7
  <2>4. q.email \in Emails
    BY <1>7, <2>2 DEF AccountsInv, Named
  <2> HIDE DEF q
  <2> QED BY <1>2, <2>1, <2>2, <2>3, <2>4, LocalStep
<1>8. CASE Setup(r)
  BY <1>5, <1>8 DEF Setup
<1>9. CASE Login(r)
  BY <1>5, <1>9 DEF Login
<1>10. CASE Verify(r)
  <2>1. PICK ok \in {FALSE, req[r].email \in users} :
          req' = [req EXCEPT ![r].pc = "record", ![r].ok = ok]
    BY <1>10 DEF Verify
  <2>2. ok \in BOOLEAN
    <3>1. CASE ok = FALSE
      BY <3>1
    <3>2. CASE ok = (req[r].email \in users)
      <4>1. CASE req[r].email \in users
        BY <3>2, <4>1
      <4>2. CASE req[r].email \notin users
        BY <3>2, <4>2
      <4> QED BY <4>1, <4>2
    <3> QED BY <2>1, <3>1, <3>2
  <2>3. req[r].pc = "verify"
    BY <1>10 DEF Verify, At
  <2> QED BY <1>6, <2>1, <2>2, <2>3
<1>11. CASE RecordAttempt(r)
  BY <1>4, <1>7, <1>11 DEF RecordAttempt, At, Goto, Finish
<1>12. CASE Crash(r)
  BY <1>4, <1>12 DEF Crash, Finish
<1> QED BY <1>8, <1>9, <1>10, <1>11, <1>12

\* The lock, the count under it, and the only INSERT.
LEMMA SetupInv ==
  ASSUME AccountsInv, NEW r \in Requests, Lock(r) \/ CountUsers(r) \/ CommitUser(r)
  PROVE  AccountsInv'
<1>1. Types /\ Locked /\ Named /\ Unissued /\ OneAdministrator /\ LoggedOutStaysOut
  BY DEF AccountsInv
<1>2. UNCHANGED <<clock, sessions, issued, ended>>
  BY DEF Lock, CountUsers, CommitUser, sessionVars
<1>3. req[r] \in ReqType
  BY <1>1 DEF Types
<1>4. CASE CountUsers(r) /\ users # {}
  <2>1. Idle \in ReqType /\ Idle.pc = "idle"
    BY Locals DEF Idle
  <2>2. req' = [req EXCEPT ![r] = Idle] /\ lock' = lock \ {r} /\ users' = users
    BY <1>4 DEF CountUsers, Finish
  <2> QED BY <1>2, <2>1, <2>2, LocalStep
<1>5. ASSUME NEW pc \in {"count", "commit", "session"}, Goto(r, pc),
             req[r].pc \in {"begin", "count", "commit"}
      PROVE  /\ req' \in [Requests -> ReqType]
             /\ req'[r].pc = pc /\ req'[r].email = req[r].email
             /\ \A x \in Requests \ {r} : req'[x] = req[x]
             /\ Named'
  <2> DEFINE q == [req[r] EXCEPT !.pc = pc]
  <2>0. pc \in Pcs
    BY DEF Pcs
  <2>1. q \in ReqType /\ q.pc = pc /\ q.email = req[r].email
    <3>1. q \in ReqType
      BY <1>3, <2>0, Locals
    <3>2. q.pc = pc /\ q.email = req[r].email
      BY <1>3 DEF ReqType
    <3> QED BY <3>1, <3>2
  <2>2. req' = [req EXCEPT ![r] = q]
    BY <1>5 DEF Goto
  <2> HIDE DEF q
  <2>3. /\ req' \in [Requests -> ReqType]
        /\ req'[r] = q
        /\ \A x \in Requests \ {r} : req'[x] = req[x]
    BY <1>1, <2>1, <2>2, OneHandler
  <2>4. req[r].email \in Emails
    BY <1>1, <1>5 DEF Named
  <2>5. Named'
    BY <1>1, <1>2, <2>1, <2>3, <2>4 DEF Named
  <2> QED BY <2>1, <2>3, <2>5
<1>6. CASE Lock(r)
  <2>1. lock = {} /\ lock' = {r} /\ users' = users /\ Goto(r, "count") /\ req[r].pc = "begin"
    BY <1>6 DEF Lock, At
  <2>2. /\ req' \in [Requests -> ReqType] /\ req'[r].pc = "count"
        /\ \A x \in Requests \ {r} : req'[x] = req[x]
        /\ Named'
    BY <1>5, <2>1
  <2>3. Locked'
    BY <1>1, <2>1, <2>2 DEF Locked
  <2> QED BY <1>1, <1>2, <2>1, <2>2, <2>3
          DEF AccountsInv, Types, Unissued, OneAdministrator, LoggedOutStaysOut
<1>7. CASE CountUsers(r) /\ users = {}
  <2>1. lock' = lock /\ users' = users /\ Goto(r, "commit") /\ req[r].pc = "count"
    BY <1>7 DEF CountUsers, At
  <2>2. /\ req' \in [Requests -> ReqType] /\ req'[r].pc = "commit"
        /\ \A x \in Requests \ {r} : req'[x] = req[x]
        /\ Named'
    BY <1>5, <2>1
  <2>3. Locked'
    BY <1>1, <1>7, <2>1, <2>2 DEF Locked
  <2> QED BY <1>1, <1>2, <2>1, <2>2, <2>3
          DEF AccountsInv, Types, Unissued, OneAdministrator, LoggedOutStaysOut
<1>8. CASE CommitUser(r)
  <2>1. /\ lock' = lock \ {r} /\ users' = users \cup {req[r].email}
        /\ Goto(r, "session") /\ req[r].pc = "commit"
    BY <1>8 DEF CommitUser, At
  <2>2. /\ req' \in [Requests -> ReqType] /\ req'[r].pc = "session"
        /\ \A x \in Requests \ {r} : req'[x] = req[x]
        /\ Named'
    BY <1>5, <2>1
  <2>3. req[r].email \in Emails /\ users = {} /\ lock = {r}
    BY <1>1, <2>1 DEF Named, Locked
  <2>4. users' = {req[r].email}
    BY <2>1, <2>3
  <2>5. Locked'
    BY <1>1, <2>1, <2>2, <2>3 DEF Locked
  <2>6. Types'
    BY <1>1, <1>2, <2>2, <2>3, <2>4 DEF Types
  <2>7. OneAdministrator'
    BY <2>4 DEF OneAdministrator
  <2> QED BY <1>1, <1>2, <2>2, <2>5, <2>6, <2>7 DEF AccountsInv, Unissued, LoggedOutStaysOut
<1> QED BY <1>4, <1>6, <1>7, <1>8

\* A session is issued under a number nobody has, to somebody.
LEMMA CreateSessionInv ==
  ASSUME AccountsInv, NEW r \in Requests, CreateSession(r) PROVE AccountsInv'
<1>1. Types /\ Locked /\ Named /\ Unissued /\ OneAdministrator /\ LoggedOutStaysOut
  BY DEF AccountsInv
<1> DEFINE new == [user |-> req[r].email, last |-> Null, expires |-> clock + SessionTtl]
<1>2. /\ req[r].pc = "session" /\ issued < MaxSessions /\ issued' = issued + 1
      /\ sessions' = [sessions EXCEPT ![issued + 1] = new]
      /\ Finish(r)
      /\ UNCHANGED <<clock, lock, users, ended>>
  BY DEF CreateSession, At, authVars
<1>3. /\ req' \in [Requests -> ReqType] /\ Locked'
      /\ \A x \in Requests : req'[x].pc \notin {"idle", "delete"} => req'[x].email \in Emails
  BY <1>2, FinishStep
<1>4. req[r].email \in Emails
  BY <1>1, <1>2 DEF Named
<1>5. new \in RowType /\ new.user \in Emails
  BY <1>1, <1>4, ConstantsAssumption DEF Types, RowType, AnyEmail, Null
<1>6. issued + 1 \in Tokens /\ issued \in Nat
  BY <1>1, <1>2, ConstantsAssumption DEF Types, Tokens
<1> HIDE DEF new
<1>7. /\ sessions' \in [Tokens -> RowType]
      /\ sessions'[issued + 1] = new
      /\ \A t \in Tokens \ {issued + 1} : sessions'[t] = sessions[t]
  BY <1>1, <1>2, <1>5, <1>6 DEF Types
<1>8. Types'
  BY <1>1, <1>2, <1>3, <1>6, <1>7 DEF Types
<1>9. Named'
  BY <1>1, <1>3, <1>5, <1>7 DEF Named
<1>10. \A t \in Tokens : t \in Int
  BY Numbers
<1>11. \A t \in ended : t \in Tokens \ {issued + 1}
  BY <1>1, <1>6, <1>10 DEF Unissued, Types
<1>12. Unissued'
  BY <1>1, <1>2, <1>6, <1>7, <1>10, <1>11 DEF Unissued, Types
<1>13. OneAdministrator' /\ LoggedOutStaysOut'
  BY <1>1, <1>2, <1>7, <1>11 DEF OneAdministrator, LoggedOutStaysOut
<1> QED BY <1>3, <1>8, <1>9, <1>12, <1>13 DEF AccountsInv

LEMMA RefreshedRow ==
  ASSUME Types, NEW t \in Tokens
  PROVE  /\ Refreshed(sessions[t]) \in RowType
         /\ \/ Refreshed(sessions[t]) = Gone
            \/ sessions[t] # Gone /\ Refreshed(sessions[t]).user = sessions[t].user
<1>1. sessions[t] \in RowType /\ clock \in Int /\ clock + SessionTtl \in Int
  BY ConstantsAssumption DEF Types
<1>2. CASE sessions[t] = Gone
  BY <1>2, Locals DEF Refreshed
<1>3. CASE sessions[t] # Gone
  <2>1. Refreshed(sessions[t]) = [sessions[t] EXCEPT !.last = clock, !.expires = clock + SessionTtl]
    BY <1>3 DEF Refreshed
  <2> DEFINE old == sessions[t]
             end == clock + SessionTtl
  <2> HIDE DEF old, end
  <2>2. old \in RowType /\ clock \in Int /\ end \in Int
    BY <1>1 DEF old, end
  <2>3. /\ [old EXCEPT !.last = clock, !.expires = end] \in RowType
        /\ [old EXCEPT !.last = clock, !.expires = end].user = old.user
    BY <2>2 DEF RowType
  <2> QED BY <1>3, <2>1, <2>3 DEF old, end
<1> QED BY <1>2, <1>3

\* Pruning, the background refresh and a logout of one session.
LEMMA SessionsInv ==
  ASSUME AccountsInv,
         PruneSessions \/ \E t \in Tokens : RefreshLands(t) \/ Logout(t)
  PROVE  AccountsInv'
<1>1. Types
  BY DEF AccountsInv
<1>2. UNCHANGED <<clock, req, lock, users, issued>>
  BY DEF PruneSessions, RefreshLands, Logout, authVars
<1>3. CASE PruneSessions
  <2>1. sessions' = [t \in Tokens |-> IF sessions[t].expires < clock THEN Gone ELSE sessions[t]]
        /\ ended' = ended
    BY <1>3 DEF PruneSessions
  <2>2. \A t \in Tokens : sessions[t] \in RowType
    BY <1>1 DEF Types
  <2>3. sessions' \in [Tokens -> RowType]
    BY <2>1, <2>2, Locals
  <2>4. \A t \in Tokens : \/ sessions'[t] = Gone
                          \/ sessions[t] # Gone /\ sessions'[t].user = sessions[t].user
    BY <2>1
  <2>5. ended \subseteq ended' /\ ended' \subseteq Tokens
    BY <1>1, <2>1 DEF Types
  <2> QED BY <1>2, <2>1, <2>3, <2>4, <2>5, RowsStep
<1>4. ASSUME NEW t \in Tokens, RefreshLands(t) PROVE AccountsInv'
  <2>1. sessions' = [sessions EXCEPT ![t] = Refreshed(sessions[t])] /\ ended' = ended
    BY <1>4 DEF RefreshLands
  <2>2. /\ sessions' \in [Tokens -> RowType]
        /\ sessions'[t] = Refreshed(sessions[t])
        /\ \A x \in Tokens \ {t} : sessions'[x] = sessions[x]
    BY <1>1, <2>1, RefreshedRow DEF Types
  <2>3. \A x \in Tokens : \/ sessions'[x] = Gone
                          \/ sessions[x] # Gone /\ sessions'[x].user = sessions[x].user
    BY <1>1, <2>2, RefreshedRow
  <2>4. ended \subseteq ended' /\ ended' \subseteq Tokens
    BY <1>1, <2>1 DEF Types
  <2> QED BY <1>2, <2>1, <2>2, <2>3, <2>4, RowsStep
<1>5. ASSUME NEW t \in Tokens, Logout(t) PROVE AccountsInv'
  <2>1. sessions[t] # Gone /\ sessions' = [sessions EXCEPT ![t] = Gone] /\ ended' = ended \cup {t}
    BY <1>5 DEF Logout
  <2>2. /\ sessions' \in [Tokens -> RowType]
        /\ sessions'[t] = Gone
        /\ \A x \in Tokens \ {t} : sessions'[x] = sessions[x]
    BY <1>1, <2>1, Locals DEF Types
  <2>3. \A x \in Tokens : \/ sessions'[x] = Gone
                          \/ sessions[x] # Gone /\ sessions'[x].user = sessions[x].user
    BY <2>2
  <2>4. /\ ended \subseteq ended' /\ ended' \subseteq Tokens
        /\ \A x \in ended' \ ended : sessions[x] # Gone /\ sessions'[x] = Gone
    BY <1>1, <2>1, <2>2 DEF Types
  <2> QED BY <1>2, <2>2, <2>3, <2>4, RowsStep
<1> QED BY <1>3, <1>4, <1>5

\* The handlers that delete one session, or all of a user.
LEMMA DeletesInv ==
  ASSUME AccountsInv, NEW r \in Requests, DeleteSession(r) \/ DeleteSessionsForUser(r)
  PROVE  AccountsInv'
<1>1. Types /\ Named
  BY DEF AccountsInv
<1>2. Finish(r) /\ UNCHANGED <<clock, lock, users, issued>>
  BY DEF DeleteSession, DeleteSessionsForUser, authVars
<1>3. /\ req' \in [Requests -> ReqType] /\ Locked'
      /\ \A x \in Requests : req'[x].pc \notin {"idle", "delete"} => req'[x].email \in Emails
  BY <1>2, FinishStep
<1>4. /\ sessions' \in [Tokens -> RowType]
      /\ \A t \in Tokens : \/ sessions'[t] = Gone
                           \/ sessions[t] # Gone /\ sessions'[t].user = sessions[t].user
      /\ ended \subseteq ended' /\ ended' \subseteq Tokens
      /\ \A t \in ended' \ ended : sessions[t] # Gone /\ sessions'[t] = Gone
  <2>1. CASE DeleteSession(r)
    <3>1. sessions' = [sessions EXCEPT ![req[r].token] = Gone] /\ ended' = ended
      BY <2>1 DEF DeleteSession
    <3>2. \A t \in Tokens : sessions'[t] \in {Gone, sessions[t]}
      BY <1>1, <3>1 DEF Types
    <3>3. sessions' \in [Tokens -> RowType]
      BY <1>1, <3>1, Locals DEF Types
    <3> QED BY <1>1, <3>1, <3>2, <3>3 DEF Types
  <2>2. CASE DeleteSessionsForUser(r)
    <3> DEFINE theirs == {t \in Tokens : sessions[t].user = req[r].email}
    <3>1. /\ req[r].pc = "delete all"
          /\ sessions' = [t \in Tokens |-> IF t \in theirs THEN Gone ELSE sessions[t]]
          /\ ended' = ended \cup theirs
      BY <2>2 DEF DeleteSessionsForUser, At
    <3>2. req[r].email # NoUser
      BY <1>1, <3>1, ConstantsAssumption DEF Named
    <3>3. \A t \in theirs : sessions[t] # Gone
      BY <3>2 DEF Gone
    <3>4. \A t \in Tokens : sessions[t] \in RowType
      BY <1>1 DEF Types
    <3>5. sessions' \in [Tokens -> RowType]
      BY <3>1, <3>4, Locals
    <3>6. theirs \subseteq Tokens
      OBVIOUS
    <3> HIDE DEF theirs
    <3> QED BY <1>1, <3>1, <3>3, <3>5, <3>6 DEF Types
  <2> QED BY <2>1, <2>2
<1>5. /\ Unissued' /\ OneAdministrator' /\ LoggedOutStaysOut'
      /\ \A t \in Tokens : sessions'[t] # Gone => sessions'[t].user \in Emails
  BY <1>2, <1>4, RowsStep
<1>6. Types' /\ Named'
  BY <1>1, <1>2, <1>3, <1>4, <1>5 DEF Types, Named
<1> QED BY <1>3, <1>5, <1>6 DEF AccountsInv

\* A request with a session is let in, or goes on to delete it.
LEMMA SessionUserInv ==
  ASSUME AccountsInv, NEW r \in Requests, Request(r) \/ LogoutEverywhere(r)
  PROVE  AccountsInv'
<1>1. PICK t \in Tokens, then \in {Idle, [Idle EXCEPT !.pc = "delete all"]} : SessionUser(r, t, then)
  BY DEF Request, LogoutEverywhere
<1>2. UNCHANGED <<clock, lock, users, sessions, issued, ended>> /\ sessions[t] # Gone
  BY <1>1 DEF SessionUser, authVars
<1>3. sessions[t].user \in Emails
  BY <1>2 DEF AccountsInv, Named
<1>4. t \in Nat /\ then \in ReqType /\ then.pc \in {"idle", "delete all"}
  <2>1. t \in Nat
    BY Numbers
  <2>2. Idle \in ReqType /\ [Idle EXCEPT !.pc = "delete all"] \in ReqType
    <3>1. "delete all" \in Pcs
      BY DEF Pcs
    <3> QED BY <3>1, Locals
  <2>3. Idle.pc = "idle" /\ [Idle EXCEPT !.pc = "delete all"].pc = "delete all"
    BY DEF Idle
  <2> QED BY <2>1, <2>2, <2>3
<1>5. ASSUME req' = [req EXCEPT ![r] = [Idle EXCEPT !.pc = "delete", !.token = t]]
      PROVE  AccountsInv'
  <2> DEFINE q == [Idle EXCEPT !.pc = "delete", !.token = t]
  <2>1. q \in ReqType
    BY <1>4, Locals DEF Pcs
  <2>2. q.pc = "delete"
    BY DEF Idle
  <2>3. req' = [req EXCEPT ![r] = q]
    BY <1>5
  <2> HIDE DEF q
  <2> QED BY <1>2, <2>1, <2>2, <2>3, LocalStep
<1>6. ASSUME req' = [req EXCEPT ![r] = [then EXCEPT !.email = sessions[t].user]]
      PROVE  AccountsInv'
  <2> DEFINE q == [then EXCEPT !.email = sessions[t].user]
  <2>1. q \in ReqType
    BY <1>3, <1>4, Locals DEF AnyEmail
  <2>2. q.pc = then.pc /\ q.email = sessions[t].user
    BY <1>4 DEF ReqType
  <2>3. req' = [req EXCEPT ![r] = q]
    BY <1>6
  <2> HIDE DEF q
  <2> QED BY <1>2, <1>3, <1>4, <2>1, <2>2, <2>3, LocalStep
<1> QED BY <1>1, <1>5, <1>6 DEF SessionUser

LEMMA UntouchedInv ==
  ASSUME AccountsInv, UNCHANGED <<clock, req, lock, users, sessions, issued, ended>>
  PROVE  AccountsInv'
  BY DEF AccountsInv, Types, Locked, Named, Unissued, OneAdministrator, LoggedOutStaysOut

LEMMA AccountsStep == AccountsInv /\ [Next]_vars => AccountsInv'
<1> SUFFICES ASSUME AccountsInv, [Next]_vars PROVE AccountsInv'
  OBVIOUS
<1>1. CASE Tick
  BY <1>1, TickInv
<1>2. CASE PruneAttempts
  BY <1>2, UntouchedInv DEF PruneAttempts, sessionVars
<1>3. CASE PruneSessions
  BY <1>3, SessionsInv
<1>4. ASSUME NEW r \in Requests,
             \/ Setup(r) \/ Lock(r) \/ CountUsers(r) \/ CommitUser(r)
             \/ Login(r) \/ Verify(r) \/ RecordAttempt(r) \/ CreateSession(r) \/ Crash(r)
             \/ Request(r) \/ LogoutEverywhere(r) \/ DeleteSession(r) \/ DeleteSessionsForUser(r)
      PROVE  AccountsInv'
  BY <1>4, MovesInv, SetupInv, CreateSessionInv, SessionUserInv, DeletesInv
<1>5. ASSUME NEW t \in Tokens, RefreshLands(t) \/ RefreshFails(t) \/ Logout(t)
      PROVE  AccountsInv'
  <2>1. CASE RefreshFails(t)
    BY <2>1, UntouchedInv DEF RefreshFails, authVars
  <2> QED BY <1>5, <2>1, SessionsInv
<1>6. CASE UNCHANGED vars
  BY <1>6, UntouchedInv DEF vars, authVars, sessionVars
<1> QED BY <1>1, <1>2, <1>3, <1>4, <1>5, <1>6 DEF Next

\* However many setup requests race, and wherever they die, createUserExclusive
\* makes at most one administrator.
THEOREM SetupIsExclusive == Spec => []OneAdministrator
<1>1. AccountsInv => OneAdministrator
  BY DEF AccountsInv
<1> QED BY InitAccounts, AccountsStep, <1>1, PTL DEF Spec

\* A session somebody logged out of never comes back: the background refresh of
\* sessionUser only updates rows there are, and tokens are drawn once.
THEOREM LogoutIsFinal == Spec => []LoggedOutStaysOut
<1>1. AccountsInv => LoggedOutStaysOut
  BY DEF AccountsInv
<1> QED BY InitAccounts, AccountsStep, <1>1, PTL DEF Spec

-----------------------------------------------------------------------------
(* Guesses *)

Attempt == [email : Emails, at : Nat]

\* The failures the limiter counts, and the handlers past it that may fail.
FailedIn(e) == {i \in DOMAIN attempts : InWindow(e, attempts[i])}
Pending(e) ==
  {r \in Requests : req[r].pc \in {"verify", "record"} /\ (e = NoUser \/ req[r].email = e)}

LimitOf(e) == IF e = NoUser THEN MaxPerIp ELSE MaxPerEmail

Within(e) == Failures(e) + Cardinality(Pending(e)) < LimitOf(e) + Cardinality(Requests)

GuessInv == attempts \in Seq(Attempt) /\ \A e \in AnyEmail : Within(e)

LEMMA GuessNumbers ==
  ASSUME attempts \in Seq(Attempt), NEW e
  PROVE  /\ IsFiniteSet(FailedIn(e)) /\ Failures(e) = Cardinality(FailedIn(e)) /\ Failures(e) \in Nat
         /\ IsFiniteSet(Pending(e)) /\ Cardinality(Pending(e)) \in Nat
         /\ Cardinality(Pending(e)) <= Cardinality(Requests) /\ Cardinality(Requests) \in Nat
         /\ LimitOf(e) \in Nat
<1>1. DOMAIN attempts = 1 .. Len(attempts) /\ Len(attempts) \in Nat
  OBVIOUS
<1>2. IsFiniteSet(DOMAIN attempts)
  BY <1>1, FS_Interval
<1>3. IsFiniteSet(FailedIn(e))
  BY <1>2, FS_Subset DEF FailedIn
<1>4. Failures(e) = Cardinality(FailedIn(e))
  BY DEF Failures, FailedIn
<1>5. Pending(e) \in SUBSET Requests /\ IsFiniteSet(Requests)
  BY ConstantsAssumption DEF Pending
<1>6. LimitOf(e) \in Nat
  BY ConstantsAssumption DEF LimitOf
<1> QED BY <1>3, <1>4, <1>5, <1>6, FS_Subset, FS_CardinalityType

LEMMA GuessNumbersAfter ==
  ASSUME attempts' \in Seq(Attempt), NEW e
  PROVE  /\ IsFiniteSet(FailedIn(e)') /\ Failures(e)' = Cardinality(FailedIn(e)')
         /\ Failures(e)' \in Nat
         /\ IsFiniteSet(Pending(e)') /\ Cardinality(Pending(e)') \in Nat
         /\ Cardinality(Pending(e)') <= Cardinality(Requests)
<1>1. DOMAIN attempts' = 1 .. Len(attempts') /\ Len(attempts') \in Nat
  OBVIOUS
<1>2. IsFiniteSet(DOMAIN attempts')
  BY <1>1, FS_Interval
<1>3. FailedIn(e)' \in SUBSET (DOMAIN attempts')
  BY DEF FailedIn
<1>4. Failures(e)' = Cardinality(FailedIn(e)')
  BY DEF Failures, FailedIn
<1>5. Pending(e)' \in SUBSET Requests /\ IsFiniteSet(Requests)
  BY ConstantsAssumption DEF Pending
<1> QED BY <1>2, <1>3, <1>4, <1>5, FS_Subset, FS_CardinalityType

\* No failure more, and nobody more past the limiter.
LEMMA NotMore ==
  ASSUME GuessInv, attempts' \in Seq(Attempt), NEW e \in AnyEmail,
         Failures(e)' <= Failures(e), Pending(e)' \subseteq Pending(e)
  PROVE  Within(e)'
<1>1. /\ IsFiniteSet(Pending(e)) /\ Cardinality(Pending(e)) \in Nat /\ Failures(e) \in Nat
      /\ LimitOf(e) \in Nat /\ Cardinality(Requests) \in Nat
  BY GuessNumbers DEF GuessInv
<1>2. Cardinality(Pending(e)') <= Cardinality(Pending(e)) /\ Cardinality(Pending(e)') \in Nat
  BY <1>1, FS_Subset, FS_CardinalityType
<1>3. Failures(e)' \in Nat
  BY GuessNumbersAfter
<1>4. Failures(e) + Cardinality(Pending(e)) < LimitOf(e) + Cardinality(Requests)
  BY DEF GuessInv, Within
<1>5. LimitOf(e)' = LimitOf(e)
  BY DEF LimitOf
<1> QED BY <1>1, <1>2, <1>3, <1>4, <1>5 DEF Within

\* A failure that is counted as before, or a window that moved on.
LEMMA FailuresNotMore ==
  ASSUME attempts \in Seq(Attempt), attempts' = attempts, clock \in Nat, clock' \in Nat,
         clock <= clock', NEW e \in AnyEmail
  PROVE  Failures(e)' <= Failures(e)
<1>1. \A i \in DOMAIN attempts : attempts[i] \in Attempt
  OBVIOUS
<1>2. FailedIn(e)' \in SUBSET FailedIn(e)
  BY <1>1, ConstantsAssumption DEF FailedIn, InWindow, Attempt
<1> QED BY <1>2, GuessNumbers, GuessNumbersAfter, FS_Subset

\* Pruning takes away what is not counted.
LEMMA PruneNotMore ==
  ASSUME attempts \in Seq(Attempt), PruneAttempts
  PROVE  attempts' \in Seq(Attempt) /\ \A e \in AnyEmail : Failures(e)' <= Failures(e)
<1>1. PICK k \in 0 .. Len(attempts) :
        /\ \A i \in DOMAIN attempts : i <= k <=> ~InWindow(NoUser, attempts[i])
        /\ attempts' = SubSeq(attempts, k + 1, Len(attempts))
  BY DEF PruneAttempts
<1>2. /\ attempts' \in Seq(Attempt)
      /\ Len(attempts') = Len(attempts) - k
      /\ \A i \in 1 .. Len(attempts') : attempts'[i] = attempts[i + k]
  BY <1>1, SubSeqProperties
<1>3. clock' = clock
  BY DEF PruneAttempts
<1>4. ASSUME NEW e \in AnyEmail PROVE Failures(e)' <= Failures(e)
  <2> DEFINE f == [i \in FailedIn(e)' |-> i + k]
  <2>1. \A i \in FailedIn(e)' : i \in 1 .. Len(attempts') /\ InWindow(e, attempts[i + k])
    BY <1>2, <1>3 DEF FailedIn, InWindow
  <2>2. \A i \in FailedIn(e)' : i \in Nat /\ i + k \in FailedIn(e)
    BY <1>1, <1>2, <2>1 DEF FailedIn
  <2>3. f \in Injection(FailedIn(e)', FailedIn(e))
    BY <2>2 DEF Injection, IsInjective
  <2> QED BY <2>3, <1>2, GuessNumbers, GuessNumbersAfter, FS_Injection
<1> QED BY <1>2, <1>4

\* A handler that is past the limiter no more, or still.
LEMMA PendingNotMore ==
  ASSUME Types, NEW r \in Requests, NEW q \in ReqType, req' = [req EXCEPT ![r] = q],
         \/ q.pc \notin {"verify", "record"}
         \/ req[r].pc \in {"verify", "record"} /\ q.email = req[r].email,
         NEW e
  PROVE  Pending(e)' \subseteq Pending(e)
<1>1. req'[r] = q /\ \A x \in Requests \ {r} : req'[x] = req[x]
  BY OneHandler
<1> QED BY <1>1 DEF Pending

\* The limiter lets a handler pass.
LEMMA LoginGuess ==
  ASSUME AccountsInv, GuessInv, NEW r \in Requests, Login(r) PROVE GuessInv'
<1>1. PICK e \in Emails :
        ~IsRateLimited(e) /\ req' = [req EXCEPT ![r] = [Idle EXCEPT !.pc = "verify", !.email = e]]
  BY DEF Login
<1>2. Types /\ attempts' = attempts /\ clock' = clock /\ attempts' \in Seq(Attempt)
  BY DEF AccountsInv, Login, authVars, GuessInv
<1> DEFINE q == [Idle EXCEPT !.pc = "verify", !.email = e]
<1>3. q \in ReqType /\ q.email = e
  <2>1. q \in ReqType
    BY Locals DEF AnyEmail, Pcs
  <2> QED BY <2>1 DEF Idle
<1>4. req' = [req EXCEPT ![r] = q]
  BY <1>1
<1> HIDE DEF q
<1>5. req'[r] = q /\ \A x \in Requests \ {r} : req'[x] = req[x]
  BY <1>2, <1>3, <1>4, OneHandler
<1>6. ASSUME NEW x \in AnyEmail PROVE Within(x)'
  <2>1. Failures(x)' = Failures(x)
    BY <1>2 DEF Failures, InWindow
  <2>2. CASE x \in {e, NoUser}
    <3>1. Failures(x) < LimitOf(x)
      <4>1. Failures(x) \in Nat /\ LimitOf(x) \in Nat
        BY GuessNumbers DEF GuessInv
      <4> QED BY <1>1, <2>2, <4>1, ConstantsAssumption DEF IsRateLimited, LimitOf
    <3>2. LimitOf(x)' = LimitOf(x)
      BY DEF LimitOf
    <3> QED BY <1>2, <2>1, <3>1, <3>2, GuessNumbers, GuessNumbersAfter DEF Within, GuessInv
  <2>3. CASE x \notin {e, NoUser}
    <3>1. Pending(x)' \subseteq Pending(x)
      BY <1>3, <1>5, <2>3 DEF Pending
    <3>2. Failures(x)' <= Failures(x)
      BY <2>1, GuessNumbers DEF GuessInv
    <3> QED BY <1>2, <3>1, <3>2, NotMore
  <2> QED BY <2>2, <2>3
<1> QED BY <1>2, <1>6 DEF GuessInv

\* The attempt is written down, and the handler is past it.
LEMMA RecordGuess ==
  ASSUME AccountsInv, GuessInv, NEW r \in Requests, RecordAttempt(r) PROVE GuessInv'
<1>1. /\ Types /\ Named /\ attempts \in Seq(Attempt) /\ req[r].pc = "record"
      /\ req[r] \in ReqType /\ clock' = clock /\ clock \in Nat
  BY DEF AccountsInv, Types, RecordAttempt, At, GuessInv
<1>2. PICK q \in ReqType : q.pc \notin {"verify", "record"} /\ req' = [req EXCEPT ![r] = q]
  <2>1. CASE req' = [req EXCEPT ![r] = Idle]
    <3>1. Idle \in ReqType /\ Idle.pc = "idle"
      BY Locals DEF Idle
    <3> QED BY <2>1, <3>1
  <2>2. CASE req' = [req EXCEPT ![r].pc = "session"]
    <3> DEFINE p == [req[r] EXCEPT !.pc = "session"]
    <3>1. p \in ReqType
      BY <1>1, Locals DEF Pcs
    <3>2. p.pc = "session"
      BY <1>1 DEF ReqType
    <3>3. req' = [req EXCEPT ![r] = p]
      BY <2>2
    <3> HIDE DEF p
    <3> QED BY <3>1, <3>2, <3>3
  <2> QED BY <2>1, <2>2 DEF RecordAttempt, Goto, Finish
<1>3. req'[r] = q /\ \A x \in Requests \ {r} : req'[x] = req[x]
  BY <1>1, <1>2, OneHandler
<1>4. \A e : Pending(e)' \subseteq Pending(e)
  BY <1>1, <1>2, PendingNotMore
<1>5. CASE req[r].ok
  <2>1. attempts' = attempts
    BY <1>5 DEF RecordAttempt, Recorded
  <2> QED BY <1>1, <1>4, <2>1, FailuresNotMore, NotMore DEF GuessInv
<1>6. CASE ~req[r].ok
  <2> DEFINE new == [email |-> req[r].email, at |-> clock]
  <2>1. attempts' = Append(attempts, new)
    BY <1>6 DEF RecordAttempt, Recorded
  <2>2. new \in Attempt /\ new.email = req[r].email
    BY <1>1 DEF Named, Attempt
  <2> HIDE DEF new
  <2>3. /\ attempts' \in Seq(Attempt) /\ Len(attempts') = Len(attempts) + 1
        /\ attempts'[Len(attempts) + 1] = new
        /\ \A i \in 1 .. Len(attempts) : attempts'[i] = attempts[i]
    BY <1>1, <2>1, <2>2, AppendProperties
  <2>4. ASSUME NEW e \in AnyEmail PROVE Within(e)'
    <3> DEFINE hit == e = NoUser \/ req[r].email = e
    <3>0. /\ DOMAIN attempts = 1 .. Len(attempts) /\ DOMAIN attempts' = 1 .. Len(attempts) + 1
          /\ Len(attempts) \in Nat
      BY <1>1, <2>3
    <3>1. FailedIn(e)' = IF hit THEN FailedIn(e) \cup {Len(attempts) + 1} ELSE FailedIn(e)
      <4>1. \A i \in 1 .. Len(attempts) : i \in FailedIn(e)' <=> i \in FailedIn(e)
        BY <1>1, <2>3, <3>0 DEF FailedIn, InWindow
      <4>2. Len(attempts) + 1 \in FailedIn(e)' <=> hit
        <5>1. new.at = clock /\ clock >= clock - Window
          BY <1>1, ConstantsAssumption DEF new
        <5> QED BY <1>1, <2>2, <2>3, <3>0, <5>1 DEF FailedIn, InWindow
      <4>3. FailedIn(e) \subseteq 1 .. Len(attempts) /\ FailedIn(e)' \subseteq 1 .. Len(attempts) + 1
        BY <3>0 DEF FailedIn
      <4>4. \A i \in 1 .. Len(attempts) + 1 : i \in 1 .. Len(attempts) \/ i = Len(attempts) + 1
        BY <3>0
      <4>5. \A i : i \in FailedIn(e)' <=> i \in FailedIn(e) \/ (hit /\ i = Len(attempts) + 1)
        <5> SUFFICES ASSUME NEW i
                     PROVE  i \in FailedIn(e)' <=> i \in FailedIn(e) \/ (hit /\ i = Len(attempts) + 1)
          OBVIOUS
        <5>1. CASE i \in 1 .. Len(attempts)
          BY <3>0, <4>1, <5>1
        <5>2. CASE i = Len(attempts) + 1
          BY <3>0, <4>2, <4>3, <5>2
        <5> QED BY <4>3, <4>4, <5>1, <5>2
      <4> QED BY <4>5
    <3> HIDE DEF hit
    <3>2. CASE ~hit
      <4>1. Failures(e)' <= Failures(e)
        BY <1>1, <2>3, <3>1, <3>2, GuessNumbers, GuessNumbersAfter
      <4> QED BY <1>4, <2>3, <4>1, NotMore
    <3>3. CASE hit
      <4>1. r \in Pending(e) /\ r \notin Pending(e)'
        BY <1>1, <1>2, <1>3, <3>3 DEF Pending, hit
      <4>2. Pending(e)' \subseteq Pending(e) \ {r}
        BY <1>4, <4>1
      <4>3. IsFiniteSet(Pending(e)) /\ IsFiniteSet(FailedIn(e)) /\ Failures(e) = Cardinality(FailedIn(e))
            /\ Cardinality(Pending(e)) \in Nat /\ Failures(e) \in Nat
            /\ LimitOf(e) \in Nat /\ Cardinality(Requests) \in Nat
        BY <1>1, GuessNumbers
      <4>4. Cardinality(Pending(e)') <= Cardinality(Pending(e)) - 1
        <5>1. IsFiniteSet(Pending(e) \ {r}) /\ Cardinality(Pending(e) \ {r}) = Cardinality(Pending(e)) - 1
          BY <4>1, <4>3, FS_RemoveElement
        <5> QED BY <4>2, <5>1, FS_Subset
      <4>5. Len(attempts) + 1 \notin FailedIn(e)
        BY <1>1 DEF FailedIn
      <4>6. Cardinality(FailedIn(e)') = Failures(e) + 1
        <5>1. FailedIn(e)' = FailedIn(e) \cup {Len(attempts) + 1}
          BY <3>1, <3>3
        <5>2. Cardinality(FailedIn(e) \cup {Len(attempts) + 1}) = Cardinality(FailedIn(e)) + 1
          BY <4>3, <4>5, FS_AddElement
        <5> QED BY <4>3, <5>1, <5>2
      <4>7. Failures(e)' = Failures(e) + 1 /\ Cardinality(Pending(e)') \in Nat
        BY <2>3, <4>6, GuessNumbersAfter
      <4>8. Failures(e) + Cardinality(Pending(e)) < LimitOf(e) + Cardinality(Requests)
        BY DEF GuessInv, Within
      <4>9. LimitOf(e)' = LimitOf(e)
        BY DEF LimitOf
      <4> QED BY <4>3, <4>4, <4>7, <4>8, <4>9 DEF Within
    <3> QED BY <3>2, <3>3
  <2> QED BY <2>3, <2>4 DEF GuessInv
<1> QED BY <1>5, <1>6

\* What a handler's locals become: only Login lets one past the limiter, and
\* only a request with a session goes on to delete one.
LEMMA NewLocals ==
  ASSUME AccountsInv, NEW r \in Requests,
         \/ Setup(r) \/ Lock(r) \/ CountUsers(r) \/ CommitUser(r)
         \/ Verify(r) \/ RecordAttempt(r) \/ CreateSession(r) \/ Crash(r)
         \/ Request(r) \/ LogoutEverywhere(r) \/ DeleteSession(r) \/ DeleteSessionsForUser(r)
  PROVE  \E q \in ReqType :
           /\ req' = [req EXCEPT ![r] = q]
           /\ \/ q.pc \notin {"verify", "record"}
              \/ req[r].pc \in {"verify", "record"} /\ q.email = req[r].email
           /\ q.pc = "delete" => Request(r) \/ LogoutEverywhere(r)
<1>1. req[r] \in ReqType /\ Types /\ Named
  BY DEF AccountsInv, Types
<1>2. Idle \in ReqType /\ Idle.pc = "idle"
  BY Locals DEF Idle
<1>3. CASE req' = [req EXCEPT ![r] = Idle]
  BY <1>2, <1>3
<1>4. ASSUME NEW pc \in {"count", "commit", "session"}, req' = [req EXCEPT ![r].pc = pc]
      PROVE  \E q \in ReqType : req' = [req EXCEPT ![r] = q] /\ q.pc = pc
  <2> DEFINE q == [req[r] EXCEPT !.pc = pc]
  <2>1. q \in ReqType
    BY <1>1, Locals DEF Pcs
  <2>2. q.pc = pc
    BY <1>1 DEF ReqType
  <2>3. req' = [req EXCEPT ![r] = q]
    BY <1>4
  <2> HIDE DEF q
  <2> QED BY <2>1, <2>2, <2>3
<1>5. CASE Setup(r)
  <2>1. PICK e \in Emails : req' = [req EXCEPT ![r] = [Idle EXCEPT !.pc = "begin", !.email = e]]
    BY <1>5 DEF Setup
  <2> DEFINE q == [Idle EXCEPT !.pc = "begin", !.email = e]
  <2>2. q \in ReqType
    BY Locals DEF Pcs, AnyEmail
  <2>3. q.pc = "begin"
    BY DEF Idle
  <2> HIDE DEF q
  <2> QED BY <2>1, <2>2, <2>3 DEF q
<1>6. CASE Verify(r)
  <2>1. PICK ok \in BOOLEAN : req' = [req EXCEPT ![r].pc = "record", ![r].ok = ok]
    <3>1. CASE req[r].email \in users
      <4>1. (req[r].email \in users) = TRUE
        BY <3>1
      <4> QED BY <1>6, <4>1 DEF Verify
    <3>2. CASE req[r].email \notin users
      <4>1. (req[r].email \in users) = FALSE
        BY <3>2
      <4> QED BY <1>6, <4>1 DEF Verify
    <3> QED BY <3>1, <3>2
  <2> DEFINE q == [req[r] EXCEPT !.pc = "record", !.ok = ok]
  <2>2. q \in ReqType
    BY <1>1, Locals DEF Pcs
  <2>3. q.pc = "record" /\ q.email = req[r].email /\ req[r].pc = "verify"
    BY <1>1, <1>6 DEF ReqType, Verify, At
  <2>4. req' = [req EXCEPT ![r] = q]
    BY <2>1
  <2> HIDE DEF q
  <2> QED BY <2>2, <2>3, <2>4
<1>7. CASE Request(r) \/ LogoutEverywhere(r)
  <2>1. PICK t \in Tokens, then \in {Idle, [Idle EXCEPT !.pc = "delete all"]} : SessionUser(r, t, then)
    BY <1>7 DEF Request, LogoutEverywhere
  <2>2. t \in Nat /\ then \in ReqType /\ then.pc \in {"idle", "delete all"}
    <3>1. t \in Nat
      BY Numbers
    <3>2. Idle \in ReqType /\ [Idle EXCEPT !.pc = "delete all"] \in ReqType
      <4>1. "delete all" \in Pcs
        BY DEF Pcs
      <4> QED BY <4>1, Locals
    <3>3. Idle.pc = "idle" /\ [Idle EXCEPT !.pc = "delete all"].pc = "delete all"
      BY DEF Idle
    <3> QED BY <3>1, <3>2, <3>3
  <2>3. CASE req' = [req EXCEPT ![r] = [Idle EXCEPT !.pc = "delete", !.token = t]]
    <3> DEFINE q == [Idle EXCEPT !.pc = "delete", !.token = t]
    <3>1. q \in ReqType
      BY <2>2, Locals DEF Pcs
    <3>2. q.pc = "delete"
      BY DEF Idle
    <3> HIDE DEF q
    <3> QED BY <1>7, <2>3, <3>1, <3>2 DEF q
  <2>4. CASE req' = [req EXCEPT ![r] = [then EXCEPT !.email = sessions[t].user]]
    <3> DEFINE q == [then EXCEPT !.email = sessions[t].user]
    <3>1. sessions[t].user \in AnyEmail
      BY <1>1 DEF Types, RowType
    <3>2. q \in ReqType
      BY <2>2, <3>1, Locals
    <3>3. q.pc = then.pc
      BY <2>2 DEF ReqType
    <3>4. req' = [req EXCEPT ![r] = q]
      BY <2>4
    <3> HIDE DEF q
    <3> QED BY <2>2, <3>2, <3>3, <3>4
  <2> QED BY <2>1, <2>3, <2>4 DEF SessionUser
<1>8. CASE \/ CreateSession(r) \/ Crash(r) \/ DeleteSession(r) \/ DeleteSessionsForUser(r)
  BY <1>3, <1>8 DEF CreateSession, Crash, DeleteSession, DeleteSessionsForUser, Finish
<1>9. CASE Lock(r) \/ CountUsers(r) \/ CommitUser(r) \/ RecordAttempt(r)
  <2>1. \/ req' = [req EXCEPT ![r] = Idle]
        \/ \E pc \in {"count", "commit", "session"} : req' = [req EXCEPT ![r].pc = pc]
    BY <1>9 DEF Lock, CountUsers, CommitUser, RecordAttempt, Goto, Finish
  <2> QED BY <1>3, <1>4, <2>1
<1> QED BY <1>5, <1>6, <1>7, <1>8, <1>9

LEMMA GuessStep == AccountsInv /\ GuessInv /\ [Next]_vars => GuessInv'
<1> SUFFICES ASSUME AccountsInv, GuessInv, [Next]_vars PROVE GuessInv'
  OBVIOUS
<1>0. Types /\ attempts \in Seq(Attempt)
  BY DEF AccountsInv, GuessInv
<1>1. ASSUME attempts' = attempts, clock' \in {clock, clock + 1},
             \A e \in AnyEmail : Pending(e)' \subseteq Pending(e)
      PROVE  GuessInv'
  <2>1. clock \in Nat /\ clock' \in Nat /\ clock <= clock'
    BY <1>0, <1>1 DEF Types
  <2> QED BY <1>0, <1>1, <2>1, FailuresNotMore, NotMore DEF GuessInv
<1>2. CASE req' = req /\ attempts' = attempts /\ clock' \in {clock, clock + 1}
  BY <1>1, <1>2 DEF Pending
<1>3. CASE PruneAttempts
  <2>1. \A e \in AnyEmail : Pending(e)' = Pending(e)
    BY <1>3 DEF Pending, PruneAttempts
  <2> QED BY <1>0, <1>3, <2>1, PruneNotMore, NotMore DEF GuessInv
<1>4. ASSUME NEW r \in Requests,
             \/ Setup(r) \/ Lock(r) \/ CountUsers(r) \/ CommitUser(r)
             \/ Verify(r) \/ CreateSession(r) \/ Crash(r)
             \/ Request(r) \/ LogoutEverywhere(r) \/ DeleteSession(r) \/ DeleteSessionsForUser(r)
      PROVE  GuessInv'
  <2>1. attempts' = attempts /\ clock' = clock
    BY <1>4 DEF Setup, Lock, CountUsers, CommitUser, Verify, CreateSession, Crash, Request,
                LogoutEverywhere, SessionUser, DeleteSession, DeleteSessionsForUser, authVars
  <2>2. \A e : Pending(e)' \subseteq Pending(e)
    BY <1>0, <1>4, NewLocals, PendingNotMore
  <2> QED BY <1>1, <2>1, <2>2
<1>5. ASSUME NEW r \in Requests, Login(r) \/ RecordAttempt(r) PROVE GuessInv'
  BY <1>5, LoginGuess, RecordGuess
<1>6. CASE Tick \/ PruneSessions \/ (\E t \in Tokens : RefreshLands(t) \/ RefreshFails(t) \/ Logout(t))
           \/ UNCHANGED vars
  BY <1>2, <1>6 DEF Tick, PruneSessions, RefreshLands, RefreshFails, Logout, vars, authVars
<1> QED BY <1>3, <1>4, <1>5, <1>6 DEF Next

LEMMA InitGuess == Init => GuessInv
<1> SUFFICES ASSUME Init PROVE GuessInv
  OBVIOUS
<1>1. attempts = <<>> /\ attempts \in Seq(Attempt)
  BY DEF Init
<1>2. ASSUME NEW e \in AnyEmail PROVE Within(e)
  <2>1. FailedIn(e) = {} /\ Pending(e) = {}
    BY <1>1 DEF Init, FailedIn, Pending, Idle
  <2>2. Failures(e) = 0 /\ Cardinality(Pending(e)) = 0
    BY <1>1, <2>1, GuessNumbers, FS_EmptySet
  <2>3. LimitOf(e) \in Nat \ {0} /\ Cardinality(Requests) \in Nat
    BY <1>1, GuessNumbers, ConstantsAssumption DEF LimitOf
  <2> QED BY <2>2, <2>3 DEF Within
<1> QED BY <1>1, <1>2 DEF GuessInv

LEMMA GuessInvImplies == GuessInv => GuessesBounded
<1> SUFFICES ASSUME GuessInv PROVE GuessesBounded
  OBVIOUS
<1>1. Within(NoUser) /\ \A e \in Emails : Within(e)
  BY DEF GuessInv, AnyEmail
<1>2. LimitOf(NoUser) = MaxPerIp /\ \A e \in Emails : LimitOf(e) = MaxPerEmail
  BY ConstantsAssumption DEF LimitOf
<1> QED BY <1>1, <1>2 DEF GuessesBounded, Within, Pending

\* In any window an address, and all of them together, get no more guesses
\* than the limit and the handlers there are, though they count first and
\* record later.
THEOREM GuessesAreBounded == Spec => []GuessesBounded
<1> QED BY InitAccounts, AccountsStep, InitGuess, GuessStep, GuessInvImplies, PTL DEF Spec

-----------------------------------------------------------------------------
(* Sessions in use *)

\* A row is new, or its two columns were written by one refresh.
Dated(row) ==
  \/ row.last = Null
  \/ row.last \in Nat /\ row.last <= clock /\ row.expires = row.last + SessionTtl

\* Whoever goes to delete a session has found it overdue, which it stays.
Doomed ==
  \A r \in Requests : req[r].pc = "delete" =>
    /\ req[r].token \in Tokens /\ ~(req[r].token > issued)
    /\ sessions[req[r].token] = Gone \/ Overdue(sessions[req[r].token])

\* A refresh under way was asked for at this tick, for a session fit for use.
Awaited(t) ==
  /\ sessions[t] = Gone \/ ~Overdue(sessions[t])
  /\ accepted[t] # Null => sessions[t] # Gone /\ accepted[t] = clock

\* Otherwise the row was refreshed not long before the last request let in, or
\* that request is too long ago.
Renewed(t) ==
  accepted[t] # Null =>
    \/ /\ sessions[t] # Gone /\ sessions[t].last # Null
       /\ sessions[t].last >= accepted[t] - SessionRefresh + 1
    \/ clock > accepted[t] + SessionIdle - SessionRefresh + 1

InUse(t) ==
  /\ \/ accepted[t] = Null
     \/ accepted[t] \in Nat /\ accepted[t] <= clock /\ ~(t > issued)
  /\ sessions[t] # Gone => Dated(sessions[t])
  /\ IF t \in refreshing THEN Awaited(t) ELSE Renewed(t)

UseInv ==
  /\ accepted \in [Tokens -> Int] /\ refreshing \subseteq Tokens
  /\ Doomed
  /\ \A t \in Tokens : InUse(t)

\* A handler about to delete is one that was, or that a request just sent.
LEMMA DoomedKept ==
  ASSUME AccountsInv, UseInv, clock' = clock, issued' \in {issued, issued + 1},
         \A r \in Requests : req'[r].pc = "delete" => req'[r] = req[r],
         \A t \in Tokens : ~(t > issued) =>
           sessions'[t] = Gone \/ sessions'[t] = sessions[t]
             \/ (sessions[t] # Gone /\ ~Overdue(sessions[t]))
  PROVE  Doomed'
<1>1. ASSUME NEW r \in Requests, req'[r].pc = "delete", NEW t, t = req[r].token
      PROVE  /\ req'[r] = req[r] /\ t \in Tokens /\ ~(t > issued')
             /\ sessions'[t] = Gone \/ Overdue(sessions[t])'
  <2>1. /\ req'[r] = req[r] /\ t \in Tokens /\ ~(t > issued)
        /\ sessions[t] = Gone \/ Overdue(sessions[t])
    BY <1>1 DEF UseInv, Doomed
  <2>2. t \in Nat /\ issued \in Nat
    BY <2>1, Numbers DEF AccountsInv, Types
  <2>3. ~(t > issued')
    BY <2>1, <2>2
  <2>4. sessions'[t] = Gone \/ sessions'[t] = sessions[t]
    BY <2>1
  <2>5. sessions'[t] = Gone \/ Overdue(sessions[t])'
    BY <2>1, <2>4 DEF Overdue
  <2> QED BY <2>1, <2>3, <2>5
<1> QED BY <1>1 DEF Doomed, Overdue

LEMMA SameSession ==
  ASSUME AccountsInv, UseInv, NEW t \in Tokens, clock' = clock, issued' \in {issued, issued + 1},
         sessions'[t] = sessions[t], accepted'[t] = accepted[t],
         t \in refreshing' <=> t \in refreshing
  PROVE  InUse(t)'
<1>1. t \in Nat /\ issued \in Nat /\ InUse(t)
  BY Numbers DEF AccountsInv, Types, UseInv
<1>2. Overdue(sessions[t])' = Overdue(sessions[t])
  BY DEF Overdue
<1> QED BY <1>1, <1>2 DEF InUse, Awaited, Renewed, Dated, Overdue

\* A session that is deleted: nobody was let in with it lately.
LEMMA GoneSession ==
  ASSUME AccountsInv, UseInv, NEW t \in Tokens, clock' = clock, issued' = issued,
         sessions'[t] = Gone, refreshing' = refreshing,
         \/ accepted'[t] = Null
         \/ accepted'[t] = accepted[t] /\ (sessions[t] = Gone \/ Overdue(sessions[t]))
  PROVE  InUse(t)'
<1>1. t \in Nat /\ issued \in Nat /\ InUse(t) /\ clock \in Nat /\ sessions[t] \in RowType
  BY Numbers DEF AccountsInv, Types, UseInv
<1>2. CASE accepted'[t] = Null
  BY <1>2 DEF InUse, Awaited, Renewed
<1>3. CASE accepted'[t] # Null /\ t \in refreshing
  BY <1>1, <1>3 DEF InUse, Awaited
<1>4. CASE accepted'[t] # Null /\ t \notin refreshing
  <2>1. accepted'[t] = accepted[t] /\ accepted[t] \in Nat
    BY <1>1, <1>4 DEF InUse
  <2>2. clock > accepted[t] + SessionIdle - SessionRefresh + 1
    <3>1. CASE sessions[t] # Gone /\ sessions[t].last # Null
               /\ sessions[t].last >= accepted[t] - SessionRefresh + 1
      <4>1. /\ Overdue(sessions[t]) /\ sessions[t].last \in Nat
            /\ sessions[t].expires = sessions[t].last + SessionTtl
        BY <1>1, <1>4, <3>1 DEF InUse, Dated
      <4> QED BY <1>1, <2>1, <3>1, <4>1, ConstantsAssumption DEF Overdue
    <3> QED BY <1>1, <1>4, <2>1, <3>1 DEF InUse, Renewed
  <2>3. InUse(t) /\ ~(t > issued) /\ accepted[t] <= clock
    BY <1>1, <1>4, <2>1 DEF InUse
  <2> QED BY <1>4, <2>1, <2>2, <2>3 DEF InUse, Renewed
<1> QED BY <1>2, <1>3, <1>4

\* Steps that do not touch the sessions.
LEMMA UseUntouched ==
  ASSUME AccountsInv, UseInv, UNCHANGED <<clock, sessionVars>>,
         \A r \in Requests : req'[r].pc = "delete" => req'[r] = req[r]
  PROVE  UseInv'
<1>1. UNCHANGED <<sessions, refreshing, issued, ended, accepted>>
  BY DEF sessionVars
<1>2. Doomed'
  BY <1>1, DoomedKept
<1>3. \A t \in Tokens : InUse(t)'
  BY <1>1, SameSession
<1> QED BY <1>1, <1>2, <1>3 DEF UseInv

\* Handlers that only move on do not go to delete a session.
LEMMA NoNewDelete ==
  ASSUME AccountsInv, NEW r \in Requests,
         \/ Setup(r) \/ Lock(r) \/ CountUsers(r) \/ CommitUser(r) \/ Login(r)
         \/ Verify(r) \/ RecordAttempt(r) \/ CreateSession(r) \/ Crash(r)
         \/ DeleteSession(r) \/ DeleteSessionsForUser(r)
  PROVE  \A x \in Requests : req'[x].pc = "delete" => req'[x] = req[x]
<1>0. Types
  BY DEF AccountsInv
<1>1. CASE Login(r)
  <2>1. PICK e \in Emails : req' = [req EXCEPT ![r] = [Idle EXCEPT !.pc = "verify", !.email = e]]
    BY <1>1 DEF Login
  <2> DEFINE q == [Idle EXCEPT !.pc = "verify", !.email = e]
  <2>2. q \in ReqType
    BY Locals DEF Pcs, AnyEmail
  <2>3. q.pc = "verify"
    BY DEF Idle
  <2>4. req' = [req EXCEPT ![r] = q]
    BY <2>1
  <2> HIDE DEF q
  <2> QED BY <1>0, <2>2, <2>3, <2>4, OneHandler
<1>2. CASE ~Login(r)
  <2>1. ~(Request(r) \/ LogoutEverywhere(r)) \/ req[r].pc = "idle"
    BY DEF Request, LogoutEverywhere, SessionUser, At
  <2>2. PICK q \in ReqType : /\ req' = [req EXCEPT ![r] = q]
                             /\ q.pc = "delete" => Request(r) \/ LogoutEverywhere(r)
    BY <1>2, NewLocals
  <2>3. req'[r] = q /\ \A x \in Requests \ {r} : req'[x] = req[x]
    BY <1>0, <2>2, OneHandler
  <2>4. CASE q.pc # "delete"
    BY <2>3, <2>4
  <2>5. CASE q.pc = "delete"
    <3>1. Setup(r)
      BY <1>2, <2>1, <2>2, <2>5 DEF Setup, Lock, CountUsers, CommitUser, Login, Verify,
         RecordAttempt, CreateSession, Crash, DeleteSession, DeleteSessionsForUser, At
    <3>2. PICK e \in Emails : req' = [req EXCEPT ![r] = [Idle EXCEPT !.pc = "begin", !.email = e]]
      BY <3>1 DEF Setup
    <3>3. req'[r] = [Idle EXCEPT !.pc = "begin", !.email = e]
      BY <1>0, <3>2 DEF Types
    <3> QED BY <2>3, <2>5, <3>3 DEF Idle
  <2> QED BY <2>4, <2>5
<1> QED BY <1>1, <1>2

LEMMA TickUse == ASSUME AccountsInv, UseInv, Tick PROVE UseInv'
<1>1. /\ clock' = clock + 1 /\ refreshing = {}
      /\ UNCHANGED <<req, sessions, refreshing, issued, ended, accepted>>
  BY DEF Tick, authVars, sessionVars
<1>2. clock \in Nat /\ \A t \in Tokens : sessions[t] \in RowType
  BY DEF AccountsInv, Types
<1>3. \A t \in Tokens : Overdue(sessions[t]) => Overdue(sessions[t])'
  BY <1>1, <1>2, ConstantsAssumption DEF Overdue, RowType
<1>4. Doomed'
  BY <1>1, <1>3 DEF UseInv, Doomed, Overdue
<1>5. ASSUME NEW t \in Tokens PROVE InUse(t)'
  <2>1. InUse(t) /\ t \notin refreshing /\ accepted[t] \in Int
    BY <1>1 DEF UseInv
  <2>2. Renewed(t)'
    BY <1>1, <1>2, <2>1, ConstantsAssumption DEF InUse, Renewed, Null
  <2> QED BY <1>1, <1>2, <2>1, <2>2 DEF InUse, Dated
<1> QED BY <1>1, <1>4, <1>5 DEF UseInv

LEMMA PruneUse == ASSUME AccountsInv, UseInv, PruneSessions PROVE UseInv'
<1>1. /\ sessions' = [t \in Tokens |-> IF sessions[t].expires < clock THEN Gone ELSE sessions[t]]
      /\ UNCHANGED <<clock, req, refreshing, issued, accepted>>
  BY DEF PruneSessions
<1>2. Doomed'
  BY <1>1, DoomedKept
<1>3. ASSUME NEW t \in Tokens PROVE InUse(t)'
  <2>1. CASE sessions[t].expires < clock
    BY <1>1, <2>1, GoneSession DEF Overdue
  <2>2. CASE ~(sessions[t].expires < clock)
    BY <1>1, <2>2, SameSession
  <2> QED BY <2>1, <2>2
<1> QED BY <1>1, <1>2, <1>3 DEF UseInv

LEMMA CreateUse ==
  ASSUME AccountsInv, UseInv, NEW r \in Requests, CreateSession(r) PROVE UseInv'
<1> DEFINE new == [user |-> req[r].email, last |-> Null, expires |-> clock + SessionTtl]
           n == issued + 1
<1>1. /\ issued < MaxSessions /\ issued' = n
      /\ sessions' = [sessions EXCEPT ![n] = new]
      /\ UNCHANGED <<clock, refreshing, accepted>>
  BY DEF CreateSession, authVars
<1>2. /\ Types /\ Unissued /\ issued \in Nat /\ n \in Tokens /\ clock \in Nat
  BY <1>1, ConstantsAssumption DEF AccountsInv, Types, Tokens
<1>3. sessions'[n] = new /\ \A t \in Tokens \ {n} : sessions'[t] = sessions[t]
  BY <1>1, <1>2 DEF Types
<1>4. new.last = Null /\ new.expires = clock + SessionTtl /\ new # Gone
  <2>1. new.expires >= 0 /\ Gone.expires = -1
    BY <1>2, ConstantsAssumption DEF Gone, Null
  <2> QED BY <2>1
<1> HIDE DEF new
<1>5. Doomed'
  <2>1. \A t \in Tokens : ~(t > issued) => t # n
    BY <1>2, Numbers
  <2>2. \A x \in Requests : req'[x].pc = "delete" => req'[x] = req[x]
    BY NoNewDelete
  <2>3. \A t \in Tokens : ~(t > issued) => sessions'[t] = sessions[t]
    BY <1>3, <2>1
  <2> QED BY <1>1, <2>2, <2>3, DoomedKept
<1>6. ASSUME NEW t \in Tokens PROVE InUse(t)'
  <2>1. CASE t = n
    <3>1. accepted[t] = Null
      BY <1>2, <2>1 DEF UseInv, InUse
    <3>2. ~Overdue(sessions[t])'
      BY <1>1, <1>2, <1>3, <1>4, <2>1, ConstantsAssumption DEF Overdue
    <3>3. Dated(sessions[t])'
      BY <1>3, <1>4, <2>1 DEF Dated
    <3> QED BY <1>1, <3>1, <3>2, <3>3 DEF InUse, Awaited, Renewed
  <2>2. CASE t # n
    BY <1>1, <1>3, <2>2, SameSession
  <2> QED BY <2>1, <2>2
<1> QED BY <1>1, <1>5, <1>6 DEF UseInv

\* What a request with a session does: it is let in, or finds the row overdue
\* and goes on to delete it.
LEMMA RequestDoes ==
  ASSUME AccountsInv, NEW r \in Requests, Request(r) \/ LogoutEverywhere(r)
  PROVE  \E t \in Tokens :
           /\ sessions[t] # Gone
           /\ clock' = clock /\ sessions' = sessions /\ issued' = issued
           /\ \/ /\ Overdue(sessions[t])
                 /\ req'[r].token = t /\ \A x \in Requests \ {r} : req'[x] = req[x]
                 /\ refreshing' = refreshing /\ accepted' = accepted
              \/ /\ ~Overdue(sessions[t])
                 /\ \A x \in Requests : req'[x].pc = "delete" => req'[x] = req[x]
                 /\ accepted' = [accepted EXCEPT ![t] = clock]
                 /\ refreshing' = IF RefreshDue(sessions[t]) THEN refreshing \cup {t} ELSE refreshing
<1>1. ASSUME NEW t \in Tokens, NEW then \in ReqType, then.pc \in {"idle", "delete all"},
             SessionUser(r, t, then)
      PROVE  /\ sessions[t] # Gone
             /\ clock' = clock /\ sessions' = sessions /\ issued' = issued
             /\ \/ /\ Overdue(sessions[t])
                   /\ req'[r].token = t /\ \A x \in Requests \ {r} : req'[x] = req[x]
                   /\ refreshing' = refreshing /\ accepted' = accepted
                \/ /\ ~Overdue(sessions[t])
                   /\ \A x \in Requests : req'[x].pc = "delete" => req'[x] = req[x]
                   /\ accepted' = [accepted EXCEPT ![t] = clock]
                   /\ refreshing' = IF RefreshDue(sessions[t]) THEN refreshing \cup {t} ELSE refreshing
  <2>1. req \in [Requests -> ReqType]
    BY DEF AccountsInv, Types
  <2>2. /\ sessions[t] # Gone
        /\ clock' = clock /\ sessions' = sessions /\ issued' = issued
    BY <1>1 DEF SessionUser
  <2>3. CASE Overdue(sessions[t])
    <3>1. /\ req' = [req EXCEPT ![r] = [Idle EXCEPT !.pc = "delete", !.token = t]]
          /\ refreshing' = refreshing /\ accepted' = accepted
      BY <1>1, <2>3 DEF SessionUser
    <3>2. [Idle EXCEPT !.pc = "delete", !.token = t].token = t
      BY DEF Idle
    <3> QED BY <2>1, <2>2, <2>3, <3>1, <3>2
  <2>4. CASE ~Overdue(sessions[t])
    <3>1. /\ req' = [req EXCEPT ![r] = [then EXCEPT !.email = sessions[t].user]]
          /\ accepted' = [accepted EXCEPT ![t] = clock]
          /\ refreshing' = IF RefreshDue(sessions[t]) THEN refreshing \cup {t} ELSE refreshing
      BY <1>1, <2>4 DEF SessionUser
    <3>2. [then EXCEPT !.email = sessions[t].user].pc = then.pc
      BY DEF ReqType
    <3>3. \A x \in Requests : req'[x].pc = "delete" => req'[x] = req[x]
      BY <1>1, <2>1, <3>1, <3>2
    <3> QED BY <2>2, <2>4, <3>1, <3>3
  <2> QED BY <2>3, <2>4
<1>2. /\ Idle \in ReqType /\ [Idle EXCEPT !.pc = "delete all"] \in ReqType
      /\ Idle.pc = "idle" /\ [Idle EXCEPT !.pc = "delete all"].pc = "delete all"
  <2>1. Idle \in ReqType /\ [Idle EXCEPT !.pc = "delete all"] \in ReqType
    BY Locals DEF Pcs
  <2> QED BY <2>1 DEF Idle
<1>3. \E t \in Tokens : SessionUser(r, t, Idle) \/ SessionUser(r, t, [Idle EXCEPT !.pc = "delete all"])
  BY DEF Request, LogoutEverywhere
<1> QED BY <1>1, <1>2, <1>3

LEMMA RequestUse ==
  ASSUME AccountsInv, UseInv, NEW r \in Requests, Request(r) \/ LogoutEverywhere(r)
  PROVE  UseInv'
<1>1. PICK t \in Tokens :
        /\ sessions[t] # Gone
        /\ clock' = clock /\ sessions' = sessions /\ issued' = issued
        /\ \/ /\ Overdue(sessions[t])
              /\ req'[r].token = t /\ \A x \in Requests \ {r} : req'[x] = req[x]
              /\ refreshing' = refreshing /\ accepted' = accepted
           \/ /\ ~Overdue(sessions[t])
              /\ \A x \in Requests : req'[x].pc = "delete" => req'[x] = req[x]
              /\ accepted' = [accepted EXCEPT ![t] = clock]
              /\ refreshing' = IF RefreshDue(sessions[t]) THEN refreshing \cup {t} ELSE refreshing
  BY RequestDoes
<1>2. /\ t \in Nat /\ issued \in Nat /\ clock \in Nat
      /\ sessions[t] # Gone /\ clock' = clock /\ sessions' = sessions /\ issued' = issued
  BY <1>1, Numbers DEF AccountsInv, Types
<1>3. ~(t > issued)
  BY <1>2 DEF AccountsInv, Unissued
<1>4. CASE Overdue(sessions[t])
  <2>1. /\ req'[r].token = t /\ \A x \in Requests \ {r} : req'[x] = req[x]
        /\ refreshing' = refreshing /\ accepted' = accepted
    BY <1>1, <1>4
  <2>2. Overdue(sessions[t])'
    BY <1>2, <1>4 DEF Overdue
  <2>3. Doomed'
    BY <1>2, <1>3, <2>1, <2>2 DEF UseInv, Doomed, Overdue
  <2>4. \A x \in Tokens : InUse(x)'
    BY <1>2, <2>1, SameSession
  <2> QED BY <2>1, <2>3, <2>4 DEF UseInv
<1>5. CASE ~Overdue(sessions[t])
  <2>1. /\ \A x \in Requests : req'[x].pc = "delete" => req'[x] = req[x]
        /\ accepted' = [accepted EXCEPT ![t] = clock]
        /\ refreshing' = IF RefreshDue(sessions[t]) THEN refreshing \cup {t} ELSE refreshing
    BY <1>1, <1>5
  <2>2. accepted' \in [Tokens -> Int] /\ refreshing' \subseteq Tokens
        /\ accepted'[t] = clock /\ \A x \in Tokens \ {t} : accepted'[x] = accepted[x]
    BY <1>2, <2>1 DEF UseInv
  <2>3. Doomed'
    BY <1>2, <2>1, DoomedKept
  <2>4. ASSUME NEW x \in Tokens \ {t} PROVE InUse(x)'
    BY <1>2, <2>1, <2>2, SameSession
  <2>5. InUse(t)'
    <3>1. Dated(sessions[t])
      BY <1>2 DEF UseInv, InUse
    <3>2. /\ Dated(sessions[t])'
          /\ accepted'[t] \in Nat /\ accepted'[t] <= clock' /\ ~(t > issued')
      BY <1>2, <1>3, <2>2, <3>1 DEF Dated
    <3>3. CASE t \in refreshing'
      <4>1. Awaited(t)'
        BY <1>2, <1>5, <2>2, <3>3 DEF Awaited, Overdue
      <4> QED BY <3>2, <3>3, <4>1 DEF InUse
    <3>4. CASE t \notin refreshing'
      <4>1. ~RefreshDue(sessions[t])
        BY <2>1, <3>4
      <4>2. sessions[t].last # Null /\ sessions[t].last \in Nat
        BY <3>1, <4>1 DEF RefreshDue, Dated
      <4>3. ~(clock - sessions[t].last >= SessionRefresh) /\ SessionRefresh \in Nat
        BY <4>1, ConstantsAssumption DEF RefreshDue
      <4>4. sessions[t].last >= clock - SessionRefresh + 1
        BY <1>2, <4>2, <4>3
      <4>5. Renewed(t)'
        BY <1>2, <2>2, <4>2, <4>4 DEF Renewed
      <4> QED BY <3>2, <3>4, <4>5 DEF InUse
    <3> QED BY <3>3, <3>4
  <2> QED BY <2>2, <2>3, <2>4, <2>5 DEF UseInv
<1> QED BY <1>4, <1>5

\* The background statement lands: both columns are of now.
LEMMA RefreshUse ==
  ASSUME AccountsInv, UseInv, NEW t \in Tokens, RefreshLands(t) PROVE UseInv'
<1>1. /\ t \in refreshing /\ refreshing' = refreshing \ {t}
      /\ sessions' = [sessions EXCEPT ![t] = Refreshed(sessions[t])]
      /\ UNCHANGED <<clock, req, issued, accepted>>
  BY DEF RefreshLands
<1>2. /\ sessions[t] \in RowType /\ clock \in Nat /\ InUse(t) /\ Awaited(t)
      /\ sessions'[t] = Refreshed(sessions[t])
      /\ \A x \in Tokens \ {t} : sessions'[x] = sessions[x]
  BY <1>1 DEF AccountsInv, Types, UseInv, InUse
<1>3. sessions'[t] = Gone
      \/ (sessions[t] # Gone /\ sessions'[t].last = clock /\ sessions'[t].expires = clock + SessionTtl)
  <2>1. CASE sessions[t] = Gone
    BY <1>2, <2>1 DEF Refreshed
  <2>2. CASE sessions[t] # Gone
    <3>1. sessions'[t] = [sessions[t] EXCEPT !.last = clock, !.expires = clock + SessionTtl]
      BY <1>2, <2>2 DEF Refreshed
    <3> QED BY <1>2, <2>2, <3>1 DEF RowType
  <2> QED BY <2>1, <2>2
<1>4. Doomed'
  <2>1. \A x \in Tokens : sessions'[x] = Gone \/ sessions'[x] = sessions[x]
                           \/ (sessions[x] # Gone /\ ~Overdue(sessions[x]))
    BY <1>2, <1>3 DEF Awaited
  <2> QED BY <1>1, <2>1, DoomedKept
<1>5. ASSUME NEW x \in Tokens \ {t} PROVE InUse(x)'
  BY <1>1, <1>2, SameSession
<1>6. InUse(t)'
  <2>1. t \notin refreshing' /\ (accepted[t] # Null => sessions[t] # Gone /\ accepted[t] = clock)
    BY <1>1, <1>2 DEF Awaited
  <2>2. CASE sessions'[t] = Gone
    <3>1. sessions[t] = Gone
      <4>1. SUFFICES ASSUME sessions[t] # Gone PROVE FALSE
        OBVIOUS
      <4>2. sessions'[t] = [sessions[t] EXCEPT !.last = clock, !.expires = clock + SessionTtl]
        BY <1>2, <4>1 DEF Refreshed
      <4>3. sessions'[t].last = clock
        BY <1>2, <4>2 DEF RowType
      <4> QED BY <1>2, <2>2, <4>3 DEF Gone, Null
    <3> QED BY <1>1, <2>1, <2>2, <3>1 DEF InUse, Renewed
  <2>3. CASE /\ sessions[t] # Gone
             /\ sessions'[t].last = clock /\ sessions'[t].expires = clock + SessionTtl
    <3>1. Dated(sessions[t])'
      BY <1>1, <1>2, <2>3 DEF Dated
    <3>2. sessions'[t] # Gone /\ clock # Null
      BY <1>2, <2>3 DEF Gone, Null
    <3>3. Renewed(t)'
      BY <1>1, <1>2, <2>1, <2>3, <3>2, ConstantsAssumption DEF Renewed
    <3> QED BY <1>1, <1>2, <2>1, <3>1, <3>3 DEF InUse
  <2> QED BY <1>3, <2>2, <2>3
<1>7. accepted' \in [Tokens -> Int] /\ refreshing' \subseteq Tokens
  BY <1>1 DEF UseInv
<1> QED BY <1>4, <1>5, <1>6, <1>7 DEF UseInv

LEMMA LostRefreshUse ==
  ASSUME AccountsInv, UseInv, NEW t \in Tokens, RefreshFails(t) PROVE UseInv'
<1>1. /\ refreshing' = refreshing \ {t} /\ accepted' = [accepted EXCEPT ![t] = Null]
      /\ UNCHANGED <<clock, req, sessions, issued>>
  BY DEF RefreshFails
<1>2. accepted' \in [Tokens -> Int] /\ refreshing' \subseteq Tokens
      /\ accepted'[t] = Null /\ \A x \in Tokens \ {t} : accepted'[x] = accepted[x]
  BY <1>1 DEF UseInv, Null
<1>3. Doomed'
  BY <1>1, DoomedKept
<1>4. ASSUME NEW x \in Tokens \ {t} PROVE InUse(x)'
  BY <1>1, <1>2, SameSession
<1>5. InUse(t)'
  <2>1. sessions[t] # Gone => Dated(sessions[t])
    BY DEF UseInv, InUse
  <2>2. sessions'[t] # Gone => Dated(sessions[t])'
    BY <1>1, <2>1 DEF Dated
  <2> QED BY <1>1, <1>2, <2>2 DEF InUse, Renewed
<1> QED BY <1>2, <1>3, <1>4, <1>5 DEF UseInv

\* Deletions: by the one who found the row overdue, and by logouts.
LEMMA DeleteUse ==
  ASSUME AccountsInv, UseInv, NEW r \in Requests, DeleteSession(r) PROVE UseInv'
<1>1. /\ req[r].pc = "delete" /\ sessions' = [sessions EXCEPT ![req[r].token] = Gone]
      /\ UNCHANGED <<clock, refreshing, issued, accepted>>
  BY DEF DeleteSession, At
<1> DEFINE d == req[r].token
<1>2. d \in Tokens /\ (sessions[d] = Gone \/ Overdue(sessions[d]))
  BY <1>1 DEF UseInv, Doomed
<1>3. sessions'[d] = Gone /\ \A x \in Tokens \ {d} : sessions'[x] = sessions[x]
  BY <1>1, <1>2 DEF AccountsInv, Types
<1>4. \A x \in Requests : req'[x].pc = "delete" => req'[x] = req[x]
  BY NoNewDelete
<1>5. \A x \in Tokens : sessions'[x] = Gone \/ sessions'[x] = sessions[x]
  BY <1>3
<1>6. Doomed'
  BY <1>1, <1>4, <1>5, DoomedKept
<1>7. ASSUME NEW x \in Tokens PROVE InUse(x)'
  <2>1. CASE x = d
    BY <1>1, <1>2, <1>3, <2>1, GoneSession
  <2>2. CASE x # d
    BY <1>1, <1>3, <2>2, SameSession
  <2> QED BY <2>1, <2>2
<1> QED BY <1>1, <1>6, <1>7 DEF UseInv

LEMMA LogoutUse ==
  ASSUME AccountsInv, UseInv, NEW t \in Tokens, Logout(t) PROVE UseInv'
<1>1. /\ sessions' = [sessions EXCEPT ![t] = Gone] /\ accepted' = [accepted EXCEPT ![t] = Null]
      /\ UNCHANGED <<clock, req, refreshing, issued>>
  BY DEF Logout
<1>2. /\ sessions'[t] = Gone /\ \A x \in Tokens \ {t} : sessions'[x] = sessions[x]
      /\ accepted'[t] = Null /\ \A x \in Tokens \ {t} : accepted'[x] = accepted[x]
      /\ accepted' \in [Tokens -> Int]
  BY <1>1 DEF AccountsInv, Types, UseInv, Null
<1>3. Doomed'
  BY <1>1, <1>2, DoomedKept
<1>4. ASSUME NEW x \in Tokens \ {t} PROVE InUse(x)'
  BY <1>1, <1>2, SameSession
<1>5. InUse(t)'
  BY <1>1, <1>2, GoneSession
<1> QED BY <1>1, <1>2, <1>3, <1>4, <1>5 DEF UseInv

LEMMA DeleteAllUse ==
  ASSUME AccountsInv, UseInv, NEW r \in Requests, DeleteSessionsForUser(r) PROVE UseInv'
<1> DEFINE theirs == {t \in Tokens : sessions[t].user = req[r].email}
<1>1. /\ sessions' = [t \in Tokens |-> IF t \in theirs THEN Gone ELSE sessions[t]]
      /\ accepted' = [t \in Tokens |-> IF t \in theirs THEN Null ELSE accepted[t]]
      /\ UNCHANGED <<clock, refreshing, issued>>
  BY DEF DeleteSessionsForUser
<1> HIDE DEF theirs
<1>2. \A x \in Requests : req'[x].pc = "delete" => req'[x] = req[x]
  BY NoNewDelete
<1>3. \A x \in Tokens : sessions'[x] = Gone \/ sessions'[x] = sessions[x]
  BY <1>1
<1>4. Doomed'
  BY <1>1, <1>2, <1>3, DoomedKept
<1>5. ASSUME NEW x \in Tokens PROVE InUse(x)'
  <2>1. CASE x \in theirs
    <3>1. sessions'[x] = Gone /\ accepted'[x] = Null
      BY <1>1, <2>1
    <3> QED BY <1>1, <3>1, GoneSession
  <2>2. CASE x \notin theirs
    <3>1. sessions'[x] = sessions[x] /\ accepted'[x] = accepted[x]
      BY <1>1, <2>2
    <3> QED BY <1>1, <3>1, SameSession
  <2> QED BY <2>1, <2>2
<1>6. accepted' \in [Tokens -> Int]
  BY <1>1 DEF UseInv, Null
<1> QED BY <1>1, <1>4, <1>5, <1>6 DEF UseInv

LEMMA InitUse == Init => UseInv
<1> SUFFICES ASSUME Init PROVE UseInv
  OBVIOUS
<1>1. accepted = [t \in Tokens |-> Null] /\ sessions = [t \in Tokens |-> Gone] /\ refreshing = {}
  BY DEF Init
<1>2. Doomed
  BY DEF Init, Doomed, Idle
<1>3. \A t \in Tokens : InUse(t)
  BY <1>1 DEF InUse, Renewed
<1> QED BY <1>1, <1>2, <1>3 DEF UseInv, Null

LEMMA UseStep == AccountsInv /\ UseInv /\ [Next]_vars => UseInv'
<1> SUFFICES ASSUME AccountsInv, UseInv, [Next]_vars PROVE UseInv'
  OBVIOUS
<1>1. CASE UNCHANGED vars \/ PruneAttempts
  BY <1>1, UseUntouched DEF vars, PruneAttempts, sessionVars
<1>2. ASSUME NEW r \in Requests,
             \/ Setup(r) \/ Lock(r) \/ CountUsers(r) \/ CommitUser(r)
             \/ Login(r) \/ Verify(r) \/ RecordAttempt(r) \/ Crash(r)
      PROVE  UseInv'
  <2>1. UNCHANGED <<clock, sessionVars>>
    BY <1>2 DEF Setup, Lock, CountUsers, CommitUser, Login, Verify, RecordAttempt, Crash
  <2>2. \A x \in Requests : req'[x].pc = "delete" => req'[x] = req[x]
    BY <1>2, NoNewDelete
  <2> QED BY <2>1, <2>2, UseUntouched
<1>3. ASSUME NEW r \in Requests,
             \/ CreateSession(r) \/ Request(r) \/ LogoutEverywhere(r)
             \/ DeleteSession(r) \/ DeleteSessionsForUser(r)
      PROVE  UseInv'
  BY <1>3, CreateUse, RequestUse, DeleteUse, DeleteAllUse
<1>4. ASSUME NEW t \in Tokens, RefreshLands(t) \/ RefreshFails(t) \/ Logout(t) PROVE UseInv'
  BY <1>4, RefreshUse, LostRefreshUse, LogoutUse
<1>5. CASE Tick \/ PruneSessions
  BY <1>5, TickUse, PruneUse
<1> QED BY <1>1, <1>2, <1>3, <1>4, <1>5 DEF Next

LEMMA UseInvImplies == AccountsInv /\ UseInv => ActiveSessionsLive
<1> SUFFICES ASSUME AccountsInv, UseInv, NEW t \in Tokens, accepted[t] # Null,
                    clock =< accepted[t] + SessionIdle - SessionRefresh + 1
             PROVE  sessions[t] # Gone /\ ~Overdue(sessions[t])
  BY DEF ActiveSessionsLive
<1>1. InUse(t) /\ clock \in Nat /\ accepted[t] \in Nat
  BY DEF UseInv, InUse, AccountsInv, Types
<1>2. CASE t \in refreshing
  BY <1>1, <1>2 DEF InUse, Awaited
<1>3. CASE t \notin refreshing
  <2>1. /\ sessions[t] # Gone /\ sessions[t].last # Null
        /\ sessions[t].last >= accepted[t] - SessionRefresh + 1
    BY <1>1, <1>3, ConstantsAssumption DEF InUse, Renewed
  <2>2. /\ sessions[t].last \in Nat
        /\ sessions[t].expires = sessions[t].last + SessionTtl
    BY <1>1, <2>1 DEF InUse, Dated
  <2>3. clock - sessions[t].last <= SessionIdle
    BY <1>1, <2>1, <2>2, ConstantsAssumption
  <2> QED BY <1>1, <2>1, <2>2, <2>3, ConstantsAssumption DEF Overdue
<1> QED BY <1>2, <1>3

\* A session somebody keeps using is there and within its two bounds, though
\* refreshes are throttled and race every deletion.
THEOREM SessionsInUseLive == Spec => []ActiveSessionsLive
<1> QED BY InitAccounts, AccountsStep, InitUse, UseStep, UseInvImplies, PTL DEF Spec
=============================================================================
