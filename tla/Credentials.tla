---------------------------- MODULE Credentials ----------------------------
(* What callers show and what is kept of it: the rows of node_tokens in the  *)
(* forms three versions of the master wrote, and the questions the routes    *)
(* ask of them; the first version's shared token; the cron secret; session   *)
(* cookies; password hashes; and which calls proxy.ts lets by.               *)
(* A digest stands for what it was made of: no two tokens share one.         *)
EXTENDS Integers

CONSTANTS
  Secrets,    \* tokens, nonempty strings
  Owners,     \* ids a token can be bound to
  Null,       \* null, undefined and the empty string, which the code treats alike
  Plenty      \* SCRYPT_N and the legacy default: [now |-> 2^17, legacy |-> 2^14]

CredentialsAssumption ==
  /\ Null \notin Secrets /\ Null \notin Owners
  /\ Plenty \in [{"now", "legacy"} -> Nat \ {0}] /\ Plenty["legacy"] < Plenty["now"]

-----------------------------------------------------------------------------
(* The rows of node_tokens: the first version stored the token, the second   *)
(* its digest too, and now the envelope is stored in place of the token.     *)

Rows == [token : Secrets \cup {Null}, hash : Secrets \cup {Null},
         sealed : Secrets \cup {Null}, under : Nat,      \* token_enc and its key
         node : Owners \cup {Null}]
Tables(ids) == [ids -> Rows]

\* WHERE token_hash = $1 OR (token_hash IS NULL AND token = $2)
Matches(row, digest, token) == row.hash = digest \/ (row.hash = Null /\ row.token = token)
Select(tab, t) == {i \in DOMAIN tab : Matches(tab[i], t, t)}

\* resolveRowToken: the envelope if this process's key opens it, or the old column.
FromEnc(row, kek) == IF row.under = kek THEN row.sealed ELSE Null
ResolveRowToken(row, kek) == IF FromEnc(row, kek) # Null THEN FromEnc(row, kek) ELSE row.token
Migrates(row, kek) == FromEnc(row, kek) = Null /\ row.token # Null

\* Its UPDATE, from a row as it was read, which may be some time ago.
DigestOf(row) == IF row.hash # Null THEN row.hash ELSE row.token
Migrated(tab, read, kek) ==
  [i \in DOMAIN tab |->
     IF Matches(tab[i], DigestOf(read), read.token)
     THEN [tab[i] EXCEPT !.sealed = read.token, !.under = kek, !.token = Null,
                         !.hash = IF @ # Null THEN @ ELSE DigestOf(read)]
     ELSE tab[i]]

\* createUnboundToken and ensureTokenForNode write this.
NewRow(t, kek, node) ==
  [token |-> Null, hash |-> t, sealed |-> t, under |-> kek, node |-> node]

\* listNodeTokens hides what it cannot open; the settings show as free those
\* whose node has not reported.
ListNodeTokens(tab, kek) ==
  {[token |-> ResolveRowToken(tab[i], kek), nodeId |-> tab[i].node] :
     i \in {j \in DOMAIN tab : ResolveRowToken(tab[j], kek) # Null}}
UnboundTokens(tab, kek, known) ==
  {e.token : e \in {f \in ListNodeTokens(tab, kek) : f.nodeId = Null \/ f.nodeId \notin known}}

-----------------------------------------------------------------------------
(* Who a token is let in for; shared is the token all nodes once had.        *)

TokenFromHeader(header) == header.text        \* after "Bearer", if it begins so

First(found) == CHOOSE i \in found : TRUE
NodeForToken(tab, t) ==
  IF t # Null /\ Select(tab, t) # {} THEN tab[First(Select(tab, t))].node ELSE Null

LegacyTokenMatch(shared, t) == shared # Null /\ t = shared

AuthorizeForHost(tab, shared, t, host) ==
  /\ t # Null
  /\ IF Select(tab, t) # {} THEN tab[First(Select(tab, t))].node = host
                            ELSE LegacyTokenMatch(shared, t)

AuthorizeAnyNode(tab, shared, t) ==
  /\ t # Null
  /\ IF Select(tab, t) # {} THEN tab[First(Select(tab, t))].node # Null
                            ELSE LegacyTokenMatch(shared, t)

(* authorizeReport of a token that is in no row.  recent: per host, the      *)
(* shared token it last came with, Null after ten minutes.                   *)
LegacyBindRefuses(recent, strict, host, t) ==
  strict /\ recent[host] # Null /\ recent[host] # t
AuthorizeLegacy(recent, strict, shared, host, t) ==
  ~LegacyBindRefuses(recent, strict, host, t) /\ LegacyTokenMatch(shared, t)
RecordLegacyBind(recent, strict, shared, host, t) ==
  IF AuthorizeLegacy(recent, strict, shared, host, t) THEN [recent EXCEPT ![host] = t] ELSE recent

\* The environment's cron secret, or the one drawn when the server started.
CronSecret(env, runtime) == IF env # Null THEN env ELSE runtime
CronValid(env, runtime, header) ==
  /\ CronSecret(env, runtime) # Null
  /\ TokenFromHeader(header) # Null /\ TokenFromHeader(header) = CronSecret(env, runtime)

-----------------------------------------------------------------------------
(* Session cookies.  jar: what the browser holds, by whether the cookie has  *)
(* the __Host- name, which browsers take and send over HTTPS only.           *)

Jars == [BOOLEAN -> Secrets \cup {Null}]
Presented(jar, https) == [secure \in BOOLEAN |-> IF secure => https THEN jar[secure] ELSE Null]

ReadSessionCookie(sent) == IF sent[TRUE] # Null THEN sent[TRUE] ELSE sent[FALSE]

\* Set-Cookie under sessionCookieName(secure); the flag is that of isSecureRequest.
Stored(jar, https, secure, value) ==
  IF secure => https THEN [jar EXCEPT ![secure] = value] ELSE jar
IsSecureRequest(insecure, production, https) == ~insecure /\ (production \/ https)
LoggedIn(jar, https, secure, session) == Stored(jar, https, secure, session)
\* Both names are cleared; the second with the flag of the request.
LoggedOut(jar, https, secure) ==
  LET one == Stored(jar, https, TRUE, Null)
  IN  IF secure => https THEN [one EXCEPT ![FALSE] = Null] ELSE one

-----------------------------------------------------------------------------
(* Password hashes: scrypt$N=..,r=..,p=..$salt$key, and without parameters   *)
(* those of versions before 1.5.6.  A key stands for what it was derived of. *)

Derived(password, salt, cost) == <<password, salt, cost>>
DefaultCost == [n |-> Plenty["legacy"], r |-> 8, p |-> 1]
CurrentCost == [n |-> Plenty["now"], r |-> 8, p |-> 1]

HashPassword(password, salt) ==
  [form |-> "versioned", cost |-> CurrentCost, salt |-> salt,
   key |-> Derived(password, salt, CurrentCost)]
LegacyHash(password, salt) ==
  [form |-> "legacy", cost |-> DefaultCost, salt |-> salt,
   key |-> Derived(password, salt, DefaultCost)]

\* A form that is neither, or parameters that are missing, verify nothing.
ParseScryptParams(cost) == cost.n > 0 /\ cost.r > 0 /\ cost.p > 0
VerifyPassword(password, stored) ==
  CASE stored.form = "versioned" -> /\ ParseScryptParams(stored.cost)
                                    /\ stored.key = Derived(password, stored.salt, stored.cost)
    [] stored.form = "legacy"    -> stored.key = Derived(password, stored.salt, DefaultCost)
    [] OTHER                     -> FALSE
NeedsRehash(stored) ==
  \/ stored.form = "legacy"
  \/ /\ stored.form = "versioned" /\ ParseScryptParams(stored.cost)
     /\ \/ stored.cost.n < CurrentCost.n \/ stored.cost.r < CurrentCost.r
        \/ stored.cost.p < CurrentCost.p

-----------------------------------------------------------------------------
(* proxy.ts, before any route: a request by its method, path, what the       *)
(* browser says of where it comes from, and whether it has a session cookie. *)

Sites == {"none given", "same-origin", "same-site", "none", "cross-site"}
Paths == {"node", "open", "nodes", "api"}    \* agents' and cron's, login and setup, /api/nodes, others
Calls == [changes : BOOLEAN, path : Paths, site : Sites, session : BOOLEAN,
          origin : {"none given", "ours", "foreign", "malformed"}, host : BOOLEAN]

FromElsewhere(call) == call.site = "cross-site"
OriginMismatch(call) == call.host /\ call.origin \in {"foreign", "malformed"}
LetBy(call) ==
  /\ ~(call.session /\ call.path = "nodes" /\ FromElsewhere(call))
  /\ \/ ~call.changes \/ call.path \in {"node", "open"}
     \/ ~FromElsewhere(call) /\ ~OriginMismatch(call)
=============================================================================
