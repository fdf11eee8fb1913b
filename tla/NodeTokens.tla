---------------------------- MODULE NodeTokens ----------------------------
(***************************************************************************)
(* The admission tokens of the nodes: minted with an identity, or old and  *)
(* bound to a hostname by the first report that uses them; shown, rotated  *)
(* and deleted in the settings.  Every helper is a SELECT followed by a    *)
(* separate write, and the server is told of a revocation by an in-process *)
(* event (WsServer models what it does with it).                           *)
(*                                                                         *)
(* Tokens are numbered in the order they are drawn, that of created_at.    *)
(* A row keeps its token sealed, or (older rows, until they are read) in   *)
(* plain text; a server with another secret cannot read what was sealed.   *)
(* The token all nodes shared in the first version is part of Settings.    *)
(***************************************************************************)
EXTENDS Integers, FiniteSets

CONSTANTS
  Requests,       \* concurrent handlers
  Ids,            \* hostnames, and slugs minted with a token
  MaxTokens,      \* bound on tokens drawn
  MaxRedeploys    \* bound on starts of the server

VARIABLES
  row,         \* node_tokens
  unreadable,  \* tokens whose row the server's secret does not open
  drawn,       \* tokens drawn so far
  known,       \* ids with a row in nodes
  req,         \* per handler: where it is and its locals
  crossed,     \* tokens minted or bound while a rotation was between SELECT and DELETE
  silent,      \* tokens deleted and not announced, those of a dead handler apart
  redeploys

vars == <<row, unreadable, drawn, known, req, crossed, silent, redeploys>>

Tokens == 1 .. MaxTokens
NoId == "none"

ASSUME ConstantsAssumption ==
  MaxTokens \in Nat \ {0, 1} /\ MaxRedeploys \in Nat /\ NoId \notin Ids

Gone == [node |-> NoId, claimed |-> NoId, there |-> FALSE]
Row(node, claimed) == [node |-> node, claimed |-> claimed, there |-> TRUE]
Idle == [pc |-> "idle", token |-> 0, id |-> NoId, rows |-> {}, rotate |-> FALSE]

\* A database of an older version: an unbound token, and one bound by hostname
\* before claimed_node_id existed.
Init ==
  /\ \E h \in Ids :
       /\ row = [t \in Tokens |-> CASE t = 1 -> Row(NoId, NoId) [] t = 2 -> Row(h, NoId)
                                    [] OTHER -> Gone]
       /\ known = {h}
  /\ unreadable = {} /\ drawn = 2
  /\ req = [r \in Requests |-> Idle]
  /\ crossed = {} /\ silent = {} /\ redeploys = 0

At(r, pc) == req[r].pc = pc
Goto(r, pc) == req' = [req EXCEPT ![r].pc = pc]
Finish(r) == req' = [req EXCEPT ![r] = Idle]

Of(id) == {t \in Tokens : row[t].there /\ row[t].node = id}

\* The newest token of the node, if its row gives it away.
Shown(id) == {t \in Of(id) \ unreadable : \A u \in Of(id) : u <= t}

\* Rotations of an id that have read its tokens and not deleted them yet.
Rotating(id) == \E r \in Requests : At(r, "delete all") /\ req[r].id = id

Cross(t, id) == crossed' = IF Rotating(id) THEN crossed \cup {t} ELSE crossed

-----------------------------------------------------------------------------
(* The settings *)

\* createUnboundToken: an id nothing uses yet, and a token that has it.
CreateUnboundToken ==
  /\ drawn < MaxTokens
  /\ \E id \in Ids \ known :
       /\ Of(id) = {}
       /\ row' = [row EXCEPT ![drawn + 1] = Row(id, id)]
       /\ Cross(drawn + 1, id)
  /\ drawn' = drawn + 1
  /\ UNCHANGED <<unreadable, known, req, silent, redeploys>>

\* ensureTokenForNode: the newest token of the node, or, when there is none or
\* it cannot be read, one more.
\* buildResponse runs it for every node there is, a rotation at its end.
EnsureToken(r, start) ==
  IF Shown(start.id) # {} THEN Finish(r)
  ELSE req' = [req EXCEPT ![r] = [start EXCEPT !.pc = "insert"]]

BuildResponse(r) ==
  /\ At(r, "idle")
  /\ \E id \in known : Shown(id) = {} /\ EnsureToken(r, [Idle EXCEPT !.id = id])
  /\ UNCHANGED <<row, unreadable, drawn, known, crossed, silent, redeploys>>

InsertToken(r) ==
  /\ At(r, "insert")
  /\ drawn < MaxTokens
  /\ row' = [row EXCEPT ![drawn + 1] = Row(req[r].id, req[r].id)]
  /\ drawn' = drawn + 1
  /\ Cross(drawn + 1, req[r].id)
  /\ Finish(r)
  /\ UNCHANGED <<unreadable, known, silent, redeploys>>

\* rotateTokenForNode: SELECT the tokens, DELETE whatever the node has by then,
\* tell the listeners of those selected, and mint the next one.
RotateToken(r) ==
  /\ At(r, "idle")
  /\ \E id \in known :
       req' = [req EXCEPT ![r] = [Idle EXCEPT !.pc = "delete all", !.id = id, !.rows = Of(id)]]
  /\ UNCHANGED <<row, unreadable, drawn, known, crossed, silent, redeploys>>

DeleteAll(r) ==
  /\ At(r, "delete all")
  /\ row' = [t \in Tokens |-> IF t \in Of(req[r].id) THEN Gone ELSE row[t]]
  /\ silent' = silent \cup Of(req[r].id)
  /\ req' = [req EXCEPT ![r].pc = "announce", ![r].rotate = TRUE]
  /\ UNCHANGED <<unreadable, drawn, known, crossed, redeploys>>

AnnounceNone(r) ==
  /\ At(r, "announce")
  /\ IF req[r].rotate THEN EnsureToken(r, req[r]) ELSE Finish(r)
  /\ UNCHANGED <<row, unreadable, drawn, known, crossed, silent, redeploys>>

\* notifyTokenRevoked: a rotation tells of the rows it can read, a deletion of
\* the token it was given; then (a rotation) ensureTokenForNode.
Announce(r) ==
  /\ At(r, "announce")
  /\ silent' = silent \ (IF req[r].rotate THEN req[r].rows \ unreadable ELSE req[r].rows)
  /\ IF req[r].rotate THEN EnsureToken(r, req[r]) ELSE Finish(r)
  /\ UNCHANGED <<row, unreadable, drawn, known, crossed, redeploys>>

\* deleteNodeToken: the row, if it is still there, then the listeners.
DeleteToken(r) ==
  /\ At(r, "idle")
  /\ \E t \in 1 .. drawn :
       /\ row[t].there
       /\ row' = [row EXCEPT ![t] = Gone]
       /\ silent' = silent \cup {t}
       /\ req' = [req EXCEPT ![r] = [Idle EXCEPT !.pc = "announce", !.rows = {t}]]
  /\ UNCHANGED <<unreadable, drawn, known, crossed, redeploys>>

\* deleteNode: the tokens go with the node, and nobody is told; their
\* connections stay, and their reports are refused.
DeleteNode ==
  /\ \E id \in known :
       /\ known' = known \ {id}
       /\ row' = [t \in Tokens |-> IF t \in Of(id) THEN Gone ELSE row[t]]
  /\ UNCHANGED <<unreadable, drawn, req, crossed, silent, redeploys>>

\* A handler dies, or a statement of it throws.
Fail(r) ==
  /\ ~At(r, "idle")
  /\ silent' = IF At(r, "announce") THEN silent \ req[r].rows ELSE silent
  /\ Finish(r)
  /\ UNCHANGED <<row, unreadable, drawn, known, crossed, redeploys>>

\* The server starts again, with the same secret or another: it reads the rows
\* that are in plain text and those sealed under the secret it has now.  Its
\* handlers and all its connections are gone.
Redeploy ==
  /\ unreadable' \in SUBSET {t \in Tokens : row[t].there}
  /\ req' = [r \in Requests |-> Idle]
  /\ crossed' = {} /\ silent' = {}
  /\ redeploys < MaxRedeploys /\ redeploys' = redeploys + 1
  /\ UNCHANGED <<row, drawn, known>>

-----------------------------------------------------------------------------
(* Reports *)

\* authorizeReport answers an id; saveReport stores the report under it.
Accept(id) == known' = known \cup {id}

\* The SELECT of authorizeReport and what follows without another statement.
\* An identity minted with the token, or settled since, ignores the hostname.
AuthorizeBound ==
  \E t \in Tokens :
    /\ row[t].there /\ row[t].node # NoId /\ row[t].claimed = row[t].node
    /\ Accept(row[t].node)
    /\ UNCHANGED <<row, unreadable, drawn, req, crossed, silent, redeploys>>

\* An unbound token, and one bound before there was a claim, need a write.
AuthorizeOlder(r) ==
  /\ At(r, "idle")
  /\ \E t \in Tokens, h \in Ids :
       /\ row[t].there /\ row[t].claimed \in {NoId, h}
       /\ \/ /\ row[t].node = NoId
             /\ req' = [req EXCEPT ![r] = [Idle EXCEPT !.pc = "bind", !.token = t, !.id = h]]
          \/ /\ row[t].node = h /\ row[t].claimed = NoId
             /\ req' = [req EXCEPT ![r] = [Idle EXCEPT !.pc = "claim", !.token = t, !.id = h]]
  /\ UNCHANGED <<row, unreadable, drawn, known, crossed, silent, redeploys>>

BoundWithoutGuard(old, h) == IF old.there THEN Row(h, IF old.claimed = NoId THEN h ELSE old.claimed)
                             ELSE old

\* UPDATE ... WHERE node_id IS NULL.
Bound(old, h) == IF old.there /\ old.node = NoId
                 THEN Row(h, IF old.claimed = NoId THEN h ELSE old.claimed) ELSE old

\* The answer is the hostname, whether the UPDATE found the row unbound or not.
Bind(r) ==
  LET t == req[r].token  h == req[r].id IN
  /\ At(r, "bind")
  /\ row' = [row EXCEPT ![t] = Bound(@, h)]
  /\ Cross(t, h)
  /\ Accept(h)
  /\ Finish(r)
  /\ UNCHANGED <<unreadable, drawn, silent, redeploys>>

Claim(r) ==
  LET t == req[r].token  h == req[r].id IN
  /\ At(r, "claim")
  /\ row' = [row EXCEPT ![t] = IF @.there /\ @.claimed = NoId THEN [@ EXCEPT !.claimed = h] ELSE @]
  /\ Accept(h)
  /\ Finish(r)
  /\ UNCHANGED <<unreadable, drawn, crossed, silent, redeploys>>

Next ==
  \/ CreateUnboundToken \/ AuthorizeBound \/ DeleteNode \/ Redeploy
  \/ \E r \in Requests :
       \/ BuildResponse(r) \/ InsertToken(r)
       \/ RotateToken(r) \/ DeleteAll(r) \/ Announce(r) \/ DeleteToken(r) \/ Fail(r)
       \/ AuthorizeOlder(r) \/ Bind(r) \/ Claim(r)

Spec == Init /\ [][Next]_vars

-----------------------------------------------------------------------------
(* Properties *)

\* The variables keep their types.
TypeOK ==
  /\ row \in [Tokens -> [node : Ids \cup {NoId}, claimed : Ids \cup {NoId}, there : BOOLEAN]]
  /\ unreadable \subseteq Tokens /\ drawn \in 2 .. MaxTokens
  /\ known \subseteq Ids
  /\ req \in [Requests -> [pc : {"idle", "insert", "delete all", "announce", "bind", "claim"},
                           token : 0 .. MaxTokens, id : Ids \cup {NoId},
                           rows : SUBSET Tokens, rotate : BOOLEAN]]
  /\ crossed \subseteq Tokens /\ silent \subseteq Tokens /\ redeploys \in Nat

\* Two first reports may race to bind a token, and both are answered, the loser
\* with a name of its own; but a binding, once made, is final, and nothing but
\* it is ever claimed, so that every later report is stored under it.
BindingIsFinal ==
  [][\A t \in Tokens : row[t].node # NoId /\ row'[t].there
       => row'[t].node = row[t].node /\ row'[t].claimed \in {NoId, row[t].node}]_vars

\* A deleted token is announced, so that its connections end, unless the
\* handler died first, is still about to, or a rotation deleted it without
\* having seen it (it was minted or bound between the two statements) or
\* without being able to read it (it was sealed under another secret).
DeletedAreAnnounced ==
  silent \subseteq crossed \cup unreadable
                    \cup UNION {req[r].rows : r \in {x \in Requests : At(x, "announce")}}
=============================================================================
