---------------------------- MODULE Nodes_proof ----------------------------
(* What is proved of the nodes' tokens, of their latency samples and of an  *)
(* agent's update of itself, for any number of nodes, handlers, identities, *)
(* tokens and versions: a binding is final, and what a deletion does not    *)
(* announce is what crossed a rotation; a failed call loses no sample, and  *)
(* only failed calls duplicate one; attempts to update keep apart, and only *)
(* a whole binary is started unless an installer was stopped half way.      *)
EXTENDS NodeTokens, PingPipeline, SelfUpdate, FiniteSetTheorems, TLAPS

(***************************************************************************)
(* The admission tokens.                                                   *)
(***************************************************************************)

AnyId == Ids \cup {NoId}
RowType == [node : AnyId, claimed : AnyId, there : BOOLEAN]
Pcs == {"idle", "insert", "delete all", "announce", "bind", "claim"}
ReqType == [pc : Pcs, token : 0 .. MaxTokens, id : AnyId, rows : SUBSET Tokens, rotate : BOOLEAN]

Types ==
  /\ row \in [Tokens -> RowType]
  /\ drawn \in 2 .. MaxTokens
  /\ known \subseteq Ids
  /\ req \in [Requests -> ReqType]
  /\ crossed \subseteq Tokens /\ silent \subseteq Tokens
  /\ unreadable \subseteq Tokens /\ redeploys \in Nat

\* Nothing but the binding is claimed; tokens not drawn yet have no row; a
\* handler about to claim still means the identity its token has.
Bindings ==
  /\ \A t \in Tokens : row[t].claimed \in {NoId, row[t].node}
  /\ \A t \in Tokens : t > drawn => row[t] = Gone
  /\ \A r \in Requests : At(r, "claim") =>
       /\ req[r].token \in 1 .. drawn
       /\ row[req[r].token].there => row[req[r].token].node = req[r].id

\* Only the announcement of one deletion names no identity; a binding is of
\* some token.
Named ==
  \A r \in Requests :
    /\ req[r].rotate \/ req[r].pc \in {"insert", "delete all", "bind", "claim"} => req[r].id \in Ids
    /\ req[r].pc = "bind" => req[r].token \in Tokens

\* What a rotation is about to delete it has read, or it crossed.
Rotations ==
  \A r \in Requests : At(r, "delete all") => Of(req[r].id) \subseteq req[r].rows \cup crossed

TokensInv == Types /\ Bindings /\ Named /\ Rotations /\ DeletedAreAnnounced

\* The action of BindingIsFinal.
Kept == \A t \in Tokens : row[t].node # NoId /\ row'[t].there
          => row'[t].node = row[t].node /\ row'[t].claimed \in {NoId, row[t].node}

LEMMA Rows ==
  /\ Gone \in RowType
  /\ \A n, c \in AnyId : Row(n, c) \in RowType
  /\ \A old \in RowType, h \in Ids : Bound(old, h) \in RowType
  /\ \A old \in RowType, h \in Ids : [old EXCEPT !.claimed = h] \in RowType
<1>1. NoId \in AnyId /\ Ids \subseteq AnyId
  BY DEF AnyId
<1>2. Gone \in RowType
  BY <1>1 DEF Gone, RowType
<1>3. \A n, c \in AnyId : Row(n, c) \in RowType
  BY DEF Row, RowType
<1>4. ASSUME NEW old \in RowType, NEW h \in Ids PROVE Bound(old, h) \in RowType
  <2>1. old.claimed \in AnyId
    BY DEF RowType
  <2> QED BY <1>1, <1>3, <2>1 DEF Bound
<1>5. ASSUME NEW old \in RowType, NEW h \in Ids PROVE [old EXCEPT !.claimed = h] \in RowType
  BY <1>1 DEF RowType
<1> QED BY <1>2, <1>3, <1>4, <1>5

LEMMA Locals ==
  /\ Idle \in ReqType
  /\ \A q \in ReqType, pc \in Pcs : [q EXCEPT !.pc = pc] \in ReqType
  /\ \A q \in ReqType, b \in BOOLEAN, pc \in Pcs : [q EXCEPT !.pc = pc, !.rotate = b] \in ReqType
  /\ \A id \in AnyId : [Idle EXCEPT !.id = id] \in ReqType
  /\ \A id \in AnyId, pc \in Pcs, rows \in SUBSET Tokens :
       [Idle EXCEPT !.pc = pc, !.id = id, !.rows = rows] \in ReqType
  /\ \A pc \in Pcs, rows \in SUBSET Tokens : [Idle EXCEPT !.pc = pc, !.rows = rows] \in ReqType
  /\ \A id \in AnyId, pc \in Pcs, t \in Tokens :
       [Idle EXCEPT !.pc = pc, !.token = t, !.id = id] \in ReqType
<1>1. 0 \in 0 .. MaxTokens /\ Tokens \subseteq 0 .. MaxTokens
  BY ConstantsAssumption DEF Tokens
<1>2. NoId \in AnyId /\ "idle" \in Pcs /\ {} \in SUBSET Tokens
  BY DEF AnyId, Pcs
<1>3. Idle \in ReqType
  BY <1>1, <1>2 DEF Idle, ReqType
<1>4. \A q \in ReqType, pc \in Pcs : [q EXCEPT !.pc = pc] \in ReqType
  BY DEF ReqType
<1>5. \A q \in ReqType, b \in BOOLEAN, pc \in Pcs : [q EXCEPT !.pc = pc, !.rotate = b] \in ReqType
  BY DEF ReqType
<1>6. \A q \in ReqType, id \in AnyId : [q EXCEPT !.id = id] \in ReqType
  BY DEF ReqType
<1>7. \A q \in ReqType, id \in AnyId, pc \in Pcs, rows \in SUBSET Tokens :
        [q EXCEPT !.pc = pc, !.id = id, !.rows = rows] \in ReqType
  BY DEF ReqType
<1>8. \A q \in ReqType, pc \in Pcs, rows \in SUBSET Tokens :
        [q EXCEPT !.pc = pc, !.rows = rows] \in ReqType
  BY DEF ReqType
<1>9. \A q \in ReqType, id \in AnyId, pc \in Pcs, t \in Tokens :
        [q EXCEPT !.pc = pc, !.token = t, !.id = id] \in ReqType
  BY <1>1 DEF ReqType
<1> QED BY <1>3, <1>4, <1>5, <1>6, <1>7, <1>8, <1>9

LEMMA InitTokens == Init => TokensInv
<1> SUFFICES ASSUME Init PROVE TokensInv
  OBVIOUS
<1>1. PICK i \in Ids :
        /\ row = [t \in Tokens |-> CASE t = 1 -> Row(NoId, NoId) [] t = 2 -> Row(i, NoId)
                                     [] OTHER -> Gone]
        /\ known = {i}
  BY DEF Init
<1>2. 2 \in 2 .. MaxTokens
  BY ConstantsAssumption
<1>3. \A t \in Tokens : row[t] \in {Row(NoId, NoId), Row(i, NoId), Gone}
  BY <1>1
<1>4. \A t \in Tokens : row[t] \in RowType
  BY <1>3, Rows DEF AnyId
<1>5. req \in [Requests -> ReqType]
  BY Locals DEF Init
<1>6. Types
  <2>1. row \in [Tokens -> RowType]
    BY <1>1, <1>4
  <2> QED BY <1>1, <1>2, <1>5, <2>1 DEF Init, Types
<1>7. Bindings
  <2>1. \A t \in Tokens : row[t].claimed \in {NoId, row[t].node}
    BY <1>3 DEF Row, Gone
  <2>2. \A t \in Tokens : t > drawn => row[t] = Gone
    BY <1>1 DEF Init, Tokens
  <2> QED BY <2>1, <2>2 DEF Init, Bindings, At, Idle
<1>8. Named /\ Rotations /\ DeletedAreAnnounced
  BY DEF Init, Named, Rotations, DeletedAreAnnounced, At, Idle
<1> QED BY <1>6, <1>7, <1>8 DEF TokensInv

\* One handler changes, and the others keep their locals.
LEMMA OneHandler ==
  ASSUME Types, NEW r \in Requests, NEW q \in ReqType, req' = [req EXCEPT ![r] = q]
  PROVE  /\ req' \in [Requests -> ReqType]
         /\ req'[r] = q
         /\ \A x \in Requests \ {r} : req'[x] = req[x]
  BY DEF Types

\* The tokens announced before a handler moved and not after it are its own.
LEMMA Announcing ==
  ASSUME Types, NEW r \in Requests, NEW q \in ReqType, req' = [req EXCEPT ![r] = q],
         DeletedAreAnnounced,
         crossed \subseteq crossed', unreadable \subseteq unreadable',
         \A t \in silent' : t \in silent \/ (q.pc = "announce" /\ t \in q.rows \cup crossed'),
         \/ ~At(r, "announce")
         \/ q.pc = "announce" /\ q.rows = req[r].rows
         \/ silent' \cap req[r].rows \subseteq unreadable
  PROVE  DeletedAreAnnounced'
<1>1. req'[r] = q /\ \A x \in Requests \ {r} : req'[x] = req[x]
  BY OneHandler
<1> SUFFICES ASSUME NEW t \in silent', t \notin crossed', t \notin unreadable'
             PROVE  \E x \in Requests : req'[x].pc = "announce" /\ t \in req'[x].rows
  BY DEF DeletedAreAnnounced, At
<1>2. CASE q.pc = "announce" /\ t \in q.rows
  BY <1>1, <1>2
<1>3. CASE t \in silent
  <2>1. PICK x \in Requests : req[x].pc = "announce" /\ t \in req[x].rows
    BY <1>3 DEF DeletedAreAnnounced, At
  <2>2. CASE x # r
    BY <1>1, <2>1, <2>2
  <2>3. CASE x = r
    BY <1>1, <2>1, <2>3 DEF At
  <2> QED BY <2>2, <2>3
<1> QED BY <1>2, <1>3

\* A step of one handler that touches no table.
LEMMA LocalStep ==
  ASSUME TokensInv, NEW r \in Requests, NEW q \in ReqType, req' = [req EXCEPT ![r] = q],
         UNCHANGED <<row, unreadable, drawn, known, crossed, redeploys>>,
         silent' \subseteq silent,
         \/ ~At(r, "announce")
         \/ q.pc = "announce" /\ q.rows = req[r].rows
         \/ silent' \cap req[r].rows \subseteq unreadable,
         q.rotate \/ q.pc \in {"insert", "delete all", "bind", "claim"} => q.id \in Ids,
         q.pc = "bind" => q.token \in Tokens,
         q.pc = "claim" => /\ q.token \in 1 .. drawn
                           /\ row[q.token].there => row[q.token].node = q.id,
         q.pc = "delete all" => Of(q.id) \subseteq q.rows \cup crossed
  PROVE  TokensInv' /\ Kept
<1>1. Types /\ Bindings /\ Rotations /\ DeletedAreAnnounced
  BY DEF TokensInv
<1>2. /\ req' \in [Requests -> ReqType]
      /\ req'[r] = q
      /\ \A x \in Requests \ {r} : req'[x] = req[x]
  BY <1>1, OneHandler
<1>3. Types'
  BY <1>1, <1>2 DEF Types
<1>4. Bindings'
  BY <1>1, <1>2 DEF Bindings, At
<1>5. Rotations'
  BY <1>1, <1>2 DEF Rotations, At, Of
<1>6. DeletedAreAnnounced'
  BY <1>1, Announcing
<1>7. Kept
  BY <1>1 DEF Bindings, Kept
<1>8. Named'
  BY <1>1, <1>2 DEF TokensInv, Named
<1> QED BY <1>3, <1>4, <1>5, <1>6, <1>7, <1>8 DEF TokensInv

\* A row is minted or bound: what the tables become.
LEMMA Written ==
  ASSUME TokensInv, NEW t \in Tokens, NEW id \in Ids, NEW new \in RowType,
         row' = [row EXCEPT ![t] = new],
         new.claimed \in {NoId, new.node},
         new.node \in {row[t].node, id},
         new.there /\ row[t].node # NoId => new.node = row[t].node,
         Cross(t, id)
  PROVE  /\ row' \in [Tokens -> RowType]
         /\ \A x \in Tokens : row'[x].claimed \in {NoId, row'[x].node}
         /\ Kept
         /\ crossed \subseteq crossed' /\ crossed' \subseteq Tokens
         /\ Rotating(id) => t \in crossed'
         /\ \A x \in Tokens \ {t} : row'[x] = row[x]
         /\ row'[t] = new
<1>1. Types /\ Bindings
  BY DEF TokensInv
<1>2. row' \in [Tokens -> RowType] /\ row'[t] = new /\ \A x \in Tokens \ {t} : row'[x] = row[x]
  BY <1>1 DEF Types
<1>3. \A x \in Tokens : row'[x].claimed \in {NoId, row'[x].node}
  BY <1>1, <1>2 DEF Bindings
<1>4. Kept
  BY <1>1, <1>2 DEF Bindings, Kept
<1>5. crossed \subseteq crossed' /\ crossed' \subseteq Tokens /\ (Rotating(id) => t \in crossed')
  BY <1>1 DEF Cross, Types
<1> QED BY <1>2, <1>3, <1>4, <1>5

\* A rotation between its statements still means what it read or what crossed.
LEMMA WrittenRotations ==
  ASSUME TokensInv, NEW t \in Tokens, NEW id \in Ids,
         crossed \subseteq crossed',
         Rotating(id) => t \in crossed',
         \A x \in Tokens \ {t} : row'[x] = row[x],
         row'[t].there => row'[t].node = id \/ (row'[t].node = row[t].node /\ row[t].there),
         \A x \in Requests : req'[x].pc = "delete all" => req'[x] = req[x]
  PROVE  Rotations'
<1> SUFFICES ASSUME NEW x \in Requests, req'[x].pc = "delete all", NEW u \in Tokens,
                    row'[u].there, row'[u].node = req'[x].id
             PROVE  u \in req'[x].rows \cup crossed'
  BY DEF Rotations, Of, At
<1>1. At(x, "delete all") /\ req'[x] = req[x]
  BY DEF At
<1>2. Of(req[x].id) \subseteq req[x].rows \cup crossed
  BY <1>1 DEF TokensInv, Rotations
<1>3. CASE u \in Of(req[x].id)
  BY <1>1, <1>2, <1>3
<1>4. CASE u \notin Of(req[x].id)
  <2>1. u = t /\ req[x].id = id
    BY <1>1, <1>4 DEF Of
  <2>2. Rotating(id)
    BY <1>1, <2>1 DEF Rotating
  <2> QED BY <2>1, <2>2
<1> QED BY <1>3, <1>4

\* A token is minted.
LEMMA MintedTables ==
  ASSUME TokensInv, NEW id \in Ids, drawn < MaxTokens,
         row' = [row EXCEPT ![drawn + 1] = Row(id, id)], drawn' = drawn + 1,
         Cross(drawn + 1, id), UNCHANGED <<unreadable, known, silent, redeploys>>,
         req' \in [Requests -> ReqType],
         \A x \in Requests : req'[x] = req[x] \/ req'[x] = Idle
  PROVE  Types' /\ Bindings' /\ Named' /\ Rotations' /\ Kept /\ crossed \subseteq crossed'
<1>1. Types /\ Bindings /\ Rotations /\ DeletedAreAnnounced
  BY DEF TokensInv
<1>2. drawn + 1 \in Tokens /\ drawn + 1 \in 2 .. MaxTokens /\ drawn \in Nat
  BY <1>1, ConstantsAssumption DEF Types, Tokens
<1>3. Row(id, id) \in RowType
  BY Rows DEF AnyId
<1>4. row[drawn + 1] = Gone
  BY <1>1, <1>2 DEF Bindings, Tokens
<1>5. /\ Row(id, id).claimed \in {NoId, Row(id, id).node}
      /\ Row(id, id).node = id
      /\ row[drawn + 1].node = NoId /\ ~row[drawn + 1].there
  BY <1>4 DEF Row, Gone
<1>6. /\ row' \in [Tokens -> RowType]
      /\ \A x \in Tokens : row'[x].claimed \in {NoId, row'[x].node}
      /\ Kept
      /\ crossed \subseteq crossed' /\ crossed' \subseteq Tokens
      /\ Rotating(id) => drawn + 1 \in crossed'
      /\ \A x \in Tokens \ {drawn + 1} : row'[x] = row[x]
      /\ row'[drawn + 1] = Row(id, id)
  BY <1>2, <1>3, <1>5, Written
<1>7. Types'
  BY <1>1, <1>2, <1>6 DEF Types
<1>8. \A x \in Requests : req'[x].pc # "idle" => req'[x] = req[x]
  BY DEF Idle
<1>9. Bindings'
  <2>1. \A t \in Tokens : t > drawn' => row'[t] = Gone
    BY <1>1, <1>2, <1>6 DEF Bindings, Tokens
  <2>2. ASSUME NEW r \in Requests, req'[r].pc = "claim"
        PROVE  /\ req'[r].token \in 1 .. drawn'
               /\ row'[req'[r].token].there => row'[req'[r].token].node = req'[r].id
    <3>1. At(r, "claim") /\ req'[r] = req[r]
      BY <1>8, <2>2 DEF At
    <3>2. /\ req[r].token \in 1 .. drawn
          /\ row[req[r].token].there => row[req[r].token].node = req[r].id
      BY <1>1, <3>1 DEF Bindings
    <3>3. req[r].token \in Tokens \ {drawn + 1}
      BY <1>1, <1>2, <3>2, ConstantsAssumption DEF Tokens, Types
    <3> QED BY <1>2, <1>6, <3>1, <3>2, <3>3
  <2> QED BY <1>6, <2>1, <2>2 DEF Bindings, At
<1>10. Rotations'
  <2>1. row'[drawn + 1].there => row'[drawn + 1].node = id
    BY <1>5, <1>6
  <2>2. \A x \in Requests : req'[x].pc = "delete all" => req'[x] = req[x]
    BY <1>8
  <2>3. /\ drawn + 1 \in Tokens /\ crossed \subseteq crossed'
        /\ Rotating(id) => drawn + 1 \in crossed'
        /\ \A x \in Tokens \ {drawn + 1} : row'[x] = row[x]
    BY <1>2, <1>6
  <2> HIDE DEF Row
  <2> QED BY <2>1, <2>2, <2>3, WrittenRotations
<1>11. Named'
  <2> SUFFICES ASSUME NEW x \in Requests
               PROVE  /\ req'[x].rotate \/ req'[x].pc \in {"insert", "delete all", "bind", "claim"}
                           => req'[x].id \in Ids
                      /\ req'[x].pc = "bind" => req'[x].token \in Tokens
    BY DEF Named
  <2>1. CASE req'[x] = req[x]
    BY <2>1 DEF TokensInv, Named
  <2>2. CASE req'[x] = Idle
    BY <2>2 DEF Idle
  <2> QED BY <2>1, <2>2
<1> QED BY <1>6, <1>7, <1>9, <1>10, <1>11

LEMMA CreateUnboundInv == ASSUME TokensInv, CreateUnboundToken PROVE TokensInv' /\ Kept
<1>1. PICK id \in Ids \ known :
        /\ row' = [row EXCEPT ![drawn + 1] = Row(id, id)]
        /\ Cross(drawn + 1, id)
  BY DEF CreateUnboundToken
<1>2. drawn < MaxTokens /\ drawn' = drawn + 1 /\ UNCHANGED <<unreadable, known, req, silent, redeploys>>
  BY DEF CreateUnboundToken
<1>3. req' \in [Requests -> ReqType]
  BY <1>2 DEF TokensInv, Types
<1>4. Types' /\ Bindings' /\ Named' /\ Rotations' /\ Kept /\ crossed \subseteq crossed'
  BY <1>1, <1>2, <1>3, MintedTables
<1>5. DeletedAreAnnounced'
  BY <1>2, <1>4 DEF TokensInv, DeletedAreAnnounced, At
<1> QED BY <1>4, <1>5 DEF TokensInv

LEMMA InsertInv ==
  ASSUME TokensInv, NEW r \in Requests, InsertToken(r)
  PROVE  TokensInv' /\ Kept
<1>1. Types
  BY DEF TokensInv
<1>2. Idle \in ReqType /\ req' = [req EXCEPT ![r] = Idle]
  BY Locals DEF InsertToken, Finish
<1>3. /\ req' \in [Requests -> ReqType]
      /\ \A x \in Requests : req'[x] = req[x] \/ req'[x] = Idle
  BY <1>1, <1>2, OneHandler
<1>4. Types' /\ Bindings' /\ Named' /\ Rotations' /\ Kept /\ crossed \subseteq crossed'
  <2>1. req[r].id \in Ids
    BY DEF InsertToken, At, TokensInv, Named
  <2> QED BY <1>3, <2>1, MintedTables DEF InsertToken
<1>5. ~At(r, "announce") /\ UNCHANGED <<silent, unreadable>>
  BY DEF InsertToken, At
<1>6. DeletedAreAnnounced'
  BY <1>1, <1>2, <1>4, <1>5, Announcing DEF TokensInv
<1> QED BY <1>4, <1>6 DEF TokensInv

\* Rows are deleted, and at most one handler moves, to its announcement.
LEMMA RemovedTables ==
  ASSUME TokensInv, NEW S \in SUBSET Tokens,
         row' = [t \in Tokens |-> IF t \in S THEN Gone ELSE row[t]],
         UNCHANGED <<unreadable, drawn, crossed, redeploys>>, known' \subseteq known, silent' \subseteq Tokens,
         req' \in [Requests -> ReqType],
         \A x \in Requests : req'[x] = req[x] \/ req'[x].pc = "announce"
  PROVE  Types' /\ Bindings' /\ Rotations' /\ Kept
<1>1. Types /\ Bindings /\ Rotations
  BY DEF TokensInv
<1>2. \A t \in Tokens : row'[t] = IF t \in S THEN Gone ELSE row[t]
  OBVIOUS
<1>3. row' \in [Tokens -> RowType]
  BY <1>1, Rows DEF Types
<1>4. Types'
  BY <1>1, <1>3 DEF Types
<1>5. Bindings'
  <2>1. \A t \in Tokens : row'[t].claimed \in {NoId, row'[t].node}
    BY <1>1, <1>2 DEF Bindings, Gone
  <2>2. \A t \in Tokens : t > drawn' => row'[t] = Gone
    BY <1>1, <1>2 DEF Bindings
  <2>3. ASSUME NEW r \in Requests, req'[r].pc = "claim"
        PROVE  /\ req'[r].token \in 1 .. drawn'
               /\ row'[req'[r].token].there => row'[req'[r].token].node = req'[r].id
    <3>1. At(r, "claim") /\ req'[r] = req[r]
      BY <2>3 DEF At
    <3>2. /\ req[r].token \in 1 .. drawn
          /\ row[req[r].token].there => row[req[r].token].node = req[r].id
      BY <1>1, <3>1 DEF Bindings
    <3>3. req[r].token \in Tokens
      BY <1>1, <3>2, ConstantsAssumption DEF Tokens, Types
    <3> QED BY <1>2, <3>1, <3>2, <3>3 DEF Gone
  <2> QED BY <2>1, <2>2, <2>3 DEF Bindings, At
<1>6. Rotations'
  <2>1. \A id : \A t \in Tokens : row'[t].there /\ row'[t].node = id => t \in Of(id)
    BY <1>2 DEF Gone, Of
  <2> SUFFICES ASSUME NEW x \in Requests, req'[x].pc = "delete all", NEW u \in Tokens,
                      row'[u].there, row'[u].node = req'[x].id
               PROVE  u \in req'[x].rows \cup crossed'
    BY DEF Rotations, Of, At
  <2>2. At(x, "delete all") /\ req'[x] = req[x]
    BY DEF At
  <2> QED BY <1>1, <2>1, <2>2 DEF Rotations
<1>7. Kept
  BY <1>1, <1>2 DEF Bindings, Kept, Gone
<1> QED BY <1>4, <1>5, <1>6, <1>7

LEMMA BuildResponseInv ==
  ASSUME TokensInv, NEW r \in Requests, BuildResponse(r) PROVE TokensInv' /\ Kept
<1>1. PICK id \in known : Shown(id) = {} /\ EnsureToken(r, [Idle EXCEPT !.id = id])
  BY DEF BuildResponse
<1> DEFINE q == [[Idle EXCEPT !.id = id] EXCEPT !.pc = "insert"]
<1>2. req' = [req EXCEPT ![r] = q]
  BY <1>1 DEF EnsureToken
<1>3. id \in Ids
  BY DEF TokensInv, Types
<1>4. q \in ReqType
  BY <1>3, Locals DEF AnyId, Pcs
<1>5. q.pc = "insert" /\ q.id = id
  BY DEF Idle
<1>6. ~At(r, "announce") /\ silent' \subseteq silent /\ UNCHANGED <<row, unreadable, drawn, known, crossed, redeploys>>
  BY DEF BuildResponse, At
<1> HIDE DEF q
<1> QED BY <1>2, <1>3, <1>4, <1>5, <1>6, LocalStep

LEMMA RotateInv ==
  ASSUME TokensInv, NEW r \in Requests, RotateToken(r) PROVE TokensInv' /\ Kept
<1>1. PICK id \in known :
        req' = [req EXCEPT ![r] = [Idle EXCEPT !.pc = "delete all", !.id = id, !.rows = Of(id)]]
  BY DEF RotateToken
<1> DEFINE q == [Idle EXCEPT !.pc = "delete all", !.id = id, !.rows = Of(id)]
<1>2. req' = [req EXCEPT ![r] = q]
  BY <1>1
<1>3. id \in Ids
  BY DEF TokensInv, Types
<1>4. q \in ReqType
  BY <1>3, Locals DEF AnyId, Pcs, Of
<1>5. q.pc = "delete all" /\ q.id = id /\ q.rows = Of(id)
  BY DEF Idle
<1>6. ~At(r, "announce") /\ silent' \subseteq silent /\ UNCHANGED <<row, unreadable, drawn, known, crossed, redeploys>>
  BY DEF RotateToken, At
<1> HIDE DEF q
<1> QED BY <1>2, <1>3, <1>4, <1>5, <1>6, LocalStep

\* A rotation deletes: what it had not read had crossed it.
LEMMA DeleteAllInv ==
  ASSUME TokensInv, NEW r \in Requests, DeleteAll(r) PROVE TokensInv' /\ Kept
<1>1. Types /\ Named /\ Rotations /\ DeletedAreAnnounced
  BY DEF TokensInv
<1> DEFINE S == Of(req[r].id)
           q == [req[r] EXCEPT !.pc = "announce", !.rotate = TRUE]
<1>2. /\ row' = [t \in Tokens |-> IF t \in S THEN Gone ELSE row[t]]
      /\ silent' = silent \cup S
      /\ UNCHANGED <<unreadable, drawn, known, crossed, redeploys>>
      /\ req[r].pc = "delete all"
  BY DEF DeleteAll, At
<1>3. req' = [req EXCEPT ![r] = q]
  BY DEF DeleteAll
<1>4. req[r] \in ReqType
  BY <1>1 DEF Types
<1>5. q \in ReqType
  BY <1>4, Locals DEF Pcs
<1>6. q.pc = "announce" /\ q.rows = req[r].rows /\ q.id = req[r].id
  BY <1>4 DEF ReqType
<1>7. S \subseteq req[r].rows \cup crossed
  BY <1>1, <1>2 DEF Rotations, At
<1>8. S \in SUBSET Tokens
  BY DEF Of
<1> HIDE DEF q, S
<1>9. /\ req' \in [Requests -> ReqType]
      /\ req'[r] = q
      /\ \A x \in Requests \ {r} : req'[x] = req[x]
  BY <1>1, <1>3, <1>5, OneHandler
<1>10. Types' /\ Bindings' /\ Rotations' /\ Kept
  <2>1. silent' \subseteq Tokens /\ known' \subseteq known
    BY <1>1, <1>2, <1>8 DEF Types
  <2>2. \A x \in Requests : req'[x] = req[x] \/ req'[x].pc = "announce"
    BY <1>6, <1>9
  <2> QED BY <1>2, <1>8, <1>9, <2>1, <2>2, RemovedTables
<1>11. Named'
  BY <1>1, <1>2, <1>6, <1>9 DEF Named
<1>12. DeletedAreAnnounced'
  <2>1. ~At(r, "announce") /\ crossed \subseteq crossed' /\ unreadable \subseteq unreadable'
    BY <1>2 DEF At
  <2>2. \A t \in silent' : t \in silent \/ (q.pc = "announce" /\ t \in q.rows \cup crossed')
    BY <1>2, <1>6, <1>7
  <2> QED BY <1>1, <1>3, <1>5, <2>1, <2>2, Announcing
<1> QED BY <1>10, <1>11, <1>12 DEF TokensInv

LEMMA DeleteTokenInv ==
  ASSUME TokensInv, NEW r \in Requests, DeleteToken(r) PROVE TokensInv' /\ Kept
<1>1. Types /\ Named /\ DeletedAreAnnounced
  BY DEF TokensInv
<1>2. PICK t \in 1 .. drawn :
        /\ row' = [row EXCEPT ![t] = Gone]
        /\ silent' = silent \cup {t}
        /\ req' = [req EXCEPT ![r] = [Idle EXCEPT !.pc = "announce", !.rows = {t}]]
  BY DEF DeleteToken
<1> DEFINE q == [Idle EXCEPT !.pc = "announce", !.rows = {t}]
<1>3. t \in Tokens /\ {t} \in SUBSET Tokens
  BY <1>1, ConstantsAssumption DEF Types, Tokens
<1>4. q \in ReqType
  BY <1>3, Locals DEF Pcs
<1>5. q.pc = "announce" /\ q.rows = {t} /\ q.rotate = FALSE
  BY DEF Idle
<1>6. ~At(r, "announce") /\ UNCHANGED <<unreadable, drawn, known, crossed, redeploys>>
  BY DEF DeleteToken, At
<1>7. row' = [x \in Tokens |-> IF x \in {t} THEN Gone ELSE row[x]]
  BY <1>1, <1>2, <1>3 DEF Types
<1>8. req' = [req EXCEPT ![r] = q]
  BY <1>2
<1> HIDE DEF q
<1>9. /\ req' \in [Requests -> ReqType]
      /\ req'[r] = q
      /\ \A x \in Requests \ {r} : req'[x] = req[x]
  BY <1>1, <1>4, <1>8, OneHandler
<1>10. Types' /\ Bindings' /\ Rotations' /\ Kept
  <2>1. silent' \subseteq Tokens /\ known' \subseteq known
    BY <1>1, <1>2, <1>3, <1>6 DEF Types
  <2>2. \A x \in Requests : req'[x] = req[x] \/ req'[x].pc = "announce"
    BY <1>5, <1>9
  <2> QED BY <1>3, <1>6, <1>7, <1>9, <2>1, <2>2, RemovedTables
<1>11. Named'
  BY <1>1, <1>5, <1>9 DEF Named
<1>12. DeletedAreAnnounced'
  <2>1. \A u \in silent' : u \in silent \/ (q.pc = "announce" /\ u \in q.rows \cup crossed')
    BY <1>2, <1>5
  <2> QED BY <1>1, <1>4, <1>6, <1>8, <2>1, Announcing
<1> QED BY <1>10, <1>11, <1>12 DEF TokensInv

LEMMA DeleteNodeInv == ASSUME TokensInv, DeleteNode PROVE TokensInv' /\ Kept
<1>1. Types /\ Named /\ DeletedAreAnnounced
  BY DEF TokensInv
<1>2. PICK id \in known :
        /\ known' = known \ {id}
        /\ row' = [t \in Tokens |-> IF t \in Of(id) THEN Gone ELSE row[t]]
  BY DEF DeleteNode
<1>3. UNCHANGED <<unreadable, drawn, req, crossed, silent, redeploys>>
  BY DEF DeleteNode
<1>4. Of(id) \in SUBSET Tokens
  BY DEF Of
<1>5. /\ silent' \subseteq Tokens /\ known' \subseteq known
      /\ req' \in [Requests -> ReqType]
      /\ \A x \in Requests : req'[x] = req[x]
  BY <1>1, <1>2, <1>3 DEF Types
<1>6. Types' /\ Bindings' /\ Rotations' /\ Kept
  BY <1>2, <1>3, <1>4, <1>5, RemovedTables
<1>7. Named' /\ DeletedAreAnnounced'
  BY <1>1, <1>3 DEF Named, DeletedAreAnnounced, At
<1> QED BY <1>6, <1>7 DEF TokensInv

\* The handler tells the listeners, and a rotation mints the next token.
LEMMA AnnounceInv ==
  ASSUME TokensInv, NEW r \in Requests, Announce(r) PROVE TokensInv' /\ Kept
<1>1. req[r] \in ReqType
  BY DEF TokensInv, Types
<1>2. /\ silent' = silent \ (IF req[r].rotate THEN req[r].rows \ unreadable ELSE req[r].rows)
      /\ UNCHANGED <<row, unreadable, drawn, known, crossed, redeploys>>
  BY DEF Announce
<1>3. silent' \subseteq silent /\ silent' \cap req[r].rows \subseteq unreadable
  BY <1>2
<1>4. CASE req' = [req EXCEPT ![r] = Idle]
  <2>1. Idle \in ReqType /\ Idle.pc = "idle" /\ Idle.rotate = FALSE
    BY Locals DEF Idle
  <2> QED BY <1>2, <1>3, <1>4, <2>1, LocalStep
<1>5. CASE req[r].rotate /\ req' = [req EXCEPT ![r] = [req[r] EXCEPT !.pc = "insert"]]
  <2> DEFINE q == [req[r] EXCEPT !.pc = "insert"]
  <2>1. q \in ReqType
    BY <1>1, Locals DEF Pcs
  <2>2. q.pc = "insert" /\ q.id = req[r].id
    BY <1>1 DEF ReqType
  <2>3. req[r].id \in Ids
    BY <1>5 DEF TokensInv, Named
  <2>4. req' = [req EXCEPT ![r] = q]
    BY <1>5
  <2> HIDE DEF q
  <2> QED BY <1>2, <1>3, <2>1, <2>2, <2>3, <2>4, LocalStep
<1> QED BY <1>4, <1>5 DEF Announce, EnsureToken, Finish

LEMMA FailInv ==
  ASSUME TokensInv, NEW r \in Requests, Fail(r) PROVE TokensInv' /\ Kept
<1>1. /\ req' = [req EXCEPT ![r] = Idle]
      /\ UNCHANGED <<row, unreadable, drawn, known, crossed, redeploys>>
      /\ silent' = IF At(r, "announce") THEN silent \ req[r].rows ELSE silent
  BY DEF Fail, Finish
<1>2. Idle \in ReqType /\ Idle.pc = "idle" /\ Idle.rotate = FALSE
  BY Locals DEF Idle
<1>3. /\ silent' \subseteq silent
      /\ ~At(r, "announce") \/ silent' \cap req[r].rows = {}
  BY <1>1
<1> QED BY <1>1, <1>2, <1>3, LocalStep

\* What only looks at the tokens and the handlers.
LEMMA Untouched ==
  ASSUME TokensInv, UNCHANGED <<row, unreadable, drawn, req, crossed, silent>>
  PROVE  Bindings' /\ Named' /\ Rotations' /\ DeletedAreAnnounced'
<1>1. Bindings /\ Named /\ Rotations /\ DeletedAreAnnounced
  BY DEF TokensInv
<1>2. Bindings'
  BY <1>1 DEF Bindings, At
<1>3. Named'
  BY <1>1, Zenon DEF Named
<1>4. Rotations'
  BY <1>1 DEF Rotations, At, Of
<1>5. DeletedAreAnnounced'
  BY <1>1 DEF DeletedAreAnnounced, At
<1> QED BY <1>2, <1>3, <1>4, <1>5

\* A report reads its token.
LEMMA AuthorizeBoundInv == ASSUME TokensInv, AuthorizeBound PROVE TokensInv' /\ Kept
<1>1. PICK t \in Tokens : row[t].node # NoId /\ known' = known \cup {row[t].node}
                         /\ UNCHANGED <<row, unreadable, drawn, req, crossed, silent, redeploys>>
  BY DEF AuthorizeBound, Accept
<1>2. Types /\ Bindings /\ Named /\ Rotations /\ DeletedAreAnnounced
  BY DEF TokensInv
<1>3. row[t].node \in Ids
  <2>1. row[t] \in RowType
    BY <1>2 DEF Types
  <2> QED BY <1>1, <2>1 DEF RowType, AnyId
<1>4. Types'
  BY <1>1, <1>2, <1>3 DEF Types
<1>5. Bindings' /\ Named' /\ Rotations' /\ DeletedAreAnnounced'
  BY <1>1, Untouched
<1>6. Kept
  BY <1>1, <1>2 DEF Kept, Bindings
<1> QED BY <1>4, <1>5, <1>6 DEF TokensInv

LEMMA AuthorizeOlderInv ==
  ASSUME TokensInv, NEW r \in Requests, AuthorizeOlder(r) PROVE TokensInv' /\ Kept
<1>1. PICK t \in Tokens, i \in Ids, pc \in {"bind", "claim"} :
        /\ row[t].there
        /\ req' = [req EXCEPT ![r] = [Idle EXCEPT !.pc = pc, !.token = t, !.id = i]]
        /\ pc = "claim" => row[t].node = i
  BY DEF AuthorizeOlder
<1> DEFINE q == [Idle EXCEPT !.pc = pc, !.token = t, !.id = i]
<1>2. q \in ReqType
  BY Locals DEF AnyId, Pcs
<1>3. q.pc = pc /\ q.token = t /\ q.id = i
  BY DEF Idle
<1>4. t \in 1 .. drawn
  <2>1. row[t] # Gone
    BY <1>1 DEF Gone
  <2>2. ~(t > drawn)
    BY <2>1 DEF TokensInv, Bindings
  <2> QED BY <2>2, ConstantsAssumption DEF TokensInv, Types, Tokens
<1>5. ~At(r, "announce") /\ silent' \subseteq silent /\ UNCHANGED <<row, unreadable, drawn, known, crossed, redeploys>>
  BY DEF AuthorizeOlder, At
<1>6. req' = [req EXCEPT ![r] = q]
  BY <1>1
<1> HIDE DEF q
<1> QED BY <1>1, <1>2, <1>3, <1>4, <1>5, <1>6, LocalStep

LEMMA BoundRow ==
  ASSUME NEW old \in RowType, NEW i \in Ids, old.claimed \in {NoId, old.node}
  PROVE  /\ Bound(old, i) \in RowType
         /\ Bound(old, i).claimed \in {NoId, Bound(old, i).node}
         /\ Bound(old, i).there = old.there
         /\ Bound(old, i) = old \/ (old.there /\ old.node = NoId /\ Bound(old, i) = Row(i, i))
<1>1. Bound(old, i) \in RowType
  BY Rows
<1>2. CASE old.there /\ old.node = NoId
  BY <1>1, <1>2 DEF Bound, Row
<1>3. CASE ~(old.there /\ old.node = NoId)
  BY <1>1, <1>3 DEF Bound
<1> QED BY <1>2, <1>3

\* The UPDATE binds a token nobody bound in between, or changes nothing.
LEMMA BindInv ==
  ASSUME TokensInv, NEW r \in Requests, Bind(r) PROVE TokensInv' /\ Kept
<1>1. Types /\ Bindings /\ Named /\ Rotations /\ DeletedAreAnnounced
  BY DEF TokensInv
<1> DEFINE t == req[r].token
           i == req[r].id
           new == Bound(row[t], i)
<1>2. t \in Tokens /\ i \in Ids /\ i # NoId
  BY <1>1, ConstantsAssumption DEF Bind, At, Named
<1>3. /\ req' = [req EXCEPT ![r] = Idle] /\ req[r].pc = "bind"
      /\ known' = known \cup {i}
      /\ UNCHANGED <<unreadable, drawn, silent, redeploys>>
      /\ Cross(t, i)
  BY DEF Bind, Finish, Accept, At
<1>4. row' = [row EXCEPT ![t] = new]
  BY DEF Bind
<1> HIDE DEF t, i
<1>5. row[t] \in RowType /\ row[t].claimed \in {NoId, row[t].node}
  BY <1>1, <1>2 DEF Types, Bindings
<1>6. /\ new \in RowType
      /\ new.claimed \in {NoId, new.node}
      /\ new.there = row[t].there
      /\ new = row[t] \/ (row[t].there /\ row[t].node = NoId /\ new = Row(i, i))
  BY <1>2, <1>5, BoundRow
<1> HIDE DEF new
<1>7. /\ new.node \in {row[t].node, i}
      /\ new.there /\ row[t].node # NoId => new.node = row[t].node
  BY <1>6 DEF Row
<1>8. /\ row' \in [Tokens -> RowType]
      /\ \A x \in Tokens : row'[x].claimed \in {NoId, row'[x].node}
      /\ Kept
      /\ crossed \subseteq crossed' /\ crossed' \subseteq Tokens
      /\ Rotating(i) => t \in crossed'
      /\ \A x \in Tokens \ {t} : row'[x] = row[x]
      /\ row'[t] = new
  BY <1>2, <1>3, <1>4, <1>6, <1>7, Written
<1>9. /\ Idle \in ReqType /\ Idle.pc = "idle" /\ Idle.rotate = FALSE
  BY Locals DEF Idle
<1>10. /\ req' \in [Requests -> ReqType]
       /\ req'[r] = Idle
       /\ \A x \in Requests \ {r} : req'[x] = req[x]
  BY <1>1, <1>3, <1>9, OneHandler
<1>11. Types'
  BY <1>1, <1>2, <1>3, <1>8, <1>10 DEF Types
<1>12. Bindings'
  <2>1. \A x \in Tokens : x > drawn' => row'[x] = Gone
    BY <1>1, <1>3, <1>6, <1>8 DEF Bindings, Gone
  <2>2. ASSUME NEW x \in Requests, req'[x].pc = "claim"
        PROVE  /\ req'[x].token \in 1 .. drawn'
               /\ row'[req'[x].token].there => row'[req'[x].token].node = req'[x].id
    <3>1. At(x, "claim") /\ req'[x] = req[x]
      BY <1>9, <1>10, <2>2 DEF At
    <3>2. /\ req[x].token \in 1 .. drawn
          /\ row[req[x].token].there => row[req[x].token].node = req[x].id
      BY <1>1, <3>1 DEF Bindings
    <3>3. req[x].token \in Tokens
      BY <1>1, <3>2, ConstantsAssumption DEF Tokens, Types
    <3>4. req[x].id # NoId
      BY <1>1, <3>1, ConstantsAssumption DEF Named, At
    <3>5. row'[req[x].token].there => row[req[x].token].there
      BY <1>6, <1>8, <3>3
    <3>6. row'[req[x].token].there => row'[req[x].token].node = req[x].id
      BY <1>6, <1>8, <3>2, <3>3, <3>4, <3>5
    <3> QED BY <1>3, <3>1, <3>2, <3>6
  <2> QED BY <1>8, <2>1, <2>2 DEF Bindings, At
<1>13. Named'
  BY <1>1, <1>9, <1>10 DEF Named
<1>14. Rotations'
  <2>1. \A x \in Requests : req'[x].pc = "delete all" => req'[x] = req[x]
    BY <1>9, <1>10
  <2>2. row'[t].there => row'[t].node = i \/ (row'[t].node = row[t].node /\ row[t].there)
    BY <1>6, <1>7, <1>8
  <2> QED BY <1>2, <1>8, <2>1, <2>2, WrittenRotations
<1>15. DeletedAreAnnounced'
  <2>1. ~At(r, "announce")
    BY <1>3 DEF At
  <2> QED BY <1>1, <1>3, <1>8, <1>9, <2>1, Announcing
<1> QED BY <1>8, <1>11, <1>12, <1>13, <1>14, <1>15 DEF TokensInv

LEMMA ClaimInv ==
  ASSUME TokensInv, NEW r \in Requests, Claim(r) PROVE TokensInv' /\ Kept
<1>1. Types /\ Bindings /\ Named /\ Rotations /\ DeletedAreAnnounced
  BY DEF TokensInv
<1> DEFINE t == req[r].token
           i == req[r].id
           new == IF row[t].there /\ row[t].claimed = NoId
                  THEN [row[t] EXCEPT !.claimed = i] ELSE row[t]
<1>2. /\ req' = [req EXCEPT ![r] = Idle] /\ req[r].pc = "claim"
      /\ known' = known \cup {i}
      /\ UNCHANGED <<unreadable, drawn, crossed, silent, redeploys>>
  BY DEF Claim, Finish, Accept, At
<1>3. /\ t \in 1 .. drawn /\ i \in Ids
      /\ row[t].there => row[t].node = i
  BY <1>1, <1>2 DEF Bindings, Named, At
<1>4. t \in Tokens
  BY <1>1, <1>3, ConstantsAssumption DEF Types, Tokens
<1>5. row' = [row EXCEPT ![t] = new]
  BY DEF Claim
<1> HIDE DEF t, i
<1>6. row[t] \in RowType /\ row[t].claimed \in {NoId, row[t].node}
  BY <1>1, <1>4 DEF Types, Bindings
<1>7. /\ new \in RowType
      /\ new.there = row[t].there /\ new.node = row[t].node
      /\ new.claimed \in {NoId, row[t].node}
  <2>1. CASE row[t].there /\ row[t].claimed = NoId
    <3>1. [row[t] EXCEPT !.claimed = i] \in RowType
      BY <1>3, <1>6, Rows
    <3> QED BY <1>3, <1>6, <2>1, <3>1 DEF RowType
  <2>2. CASE ~(row[t].there /\ row[t].claimed = NoId)
    BY <1>6, <2>2
  <2> QED BY <2>1, <2>2
<1>8. ~row[t].there => new = row[t]
  OBVIOUS
<1> HIDE DEF new
<1>9. /\ row' \in [Tokens -> RowType]
      /\ row'[t] = new /\ \A x \in Tokens \ {t} : row'[x] = row[x]
  BY <1>1, <1>4, <1>5, <1>7 DEF Types
<1>10. \A x \in Tokens : /\ row'[x].there = row[x].there /\ row'[x].node = row[x].node
                        /\ row'[x].claimed \in {NoId, row[x].node}
  BY <1>1, <1>7, <1>9 DEF Bindings
<1>11. /\ Idle \in ReqType /\ Idle.pc = "idle" /\ Idle.rotate = FALSE
  BY Locals DEF Idle
<1>12. /\ req' \in [Requests -> ReqType]
       /\ req'[r] = Idle
       /\ \A x \in Requests \ {r} : req'[x] = req[x]
  BY <1>1, <1>2, <1>11, OneHandler
<1>13. Types'
  BY <1>1, <1>2, <1>3, <1>9, <1>12 DEF Types
<1>14. Bindings'
  <2>1. \A x \in Tokens : x > drawn' => row'[x] = Gone
    BY <1>1, <1>2, <1>8, <1>9 DEF Bindings, Gone
  <2>2. ASSUME NEW x \in Requests, req'[x].pc = "claim"
        PROVE  /\ req'[x].token \in 1 .. drawn'
               /\ row'[req'[x].token].there => row'[req'[x].token].node = req'[x].id
    <3>1. At(x, "claim") /\ req'[x] = req[x]
      BY <1>11, <1>12, <2>2 DEF At
    <3>2. /\ req[x].token \in 1 .. drawn
          /\ row[req[x].token].there => row[req[x].token].node = req[x].id
      BY <1>1, <3>1 DEF Bindings
    <3>3. req[x].token \in Tokens
      BY <1>1, <3>2, ConstantsAssumption DEF Tokens, Types
    <3> QED BY <1>2, <1>10, <3>1, <3>2, <3>3
  <2> QED BY <1>10, <2>1, <2>2 DEF Bindings, At
<1>15. Named'
  BY <1>1, <1>11, <1>12 DEF Named
<1>16. Rotations'
  <2> SUFFICES ASSUME NEW x \in Requests, req'[x].pc = "delete all", NEW u \in Tokens,
                      row'[u].there, row'[u].node = req'[x].id
               PROVE  u \in req'[x].rows \cup crossed'
    BY DEF Rotations, Of, At
  <2>1. At(x, "delete all") /\ req'[x] = req[x]
    BY <1>11, <1>12 DEF At
  <2>2. u \in Of(req[x].id)
    BY <1>10, <2>1 DEF Of
  <2> QED BY <1>1, <1>2, <2>1, <2>2 DEF Rotations
<1>17. DeletedAreAnnounced'
  <2>1. ~At(r, "announce") /\ crossed \subseteq crossed'
    BY <1>2 DEF At
  <2> QED BY <1>1, <1>2, <1>11, <2>1, Announcing
<1>18. Kept
  BY <1>10 DEF Kept
<1> QED BY <1>13, <1>14, <1>15, <1>16, <1>17, <1>18 DEF TokensInv

\* A start of the server leaves the rows, and nothing is in progress any more.
LEMMA RedeployInv == ASSUME TokensInv, Redeploy PROVE TokensInv' /\ Kept
<1>1. Types /\ Bindings
  BY DEF TokensInv
<1>2. /\ unreadable' \subseteq Tokens
      /\ req' = [r \in Requests |-> Idle]
      /\ crossed' = {} /\ silent' = {} /\ redeploys' = redeploys + 1
      /\ UNCHANGED <<row, drawn, known>>
  BY DEF Redeploy
<1>3. Types'
  <2>1. Idle \in ReqType
    BY Locals
  <2>2. req' \in [Requests -> ReqType] /\ redeploys' \in Nat
    BY <1>1, <1>2, <2>1 DEF Types
  <2> QED BY <1>1, <1>2, <2>2 DEF Types
<1>4. \A r \in Requests : req'[r].pc = "idle" /\ req'[r].rotate = FALSE
  BY <1>2 DEF Idle
<1>5. Bindings' /\ Named' /\ Rotations'
  BY <1>1, <1>2, <1>4 DEF Bindings, Named, Rotations, At
<1>6. DeletedAreAnnounced'
  BY <1>2 DEF DeletedAreAnnounced
<1>7. Kept
  BY <1>1, <1>2 DEF Kept, Bindings
<1> QED BY <1>3, <1>5, <1>6, <1>7 DEF TokensInv

LEMMA TokensStep == TokensInv /\ [Next]_vars => TokensInv' /\ [Kept]_vars
<1> SUFFICES ASSUME TokensInv, [Next]_vars PROVE TokensInv' /\ [Kept]_vars
  OBVIOUS
<1>1. CASE CreateUnboundToken
  BY <1>1, CreateUnboundInv
<1>2. CASE AuthorizeBound
  BY <1>2, AuthorizeBoundInv
<1>3. CASE DeleteNode
  BY <1>3, DeleteNodeInv
<1>6. CASE Redeploy
  BY <1>6, RedeployInv
<1>4. ASSUME NEW r \in Requests,
             \/ BuildResponse(r) \/ InsertToken(r)
             \/ RotateToken(r) \/ DeleteAll(r) \/ Announce(r) \/ DeleteToken(r) \/ Fail(r)
             \/ AuthorizeOlder(r) \/ Bind(r) \/ Claim(r)
      PROVE  TokensInv' /\ Kept
  BY <1>4, BuildResponseInv, InsertInv, RotateInv, DeleteAllInv, AnnounceInv, DeleteTokenInv,
     FailInv, AuthorizeOlderInv, BindInv, ClaimInv
<1>5. CASE UNCHANGED vars
  <2>1. Bindings' /\ Named' /\ Rotations' /\ DeletedAreAnnounced'
    BY <1>5, Untouched DEF vars
  <2>2. Types'
    BY <1>5 DEF vars, TokensInv, Types
  <2> QED BY <1>5, <2>1, <2>2 DEF TokensInv
<1> QED BY <1>1, <1>2, <1>3, <1>4, <1>5, <1>6 DEF Next

\* A deleted token is announced (deleteNodeToken, rotateTokenForNode), unless
\* its handler died, it crossed a rotation, or the server that rotated it could
\* not read it, for any handlers and tokens.
THEOREM AnnouncedOrCrossed == Spec => []DeletedAreAnnounced
<1>1. TokensInv => DeletedAreAnnounced
  BY DEF TokensInv
<1> QED BY InitTokens, TokensStep, <1>1, PTL DEF Spec

\* Once a token has an identity it keeps it (authorizeReport), however many
\* first reports, claims, rotations and deletions are in progress.
THEOREM BindingsAreFinal == Spec => BindingIsFinal
<1>1. TokensInv /\ [Next]_vars => [Kept]_vars
  BY TokensStep
<1>2. Init => TokensInv
  BY InitTokens
<1>3. TokensInv /\ [Next]_vars => TokensInv'
  BY TokensStep
<1>4. Spec => [][Kept]_vars
  BY <1>1, <1>2, <1>3, PTL DEF Spec
<1> QED BY <1>4 DEF BindingIsFinal, Kept

-----------------------------------------------------------------------------
(***************************************************************************)
(* The latency samples.  Both invariants follow from one that is           *)
(* inductive, PipeInv: it says where the copies of a sample are (a         *)
(* runner's buffer, or the rows that handlers have still to insert), that  *)
(* its retries pay for them, and what became of a sample that has none.    *)
(***************************************************************************)

-----------------------------------------------------------------------------
Repeatless(q) == \A i, j \in 1..Len(q) : q[i] = q[j] => i = j
TakenOf(n) == {s \in taken : s.node = n}
Covered(s) == stored[s] > 0 \/ s \in GivenUp

\* A runner that waits for its call has sent all it had, and the handler of the
\* call is storing just that.
Looped(n) ==
  /\ runner[n].pc = "flush" => runner[n].call \in Handlers /\ runner[n].buf = <<>>
  /\ runner[n].pc # "flush" => runner[n].call = "" /\ runner[n].batch = <<>>
  /\ runner[n].call \in Handlers =>
       /\ handler[runner[n].call].pc # "free" /\ handler[runner[n].call].node = n
       /\ handler[runner[n].call].all = runner[n].batch
Loops == \A n \in Nodes : Looped(n)

\* What a handler has not still to insert is stored, or given up.
Batched(h) ==
  /\ handler[h].pc = "free" => handler[h] = Free
  /\ handler[h].pc = "arrived" => handler[h].rest = handler[h].all
  /\ SamplesIn(handler[h].rest) \subseteq SamplesIn(handler[h].all)
  /\ \A s \in SamplesIn(handler[h].all) : s \in SamplesIn(handler[h].rest) \/ Covered(s)
Batches == \A h \in Handlers : Batched(h)

\* The next number is new.
Numbers ==
  /\ IsFiniteSet(taken)
  /\ \A n \in Nodes : \A s \in TakenOf(n) : s.no <= Cardinality(TakenOf(n))

\* Nothing is sent or stored that was not taken.
Origins ==
  /\ \A n \in Nodes : SamplesIn(runner[n].buf) \cup SamplesIn(runner[n].batch) \subseteq TakenOf(n)
  /\ \A h \in Handlers : SamplesIn(handler[h].rest) \subseteq taken
  /\ \A s \in Sample : stored[s] > 0 => s \in taken

\* No sample is twice in a buffer, in a batch or in the rows to insert.
Singles ==
  /\ \A n \in Nodes : Repeatless(runner[n].buf) /\ Repeatless(runner[n].batch)
  /\ \A h \in Handlers : Repeatless(handler[h].rest)

Busy == {h \in Handlers : handler[h].pc # "free"}
Copies(s) == {h \in Handlers : s \in SamplesIn(handler[h].rest)}
InBuffer(s) == IF s \in SamplesIn(runner[s.node].buf) THEN 1 ELSE 0

\* The rows of a sample, stored and still to come, are paid for by its retries.
Paid ==
  \A s \in Sample : stored[s] + Cardinality(Copies(s)) + InBuffer(s) <= 1 + requeued[s]

\* Where a sample can be that is on its way.
Way(s) ==
  \/ \E n \in Nodes : s \in SamplesIn(runner[n].buf) \cup SamplesIn(runner[n].batch)
  \/ \E h \in Handlers : s \in SamplesIn(handler[h].rest)

NothingLost == \A s \in taken : Covered(s) \/ Way(s)

PipeInv ==
  PipelineTypeOK /\ Loops /\ Batches /\ Numbers /\ Origins /\ Singles /\ IsFiniteSet(Busy) /\ Paid /\ NothingLost
-----------------------------------------------------------------------------
(* Sequences of samples *)

LEMMA SmallestOf == \A a, b \in Int : Lesser(a, b) \in {a, b} /\ Lesser(a, b) <= a /\ Lesser(a, b) <= b
BY DEF Lesser

LEMMA Concatenated ==
  ASSUME NEW S, NEW p \in Seq(S), NEW q \in Seq(S)
  PROVE  /\ p \o q \in Seq(S)
         /\ SamplesIn(p \o q) = SamplesIn(p) \cup SamplesIn(q)
<1>1. /\ p \o q \in Seq(S) /\ Len(p \o q) = Len(p) + Len(q)
      /\ Len(p) \in Nat /\ Len(q) \in Nat
      /\ \A i \in 1..Len(p) : (p \o q)[i] = p[i]
      /\ \A i \in 1..Len(q) : (p \o q)[Len(p) + i] = q[i]
  OBVIOUS
<1>2. SamplesIn(p) \cup SamplesIn(q) \subseteq SamplesIn(p \o q)
  <2>1. \A i \in 1..Len(p) : i \in 1..Len(p \o q)
    BY <1>1
  <2>2. \A i \in 1..Len(q) : Len(p) + i \in 1..Len(p \o q)
    BY <1>1
  <2> QED BY <1>1, <2>1, <2>2 DEF SamplesIn
<1>3. SamplesIn(p \o q) \subseteq SamplesIn(p) \cup SamplesIn(q)
  <2> SUFFICES ASSUME NEW i \in 1..Len(p \o q)
               PROVE  (p \o q)[i] \in SamplesIn(p) \cup SamplesIn(q)
    BY DEF SamplesIn
  <2>1. CASE i \in 1..Len(p)
    BY <1>1, <2>1 DEF SamplesIn
  <2>2. CASE i \notin 1..Len(p)
    <3> DEFINE j == i - Len(p)
    <3>1. j \in 1..Len(q) /\ i = Len(p) + j
      BY <1>1, <2>2
    <3>2. (p \o q)[i] = q[j]
      BY <1>1, <3>1
    <3> QED BY <3>1, <3>2 DEF SamplesIn
  <2> QED BY <2>1, <2>2
<1> QED BY <1>1, <1>2, <1>3

LEMMA Nothing == SamplesIn(<<>>) = {} /\ Repeatless(<<>>)
BY DEF SamplesIn, Repeatless

LEMMA Appended ==
  ASSUME NEW S, NEW q \in Seq(S), NEW s \in S
  PROVE  /\ Append(q, s) \in Seq(S)
         /\ SamplesIn(Append(q, s)) = SamplesIn(q) \cup {s}
         /\ Repeatless(q) /\ s \notin SamplesIn(q) => Repeatless(Append(q, s))
<1>1. /\ Append(q, s) \in Seq(S) /\ Len(q) \in Nat /\ Len(Append(q, s)) = Len(q) + 1
      /\ Append(q, s)[Len(q) + 1] = s /\ \A i \in 1..Len(q) : Append(q, s)[i] = q[i]
      /\ 1..(Len(q) + 1) = 1..Len(q) \cup {Len(q) + 1}
  OBVIOUS
<1>2. SamplesIn(Append(q, s)) = SamplesIn(q) \cup {s}
  BY <1>1 DEF SamplesIn
<1>3. ASSUME Repeatless(q), s \notin SamplesIn(q)
      PROVE  Repeatless(Append(q, s))
  <2> SUFFICES ASSUME NEW i \in 1..Len(q) \cup {Len(q) + 1}, NEW j \in 1..Len(q) \cup {Len(q) + 1},
                      Append(q, s)[i] = Append(q, s)[j]
               PROVE  i = j
    BY <1>1 DEF Repeatless
  <2>1. CASE i \in 1..Len(q) /\ j \in 1..Len(q)
    BY <1>1, <1>3, <2>1 DEF Repeatless
  <2>2. \A l \in 1..Len(q) : Append(q, s)[l] # s
    BY <1>1, <1>3 DEF SamplesIn
  <2> QED BY <1>1, <2>1, <2>2
<1> QED BY <1>1, <1>2, <1>3

\* The first slice of the rows, and what remains of them.
LEMMA Sliced ==
  ASSUME NEW S, NEW q \in Seq(S), q # <<>>, BatchMax \in Nat \ {0}
  PROVE  LET first == SubSeq(q, 1, Lesser(BatchMax, Len(q)))
         IN  /\ first \in Seq(S) /\ NextSlice(q) \in Seq(S)
             /\ SamplesIn(q) = SamplesIn(first) \cup SamplesIn(NextSlice(q))
             /\ Repeatless(q) => /\ Repeatless(NextSlice(q))
                                 /\ SamplesIn(first) \cap SamplesIn(NextSlice(q)) = {}
<1> DEFINE m == Lesser(BatchMax, Len(q))
           first == SubSeq(q, 1, m)
           rest == NextSlice(q)
<1>1. /\ Len(q) \in Nat /\ Len(q) >= 1 /\ m \in Nat /\ m >= 1 /\ m <= Len(q)
      /\ m = BatchMax \/ (m = Len(q) /\ Len(q) < BatchMax)
  <2>1. Len(q) \in Nat /\ Len(q) # 0
    OBVIOUS
  <2> QED BY <2>1 DEF Lesser
<1>2. /\ first \in Seq(S) /\ Len(first) = m /\ \A i \in 1..m : first[i] = q[i]
  BY <1>1
<1>3. /\ rest \in Seq(S) /\ Len(rest) \in Nat
      /\ \A i \in 1..Len(rest) : rest[i] = q[BatchMax + i] /\ BatchMax + i \in 1..Len(q)
      /\ Len(rest) = IF BatchMax < Len(q) THEN Len(q) - BatchMax ELSE 0
  BY <1>1 DEF NextSlice
<1> HIDE DEF m, first, rest
<1>4. SamplesIn(first) \cup SamplesIn(rest) \subseteq SamplesIn(q)
  <2>1. \A i \in 1..m : i \in 1..Len(q)
    BY <1>1
  <2>2. SamplesIn(first) \subseteq SamplesIn(q)
    BY <1>2, <2>1 DEF SamplesIn
  <2>3. SamplesIn(rest) \subseteq SamplesIn(q)
    BY <1>3 DEF SamplesIn
  <2> QED BY <2>2, <2>3
<1>5. SamplesIn(q) \subseteq SamplesIn(first) \cup SamplesIn(rest)
  <2> SUFFICES ASSUME NEW i \in 1..Len(q) PROVE q[i] \in SamplesIn(first) \cup SamplesIn(rest)
    BY DEF SamplesIn
  <2>1. CASE i <= m
    <3>1. i \in 1..m
      BY <1>1, <2>1
    <3> QED BY <1>2, <3>1 DEF SamplesIn
  <2>2. CASE i > m
    <3> DEFINE j == i - BatchMax
    <3>1. j \in 1..Len(rest) /\ i = BatchMax + j
      BY <1>1, <1>3, <2>2
    <3>2. q[i] = rest[j]
      BY <1>3, <3>1
    <3> QED BY <3>1, <3>2 DEF SamplesIn
  <2> QED BY <1>1, <2>1, <2>2
<1>6. ASSUME Repeatless(q) PROVE Repeatless(rest)
  <2> SUFFICES ASSUME NEW i \in 1..Len(rest), NEW j \in 1..Len(rest), rest[i] = rest[j]
               PROVE  i = j
    BY DEF Repeatless
  <2>1. BatchMax + i = BatchMax + j
    BY <1>3, <1>6 DEF Repeatless
  <2> QED BY <1>3, <2>1
<1>7. ASSUME Repeatless(q) PROVE SamplesIn(first) \cap SamplesIn(rest) = {}
  <2> SUFFICES ASSUME NEW i \in 1..m, NEW j \in 1..Len(rest), first[i] = rest[j] PROVE FALSE
    BY <1>2 DEF SamplesIn
  <2>1. i \in 1..Len(q) /\ BatchMax + j \in 1..Len(q) /\ q[i] = q[BatchMax + j]
    BY <1>1, <1>2, <1>3
  <2>2. i = BatchMax + j
    BY <1>7, <2>1 DEF Repeatless
  <2> QED BY <1>1, <1>3, <2>2
<1> QED BY <1>2, <1>3, <1>4, <1>5, <1>6, <1>7 DEF m, first, rest

\* The positions in the window have ranks, one each.
LEMMA Ranked ==
  ASSUME NEW q, Len(q) \in Nat
  PROVE  LET at == InWindow(q)
             rank(i) == Cardinality({j \in at : j <= i})
         IN  /\ Cardinality(at) \in Nat
             /\ \A k \in 1..Cardinality(at) : \E i \in at : rank(i) = k
             /\ \A i \in at : rank(i) \in 1..Cardinality(at)
             /\ \A i, j \in at : rank(i) = rank(j) => i = j
<1> DEFINE at == InWindow(q)
           upTo(i) == {j \in at : j <= i}
           rank(i) == Cardinality(upTo(i))
<1>1. at \subseteq 1..Len(q) /\ at \subseteq Int
  BY DEF InWindow
<1>2. IsFiniteSet(at)
  <2>1. IsFiniteSet(1..Len(q))
    BY FS_Interval
  <2> HIDE DEF at
  <2> QED BY <1>1, <2>1, FS_Subset
<1> HIDE DEF at
<1>3. Cardinality(at) \in Nat
  BY <1>2, FS_CardinalityType
<1>4. ASSUME NEW i \in at
      PROVE  /\ IsFiniteSet(upTo(i)) /\ rank(i) \in Nat
             /\ rank(i) <= Cardinality(at) /\ rank(i) >= 1
  <2>1. upTo(i) \subseteq at
    OBVIOUS
  <2>2. IsFiniteSet(upTo(i)) /\ rank(i) <= Cardinality(at)
    BY <1>2, <2>1, FS_Subset
  <2>3. rank(i) \in Nat
    BY <2>2, FS_CardinalityType
  <2>4. upTo(i) # {}
    BY <1>1
  <2>5. rank(i) # 0
    BY <2>2, <2>4, FS_EmptySet
  <2> HIDE DEF rank
  <2> QED BY <2>2, <2>3, <2>5
<1>5. ASSUME NEW i \in at, NEW j \in at, i < j
      PROVE  rank(i) < rank(j)
  <2>1. i \in Int /\ j \in Int
    BY <1>1
  <2>2. upTo(i) \subseteq upTo(j)
    <3> SUFFICES ASSUME NEW l \in at, l <= i PROVE l <= j
      OBVIOUS
    <3>1. l \in Int
      BY <1>1
    <3> QED BY <1>5, <2>1, <3>1
  <2>3. j \in upTo(j) /\ j \notin upTo(i)
    BY <1>5, <2>1
  <2>4. rank(i) \in Nat /\ rank(j) \in Nat /\ IsFiniteSet(upTo(i)) /\ IsFiniteSet(upTo(j))
    BY <1>4
  <2> HIDE DEF upTo
  <2>5. Cardinality(upTo(i) \cup {j}) = rank(i) + 1
    BY <2>3, <2>4, FS_AddElement
  <2>6. upTo(i) \cup {j} \subseteq upTo(j)
    BY <2>2, <2>3
  <2>7. Cardinality(upTo(i) \cup {j}) <= rank(j)
    BY <2>4, <2>6, FS_Subset
  <2> HIDE DEF rank
  <2> QED BY <2>4, <2>5, <2>7
<1> DEFINE f == [i \in at |-> rank(i)]
           T == 1..Cardinality(at)
<1>in. \A i \in at : rank(i) \in T
  <2> SUFFICES ASSUME NEW i \in at PROVE rank(i) \in T
    OBVIOUS
  <2>1. rank(i) \in Nat /\ rank(i) <= Cardinality(at) /\ rank(i) >= 1
    BY <1>4
  <2> HIDE DEF rank
  <2> QED BY <1>3, <2>1
<1>once. \A i, j \in at : rank(i) = rank(j) => i = j
  <2> SUFFICES ASSUME NEW i \in at, NEW j \in at, rank(i) = rank(j), i # j PROVE FALSE
    OBVIOUS
  <2>1. i < j \/ j < i
    BY <1>1
  <2>2. rank(i) \in Nat /\ rank(j) \in Nat
    BY <1>4
  <2>3. rank(i) < rank(j) \/ rank(j) < rank(i)
    BY <1>5, <2>1
  <2> HIDE DEF rank
  <2> QED BY <2>2, <2>3
<1>6. f \in Injection(at, T)
  <2> HIDE DEF rank, T
  <2>1. f \in [at -> T]
    BY <1>in
  <2>2. \A i, j \in at : f[i] = f[j] => i = j
    BY <1>once
  <2> HIDE DEF f
  <2> QED BY <2>1, <2>2 DEF Injection, IsInjective
<1>7. IsFiniteSet(T) /\ Cardinality(T) = Cardinality(at)
  <2> DEFINE c == Cardinality(at)
  <2>1. c \in Nat
    BY <1>3
  <2> HIDE DEF c
  <2>2. IsFiniteSet(1..c) /\ Cardinality(1..c) = c
    BY <2>1, FS_Interval, SMTT(60)
  <2> QED BY <2>2 DEF c
<1>8. f \in Surjection(at, T)
  <2> HIDE DEF f, T
  <2> QED BY <1>6, <1>7, FS_Injection
<1>9. \A k \in T : \E i \in at : rank(i) = k
  <2> HIDE DEF rank
  <2> QED BY <1>8 DEF Surjection
<1> QED BY <1>3, <1>9, <1>in, <1>once DEF at

\* The filter keeps the samples in the window, each as often as it was there.
LEMMA FilterKeeps ==
  ASSUME NEW S, NEW q \in Seq(S)
  PROVE  /\ Filtered(q) \in Seq(S)
         /\ SamplesIn(Filtered(q)) = SamplesIn(q) \ expired
         /\ Repeatless(q) => Repeatless(Filtered(q))
<1> DEFINE at == InWindow(q)
           rank(i) == Cardinality({j \in at : j <= i})
           kth(k) == CHOOSE i \in at : rank(i) = k
           c == Cardinality(at)
<1>1. /\ c \in Nat /\ at \subseteq 1..Len(q)
      /\ \A k \in 1..c : \E i \in at : rank(i) = k
      /\ \A i \in at : rank(i) \in 1..c
      /\ \A i, j \in at : rank(i) = rank(j) => i = j
  <2>1. Len(q) \in Nat
    OBVIOUS
  <2>2. at \subseteq 1..Len(q)
    BY DEF InWindow
  <2> QED BY <2>1, <2>2, Ranked
<1>2. Filtered(q) = [k \in 1..c |-> q[kth(k)]]
  BY DEF Filtered
<1>3. \A k \in 1..c : kth(k) \in at /\ rank(kth(k)) = k
  BY <1>1
<1>4. \A i \in at : q[i] \in S /\ q[i] \notin expired
  BY <1>1 DEF InWindow
<1>at. \A i \in 1..Len(q) : q[i] \notin expired => i \in at
  BY DEF InWindow
<1> HIDE DEF at, rank, kth, c
<1> DEFINE p == Filtered(q)
<1>5. p \in Seq(S) /\ Len(p) = c /\ \A k \in 1..c : p[k] = q[kth(k)]
  <2>1. p = [k \in 1..c |-> q[kth(k)]]
    BY <1>2
  <2>2. \A k \in 1..c : q[kth(k)] \in S
    BY <1>3, <1>4
  <2> QED BY <1>1, <2>1, <2>2
<1> HIDE DEF p
<1>6. SamplesIn(p) \subseteq SamplesIn(q) \ expired
  <2> SUFFICES ASSUME NEW k \in 1..c PROVE p[k] \in SamplesIn(q) \ expired
    BY <1>5 DEF SamplesIn
  <2>1. kth(k) \in at /\ kth(k) \in 1..Len(q) /\ p[k] = q[kth(k)]
    BY <1>1, <1>3, <1>5
  <2> QED BY <1>4, <2>1 DEF SamplesIn
<1>7. SamplesIn(q) \ expired \subseteq SamplesIn(p)
  <2> SUFFICES ASSUME NEW i \in 1..Len(q), q[i] \notin expired PROVE q[i] \in SamplesIn(p)
    BY DEF SamplesIn
  <2>1. i \in at
    BY <1>at
  <2>2. rank(i) \in 1..c
    BY <1>1, <2>1
  <2>3. kth(rank(i)) \in at /\ rank(kth(rank(i))) = rank(i)
    BY <1>3, <2>2
  <2>4. kth(rank(i)) = i
    BY <1>1, <2>1, <2>3
  <2> QED BY <1>5, <2>2, <2>4 DEF SamplesIn
<1>8. ASSUME Repeatless(q) PROVE Repeatless(p)
  <2> SUFFICES ASSUME NEW k \in 1..c, NEW l \in 1..c, p[k] = p[l] PROVE k = l
    BY <1>5 DEF Repeatless
  <2>1. /\ kth(k) \in 1..Len(q) /\ kth(l) \in 1..Len(q)
        /\ p[k] = q[kth(k)] /\ p[l] = q[kth(l)]
    BY <1>1, <1>3, <1>5
  <2>2. kth(k) = kth(l)
    BY <1>8, <2>1 DEF Repeatless
  <2> QED BY <1>3, <2>2
<1> QED BY <1>5, <1>6, <1>7, <1>8 DEF p

-----------------------------------------------------------------------------
(* Types *)

LEMMA BatchMaxIs == BatchMax \in Nat \ {0} /\ "" \notin Handlers
BY PipelineAssumption

LEMMA Blank == <<>> \in Seq(Sample) /\ Afresh \in Runner /\ Free \in Handler
<1>1. <<>> \in Seq(Sample)
  OBVIOUS
<1> QED BY <1>1 DEF Afresh, Runner, Free, Handler

LEMMA RunnerTyped ==
  ASSUME PipelineTypeOK, NEW n \in Nodes
  PROVE  /\ runner[n] \in Runner /\ runner[n].pc \in {"loop", "refresh", "apply", "flush"}
         /\ runner[n].buf \in Seq(Sample) /\ runner[n].batch \in Seq(Sample)
         /\ runner[n].call \in Handlers \cup {""}
BY DEF PipelineTypeOK, Runner

LEMMA HandlerTyped ==
  ASSUME PipelineTypeOK, NEW h \in Handlers
  PROVE  /\ handler[h] \in Handler /\ handler[h].pc \in {"free", "arrived", "insert"}
         /\ handler[h].rest \in Seq(Sample) /\ handler[h].all \in Seq(Sample)
BY DEF PipelineTypeOK, Handler

\* A handler's answer: it is free, and the runner that waits for it goes on.
LEMMA AnswerTyped ==
  ASSUME PipelineTypeOK, NEW h \in Handlers, Answer(h)
  PROVE  runner' \in [Nodes -> Runner] /\ handler' \in [Handlers -> Handler]
<1>2. handler' \in [Handlers -> Handler]
  BY Blank DEF Answer, PipelineTypeOK
<1>3. ASSUME NEW n \in Nodes PROVE Done(runner[n]) \in Runner
  BY RunnerTyped, Blank DEF Done, Runner
<1>4. runner' \in [Nodes -> Runner]
  BY <1>3 DEF Answer, PipelineTypeOK
<1> QED BY <1>2, <1>4

LEMMA BatchSamples ==
  ASSUME PipelineTypeOK, NEW n \in Nodes
  PROVE  /\ SamplesIn(runner[n].buf \o runner[n].batch)
              = SamplesIn(runner[n].buf) \cup SamplesIn(runner[n].batch)
         /\ SamplesIn(runner[n].buf) \cup SamplesIn(runner[n].batch) \subseteq Sample
<1>1. runner[n].buf \in Seq(Sample) /\ runner[n].batch \in Seq(Sample)
  BY RunnerTyped
<1>2. \A q \in Seq(Sample) : SamplesIn(q) \subseteq Sample
  BY DEF SamplesIn
<1> QED BY <1>1, <1>2, Concatenated

LEMMA TypesInit == PipelineInit => PipelineTypeOK
<1> SUFFICES ASSUME PipelineInit PROVE PipelineTypeOK
  OBVIOUS
<1>1. task \in [Tasks -> TaskRow]
  BY DEF PipelineInit, NoTask, TaskRow
<1>2. runner \in [Nodes -> Runner] /\ handler \in [Handlers -> Handler]
  BY Blank DEF PipelineInit
<1> QED BY <1>1, <1>2 DEF PipelineInit, PipelineTypeOK

LEMMA AdminTypes ==
  ASSUME PipelineTypeOK
  PROVE  /\ \A t \in Tasks, q \in SUBSET Nodes, x, b \in BOOLEAN :
              UpsertPingTask(t, q, x, b) => PipelineTypeOK'
         /\ \A t \in Tasks : DeletePingTask(t) => PipelineTypeOK'
         /\ \A t \in Tasks : DeleteResults(t) => PipelineTypeOK'
         /\ \A n \in Nodes : DeleteNodeProbes(n) => PipelineTypeOK'
<1>1. ASSUME NEW t \in Tasks, NEW q \in SUBSET Nodes, NEW x \in BOOLEAN, NEW b \in BOOLEAN,
             UpsertPingTask(t, q, x, b)
      PROVE  PipelineTypeOK'
  <2>1. task' \in [Tasks -> TaskRow]
    BY <1>1 DEF UpsertPingTask, PipelineTypeOK, TaskRow
  <2> QED BY <1>1, <2>1 DEF UpsertPingTask, PipelineTypeOK, records
<1>3. ASSUME NEW t \in Tasks, DeletePingTask(t) PROVE PipelineTypeOK'
  <2>1. task' \in [Tasks -> TaskRow]
    BY <1>3 DEF DeletePingTask, PipelineTypeOK, TaskRow, NoTask
  <2>2. Unstore({s \in Sample : s.task = t})
    BY <1>3 DEF DeletePingTask
  <2>3. stored' \in [Sample -> Nat] /\ removed' \subseteq Sample
    BY <2>2 DEF Unstore, PipelineTypeOK
  <2> QED BY <1>3, <2>1, <2>3 DEF DeletePingTask, PipelineTypeOK
<1>4. ASSUME NEW t \in Tasks, DeleteResults(t) PROVE PipelineTypeOK'
  <2>1. stored' \in [Sample -> Nat] /\ removed' \subseteq Sample
    BY <1>4 DEF DeleteResults, Unstore, PipelineTypeOK
  <2> QED BY <1>4, <2>1 DEF DeleteResults, PipelineTypeOK
<1>5. ASSUME NEW n \in Nodes, DeleteNodeProbes(n) PROVE PipelineTypeOK'
  <2>1. task' \in [Tasks -> TaskRow]
    BY <1>5 DEF DeleteNodeProbes, PipelineTypeOK, TaskRow
  <2>2. stored' \in [Sample -> Nat] /\ removed' \subseteq Sample
    BY <1>5 DEF DeleteNodeProbes, Unstore, PipelineTypeOK
  <2> QED BY <1>5, <2>1, <2>2 DEF DeleteNodeProbes, PipelineTypeOK
<1> QED BY <1>1, <1>3, <1>4, <1>5

\* The sample a probe makes.
LEMMA TakenSample ==
  ASSUME PipelineTypeOK, IsFiniteSet(taken), NEW n \in Nodes, TakeSample(n)
  PROVE  /\ IsFiniteSet(TakenOf(n)) /\ Cardinality(TakenOf(n)) \in Nat
         /\ \E s \in Sample : /\ s.node = n /\ s.no = Cardinality(TakenOf(n)) + 1
                             /\ runner' = [runner EXCEPT ![n].buf = Append(@, s)]
                             /\ taken' = taken \cup {s}
<1>1. IsFiniteSet(TakenOf(n))
  BY FS_Subset DEF TakenOf
<1>2. Cardinality(TakenOf(n)) \in Nat
  BY <1>1, FS_CardinalityType
<1>3. Cardinality(TakenOf(n)) + 1 \in 1..MaxSamples
  <2>1. Cardinality(TakenOf(n)) + 1 <= MaxSamples
    BY DEF TakeSample, TakenOf
  <2> DEFINE c == Cardinality(TakenOf(n))
  <2>2. c \in Nat /\ c + 1 <= MaxSamples /\ MaxSamples \in Nat
    BY <1>2, <2>1, PipelineAssumption
  <2> HIDE DEF c
  <2>3. c + 1 \in 1..MaxSamples
    BY <2>2
  <2> QED BY <2>3 DEF c
<1> DEFINE no == Cardinality(TakenOf(n)) + 1
<1>4. PICK t \in runner[n].tasks :
        /\ runner' = [runner EXCEPT ![n].buf = Append(@, [node |-> n, task |-> t, no |-> no])]
        /\ taken' = taken \cup {[node |-> n, task |-> t, no |-> no]}
  BY DEF TakeSample, TakenOf
<1>no. no \in 1..MaxSamples
  BY <1>3
<1> HIDE DEF no
<1>5. t \in Tasks
  BY RunnerTyped DEF Runner
<1> DEFINE s == [node |-> n, task |-> t, no |-> no]
<1>6. s \in Sample /\ s.node = n /\ s.no = no
  BY <1>no, <1>5 DEF Sample
<1> QED BY <1>1, <1>2, <1>4, <1>6 DEF no

LEMMA RunnerTypes ==
  ASSUME PipelineTypeOK, IsFiniteSet(taken), NEW n \in Nodes,
         \/ Refresh(n) \/ AnswerTasks(n) \/ ApplyTasks(n) \/ RefreshFails(n)
         \/ TakeSample(n) \/ Flush(n) \/ FlushFails(n) \/ RestartNode(n) \/ Expire(n)
  PROVE  PipelineTypeOK'
<1>1. runner[n] \in Runner
  BY RunnerTyped
<1>2. CASE Refresh(n)
  <2>1. [runner[n] EXCEPT !.pc = "refresh"] \in Runner
    BY <1>1 DEF Runner
  <2> QED BY <1>2, <2>1 DEF Refresh, PipelineTypeOK, records
<1>3. CASE AnswerTasks(n)
  <2>1. TasksFor(n) \subseteq Tasks
    BY DEF TasksFor
  <2>2. PICK q \in Capped(TasksFor(n)) :
          runner' = [runner EXCEPT ![n] =
            IF n \in bound THEN [runner[n] EXCEPT !.pc = "apply", !.answer = q]
            ELSE [runner[n] EXCEPT !.pc = "loop"]]
    BY <1>3 DEF AnswerTasks
  <2>3. q \in SUBSET Tasks
    BY <2>1, <2>2 DEF Capped
  <2>4. /\ [runner[n] EXCEPT !.pc = "apply", !.answer = q] \in Runner
        /\ [runner[n] EXCEPT !.pc = "loop"] \in Runner
    BY <1>1, <2>3 DEF Runner
  <2>5. runner' \in [Nodes -> Runner]
    BY <2>2, <2>4 DEF PipelineTypeOK
  <2> QED BY <1>3, <2>5 DEF AnswerTasks, PipelineTypeOK, records
<1>4. CASE ApplyTasks(n)
  <2>1. Applied(runner[n].tasks, runner[n].answer) \in SUBSET Tasks
    BY <1>1 DEF Applied, Runner
  <2>2. [runner[n] EXCEPT !.pc = "loop", !.answer = {},
                  !.tasks = Applied(runner[n].tasks, runner[n].answer)] \in Runner
    BY <1>1, <2>1 DEF Runner
  <2> QED BY <1>4, <2>2 DEF ApplyTasks, PipelineTypeOK, records
<1>5. CASE RefreshFails(n)
  <2>1. [runner[n] EXCEPT !.pc = "loop", !.answer = {}] \in Runner
    BY <1>1 DEF Runner
  <2> QED BY <1>5, <2>1 DEF RefreshFails, PipelineTypeOK, records
<1>6. CASE TakeSample(n)
  <2>1. PICK s : /\ runner' = [runner EXCEPT ![n].buf = Append(@, s)]
                 /\ taken' = taken \cup {s} /\ s \in Sample
    BY <1>6, TakenSample
  <2>2. Append(runner[n].buf, s) \in Seq(Sample)
    BY <1>1, <2>1, RunnerTyped, Appended
  <2>3. [runner[n] EXCEPT !.buf = Append(runner[n].buf, s)] \in Runner
    BY <1>1, <2>2 DEF Runner
  <2>4. runner' \in [Nodes -> Runner] /\ taken' \subseteq Sample
    BY <2>1, <2>3 DEF PipelineTypeOK
  <2> QED BY <1>6, <2>4 DEF TakeSample, PipelineTypeOK, records
<1>7. CASE Flush(n)
  <2>1. PICK h \in Handlers :
          /\ handler' = [handler EXCEPT ![h] = [pc |-> "arrived", node |-> n,
                           rest |-> runner[n].buf, all |-> runner[n].buf]]
          /\ runner' = [runner EXCEPT ![n] = [runner[n] EXCEPT !.pc = "flush", !.call = h,
                          !.batch = runner[n].buf, !.buf = <<>>]]
    BY <1>7 DEF Flush
  <2>2. [pc |-> "arrived", node |-> n, rest |-> runner[n].buf, all |-> runner[n].buf] \in Handler
    BY RunnerTyped DEF Handler
  <2>3. [runner[n] EXCEPT !.pc = "flush", !.call = h,
                          !.batch = runner[n].buf, !.buf = <<>>] \in Runner
    BY <1>1, Blank DEF Runner
  <2>4. runner' \in [Nodes -> Runner] /\ handler' \in [Handlers -> Handler]
    BY <2>1, <2>2, <2>3 DEF PipelineTypeOK
  <2> QED BY <1>7, <2>4 DEF Flush, PipelineTypeOK, records
<1>8. CASE FlushFails(n)
  <2>1. runner[n].batch \o runner[n].buf \in Seq(Sample)
    BY RunnerTyped, Concatenated
  <2>2. Requeued(runner[n]) \in Runner
    BY <1>1, <2>1, Blank DEF Requeued, Done, Runner
  <2>4. runner' \in [Nodes -> Runner] /\ handler' \in [Handlers -> Handler]
    BY <1>8, <2>2, Blank DEF FlushFails, PipelineTypeOK
  <2>5. requeued' \in [Sample -> Nat]
    BY <1>8 DEF FlushFails, PipelineTypeOK
  <2> QED BY <1>8, <2>4, <2>5 DEF FlushFails, PipelineTypeOK
<1>9. CASE RestartNode(n)
  <2>2. removed' \subseteq Sample
    BY <1>9, BatchSamples DEF RestartNode, PipelineTypeOK
  <2> QED BY <1>9, <2>2, Blank DEF RestartNode, PipelineTypeOK
<1>10. CASE Expire(n)
  <2>1. expired' \subseteq Sample
    BY <1>10, BatchSamples DEF Expire, PipelineTypeOK
  <2> QED BY <1>10, <2>1 DEF Expire, PipelineTypeOK, records
<1> QED BY <1>2, <1>3, <1>4, <1>5, <1>6, <1>7, <1>8, <1>9, <1>10

LEMMA HandlerTypes ==
  ASSUME PipelineTypeOK, NEW h \in Handlers, Handle(h)
  PROVE  PipelineTypeOK'
<1>1. handler[h] \in Handler /\ handler[h].rest \in Seq(Sample) /\ handler[h].all \in Seq(Sample)
  BY HandlerTyped
<1>2. SamplesIn(handler[h].all) \subseteq Sample
  BY <1>1 DEF SamplesIn
<1>3. CASE AcceptBatch(h)
  <2>1. Filtered(handler[h].rest) \in Seq(Sample)
    BY <1>1, FilterKeeps
  <2>2. [handler[h] EXCEPT !.pc = "insert", !.rest = Filtered(handler[h].rest)] \in Handler
    BY <1>1, <2>1 DEF Handler
  <2> QED BY <1>3, <2>2 DEF AcceptBatch, PipelineTypeOK, records
<1>4. CASE RefuseBatch(h) \/ SliceThrows(h)
  <2>1. Answer(h) /\ refused' = refused \cup SamplesIn(handler[h].all)
    BY <1>4 DEF RefuseBatch, SliceThrows, AnswerError
  <2>2. runner' \in [Nodes -> Runner] /\ handler' \in [Handlers -> Handler]
    BY <2>1, AnswerTyped
  <2>3. refused' \subseteq Sample
    BY <1>2, <2>1 DEF PipelineTypeOK
  <2> QED BY <1>4, <2>2, <2>3 DEF RefuseBatch, SliceThrows, PipelineTypeOK
<1>5. CASE InsertSlice(h)
  <2>1. NextSlice(handler[h].rest) \in Seq(Sample)
    BY <1>1, <1>5, BatchMaxIs, Sliced DEF InsertSlice
  <2>2. [handler[h] EXCEPT !.rest = NextSlice(handler[h].rest)] \in Handler
    BY <1>1, <2>1 DEF Handler
  <2>3. handler' \in [Handlers -> Handler]
    BY <1>5, <2>2 DEF InsertSlice, PipelineTypeOK
  <2>4. stored' \in [Sample -> Nat]
    BY <1>5 DEF InsertSlice, PipelineTypeOK
  <2> QED BY <1>5, <2>3, <2>4 DEF InsertSlice, PipelineTypeOK, records
<1>6. CASE AnswerOk(h)
  <2>1. runner' \in [Nodes -> Runner] /\ handler' \in [Handlers -> Handler]
    BY <1>6, AnswerTyped DEF AnswerOk
  <2> QED BY <1>6, <2>1 DEF AnswerOk, PipelineTypeOK, records
<1> QED BY <1>3, <1>4, <1>5, <1>6 DEF Handle

LEMMA TypesStep ==
  PipelineTypeOK /\ IsFiniteSet(taken) /\ [PipelineNext]_pipelineVars => PipelineTypeOK' /\ IsFiniteSet(taken)'
<1> SUFFICES ASSUME PipelineTypeOK, IsFiniteSet(taken), [PipelineNext]_pipelineVars PROVE PipelineTypeOK' /\ IsFiniteSet(taken)'
  OBVIOUS
<1>1. CASE UNCHANGED pipelineVars
  BY <1>1 DEF PipelineTypeOK, pipelineVars, records
<1>2. ASSUME NEW t \in Tasks, NEW q \in SUBSET Nodes, NEW x \in BOOLEAN, NEW b \in BOOLEAN,
             UpsertPingTask(t, q, x, b)
      PROVE  PipelineTypeOK' /\ taken' = taken
  BY <1>2, AdminTypes DEF UpsertPingTask
<1>3. ASSUME NEW t \in Tasks, DeletePingTask(t) \/ DeleteResults(t)
      PROVE  PipelineTypeOK' /\ taken' = taken
  BY <1>3, AdminTypes DEF DeletePingTask, DeleteResults
<1>4. ASSUME NEW n \in Nodes, DeleteNodeProbes(n) PROVE PipelineTypeOK' /\ taken' = taken
  BY <1>4, AdminTypes DEF DeleteNodeProbes
<1>5. ASSUME NEW n \in Nodes,
             \/ Refresh(n) \/ AnswerTasks(n) \/ ApplyTasks(n) \/ RefreshFails(n)
             \/ Flush(n) \/ FlushFails(n) \/ RestartNode(n) \/ Expire(n)
      PROVE  PipelineTypeOK' /\ taken' = taken
  <2>1. PipelineTypeOK'
    BY <1>5, RunnerTypes
  <2>2. taken' = taken
    BY <1>5 DEF Refresh, AnswerTasks, ApplyTasks, RefreshFails, Flush, FlushFails, RestartNode, Expire
  <2> QED BY <2>1, <2>2
<1>6. ASSUME NEW n \in Nodes, TakeSample(n) PROVE PipelineTypeOK' /\ IsFiniteSet(taken')
  <2>1. PipelineTypeOK'
    BY <1>6, RunnerTypes
  <2>2. PICK s : taken' = taken \cup {s}
    BY <1>6, TakenSample
  <2> QED BY <2>1, <2>2, FS_AddElement
<1>7. ASSUME NEW h \in Handlers, Handle(h) PROVE PipelineTypeOK' /\ taken' = taken
  <2>1. PipelineTypeOK'
    BY <1>7, HandlerTypes
  <2>2. taken' = taken
    BY <1>7 DEF Handle, AcceptBatch, RefuseBatch, InsertSlice, SliceThrows, AnswerOk
  <2> QED BY <2>1, <2>2
<1> QED BY <1>1, <1>2, <1>3, <1>4, <1>5, <1>6, <1>7 DEF PipelineNext

LEMMA TypesAlways == PipelineSpec => [](PipelineTypeOK /\ IsFiniteSet(taken))
<1>1. PipelineInit => PipelineTypeOK /\ IsFiniteSet(taken)
  BY TypesInit, FS_EmptySet DEF PipelineInit
<1> QED BY <1>1, TypesStep, PTL DEF PipelineSpec

\* The tables, the runners and the handlers keep their types.
THEOREM PipelineTypesHold == PipelineSpec => []PipelineTypeOK
BY TypesAlways, PTL

-----------------------------------------------------------------------------
(* The invariant *)

LEMMA FreeHasNothing == Free.pc = "free" /\ Free.rest = <<>> /\ Free.all = <<>>
BY DEF Free

LEMMA CopiesCounted ==
  ASSUME PipelineTypeOK, Batches, IsFiniteSet(Busy), NEW s
  PROVE  IsFiniteSet(Copies(s)) /\ Cardinality(Copies(s)) \in Nat
<1>1. Copies(s) \subseteq Busy
  <2> SUFFICES ASSUME NEW h \in Copies(s) PROVE h \in Busy
    OBVIOUS
  <2>1. h \in Handlers /\ s \in SamplesIn(handler[h].rest)
    BY DEF Copies
  <2>2. handler[h].pc = "free" => handler[h] = Free
    BY <2>1 DEF Batches, Batched
  <2> QED BY <2>1, <2>2, FreeHasNothing, Nothing DEF Busy
<1>2. IsFiniteSet(Copies(s))
  BY <1>1, FS_Subset
<1> QED BY <1>2, FS_CardinalityType

\* Handlers that only lose rows to insert do not add copies.
LEMMA CopiesShrink ==
  ASSUME PipelineTypeOK, Batches, IsFiniteSet(Busy),
         \A h \in Handlers : SamplesIn(handler'[h].rest) \subseteq SamplesIn(handler[h].rest)
  PROVE  \A s : /\ Cardinality(Copies(s)) \in Nat /\ Cardinality(Copies(s)') \in Nat
                /\ Cardinality(Copies(s)') <= Cardinality(Copies(s))
<1> SUFFICES ASSUME NEW s
             PROVE  /\ Cardinality(Copies(s)) \in Nat /\ Cardinality(Copies(s)') \in Nat
                    /\ Cardinality(Copies(s)') <= Cardinality(Copies(s))
  OBVIOUS
<1>1. IsFiniteSet(Copies(s)) /\ Cardinality(Copies(s)) \in Nat
  BY CopiesCounted
<1>2. Copies(s)' \subseteq Copies(s)
  BY DEF Copies
<1>3. IsFiniteSet(Copies(s)') /\ Cardinality(Copies(s)') <= Cardinality(Copies(s))
  BY <1>1, <1>2, FS_Subset
<1> QED BY <1>1, <1>3, FS_CardinalityType

LEMMA PipeInit == PipelineInit => PipeInv
<1> SUFFICES ASSUME PipelineInit PROVE PipeInv
  OBVIOUS
<1>1. PipelineTypeOK
  BY TypesInit
<1>2. \A n \in Nodes : runner[n] = Afresh
  BY DEF PipelineInit
<1>3. \A h \in Handlers : handler[h] = Free
  BY DEF PipelineInit
<1>4. /\ Afresh.pc = "loop" /\ Afresh.call = "" /\ Afresh.buf = <<>> /\ Afresh.batch = <<>>
      /\ Free.pc = "free" /\ Free.rest = <<>> /\ Free.all = <<>>
  BY DEF Afresh, Free
<1>5. Loops
  BY <1>2, <1>4, BatchMaxIs DEF Loops, Looped
<1>6. Batches
  BY <1>3, <1>4, Nothing DEF Batches, Batched
<1>7. Numbers
  BY FS_EmptySet DEF PipelineInit, Numbers, TakenOf
<1>8. Origins
  <2>1. \A n \in Nodes : SamplesIn(runner[n].buf) = {} /\ SamplesIn(runner[n].batch) = {}
    BY <1>2, <1>4, Nothing
  <2>2. \A h \in Handlers : SamplesIn(handler[h].rest) = {}
    BY <1>3, <1>4, Nothing
  <2>3. \A s \in Sample : stored[s] = 0
    BY DEF PipelineInit
  <2> QED BY <2>1, <2>2, <2>3 DEF Origins
<1>9. Singles
  BY <1>2, <1>3, <1>4, Nothing DEF Singles
<1>10. Busy = {}
  BY <1>3, <1>4 DEF Busy
<1>11. IsFiniteSet(Busy)
  BY <1>10, FS_EmptySet
<1>12. Paid
  <2> SUFFICES ASSUME NEW s \in Sample
               PROVE  stored[s] + Cardinality(Copies(s)) + InBuffer(s) <= 1 + requeued[s]
    BY DEF Paid
  <2>1. Copies(s) = {}
    BY <1>3, <1>4, Nothing DEF Copies
  <2>2. Cardinality(Copies(s)) = 0
    BY <2>1, FS_EmptySet
  <2>3. InBuffer(s) \in {0, 1} /\ stored[s] = 0 /\ requeued[s] = 0
    BY DEF InBuffer, PipelineInit
  <2> QED BY <2>2, <2>3
<1>13. NothingLost
  BY DEF PipelineInit, NothingLost
<1> QED BY <1>1, <1>5, <1>6, <1>7, <1>8, <1>9, <1>11, <1>12, <1>13 DEF PipeInv

\* Rows go, but not without being given up, and nobody else moves.
LEMMA TablesMove ==
  ASSUME PipeInv, PipelineTypeOK', UNCHANGED <<runner, handler, taken, requeued>>,
         \A s \in Sample : \/ stored'[s] = stored[s]
                           \/ stored'[s] = 0 /\ (stored[s] = 0 \/ s \in GivenUp'),
         GivenUp \subseteq GivenUp'
  PROVE  PipeInv'
<1>1. \A s \in Sample : Covered(s) => Covered(s)'
  BY DEF Covered, PipeInv, PipelineTypeOK
<1>2. Loops' /\ Numbers' /\ Singles' /\ Busy' = Busy
  BY DEF PipeInv, Loops, Looped, Numbers, TakenOf, Singles, Busy
<1>3. Batches'
  <2> SUFFICES ASSUME NEW h \in Handlers, NEW s \in SamplesIn(handler[h].all),
                      s \notin SamplesIn(handler[h].rest)
               PROVE  Covered(s)'
    BY DEF PipeInv, Batches, Batched
  <2>1. s \in Sample
    BY HandlerTyped DEF PipeInv, SamplesIn
  <2>2. Covered(s)
    BY DEF PipeInv, Batches, Batched
  <2> QED BY <1>1, <2>1, <2>2
<1>4. Origins'
  BY DEF PipeInv, Origins, TakenOf, PipelineTypeOK
<1>5. Paid'
  <2> SUFFICES ASSUME NEW s \in Sample
               PROVE  stored'[s] + Cardinality(Copies(s)') + InBuffer(s)' <= 1 + requeued'[s]
    BY DEF Paid
  <2>1. Copies(s)' = Copies(s) /\ InBuffer(s)' = InBuffer(s) /\ InBuffer(s) \in {0, 1}
    BY DEF Copies, InBuffer
  <2>2. Cardinality(Copies(s)) \in Nat
    BY CopiesCounted DEF PipeInv
  <2>3. stored[s] + Cardinality(Copies(s)) + InBuffer(s) <= 1 + requeued[s]
    BY DEF PipeInv, Paid
  <2>4. stored[s] \in Nat /\ stored'[s] \in Nat /\ stored'[s] <= stored[s] /\ requeued[s] \in Nat
    BY DEF PipeInv, PipelineTypeOK
  <2> QED BY <2>1, <2>2, <2>3, <2>4
<1>6. NothingLost'
  <2> SUFFICES ASSUME NEW s \in taken PROVE Covered(s)' \/ Way(s)'
    BY DEF NothingLost
  <2>1. s \in Sample /\ (Covered(s) \/ Way(s))
    BY DEF PipeInv, NothingLost, PipelineTypeOK
  <2>2. Way(s) => Way(s)'
    BY DEF Way
  <2> QED BY <1>1, <2>1, <2>2
<1> QED BY <1>2, <1>3, <1>4, <1>5, <1>6 DEF PipeInv

\* A runner that waits for nothing refreshes its tasks.
LEMMA RunnerMoves ==
  ASSUME PipeInv, PipelineTypeOK', NEW n \in Nodes, NEW q,
         runner' = [runner EXCEPT ![n] = q], runner[n].pc # "flush", q.pc # "flush",
         q.buf = runner[n].buf, q.batch = runner[n].batch, q.call = runner[n].call,
         UNCHANGED <<handler, taken, stored, expired, records>>
  PROVE  PipeInv'
<1>1. \A m \in Nodes :
        /\ runner'[m].buf = runner[m].buf /\ runner'[m].batch = runner[m].batch
        /\ runner'[m].call = runner[m].call
        /\ m # n => runner'[m] = runner[m]
        /\ m = n => runner'[m].pc # "flush"
  <2>1. runner \in [Nodes -> Runner]
    BY DEF PipeInv, PipelineTypeOK
  <2>2. runner'[n] = q /\ \A m \in Nodes \ {n} : runner'[m] = runner[m]
    BY <2>1
  <2> QED BY <2>2
<1>2. Loops'
  <2>1. \A m \in Nodes : m # n => /\ runner'[m] = runner[m] /\ handler' = handler
    BY <1>1
  <2>2. /\ runner'[n].pc # "flush" /\ runner'[n].call = "" /\ runner'[n].batch = <<>>
    <3>1. Looped(n)
      BY DEF PipeInv, Loops
    <3> QED BY <1>1, <3>1 DEF Looped
  <2>3. ASSUME NEW m \in Nodes, m # n PROVE Looped(m)'
    <3>1. Looped(m)
      BY DEF PipeInv, Loops
    <3> QED BY <2>1, <2>3, <3>1 DEF Looped
  <2>4. Looped(n)'
    BY <2>2, BatchMaxIs DEF Looped
  <2> QED BY <2>3, <2>4 DEF Loops
<1>3. \A s : Covered(s)' <=> Covered(s)
  BY DEF Covered, GivenUp, records
<1>4. Batches' /\ Numbers' /\ Busy' = Busy
  BY <1>3 DEF PipeInv, Batches, Batched, Numbers, TakenOf, Busy
<1>5. Origins' /\ Singles'
  BY <1>1 DEF PipeInv, Origins, Singles, TakenOf
<1>6. Paid'
  <2> SUFFICES ASSUME NEW s \in Sample
               PROVE  stored[s] + Cardinality(Copies(s)') + InBuffer(s)' <= 1 + requeued[s]
    BY DEF Paid, records
  <2>1. s.node \in Nodes
    BY DEF Sample
  <2>2. Copies(s)' = Copies(s) /\ InBuffer(s)' = InBuffer(s)
    BY <1>1, <2>1 DEF Copies, InBuffer
  <2> QED BY <2>2 DEF PipeInv, Paid
<1>7. NothingLost'
  BY <1>1, <1>3 DEF PipeInv, NothingLost, Way
<1> QED BY <1>2, <1>4, <1>5, <1>6, <1>7 DEF PipeInv

\* A probe adds a sample nobody has seen.
LEMMA Takes ==
  ASSUME PipeInv, PipelineTypeOK', NEW n \in Nodes, TakeSample(n)
  PROVE  PipeInv'
<1>1. PipelineTypeOK /\ IsFiniteSet(taken) /\ runner[n].pc = "loop"
  BY DEF PipeInv, Numbers, TakeSample
<1>2. PICK s \in Sample : /\ s.node = n /\ s.no = Cardinality(TakenOf(n)) + 1
                          /\ runner' = [runner EXCEPT ![n].buf = Append(@, s)]
                          /\ taken' = taken \cup {s}
  BY <1>1, TakenSample
<1>3. Cardinality(TakenOf(n)) \in Nat /\ IsFiniteSet(TakenOf(n))
  BY <1>1, TakenSample
<1>4. s \notin taken
  <2>1. \A x \in TakenOf(n) : x.no <= Cardinality(TakenOf(n))
    BY DEF PipeInv, Numbers
  <2>2. s \notin TakenOf(n)
    BY <1>2, <1>3, <2>1
  <2> QED BY <1>2, <2>2 DEF TakenOf
<1>5. /\ UNCHANGED <<handler, stored, expired, records>>
      /\ runner'[n].buf = Append(runner[n].buf, s) /\ runner'[n].batch = runner[n].batch
      /\ runner'[n].pc = "loop" /\ runner'[n].call = runner[n].call
      /\ \A m \in Nodes \ {n} : runner'[m] = runner[m]
  <2> DEFINE r == [runner[n] EXCEPT !.buf = Append(@, s)]
  <2>1. /\ r.buf = Append(runner[n].buf, s) /\ r.batch = runner[n].batch
        /\ r.pc = runner[n].pc /\ r.call = runner[n].call
    BY <1>1, RunnerTyped DEF Runner
  <2>2. runner' = [runner EXCEPT ![n] = r] /\ runner \in [Nodes -> Runner]
    BY <1>1, <1>2 DEF PipelineTypeOK
  <2> HIDE DEF r
  <2>3. runner'[n] = r /\ \A m \in Nodes \ {n} : runner'[m] = runner[m]
    BY <2>2
  <2>4. UNCHANGED <<handler, stored, expired, records>>
    BY DEF TakeSample
  <2> QED BY <1>1, <2>1, <2>3, <2>4
<1>6. /\ SamplesIn(runner'[n].buf) = SamplesIn(runner[n].buf) \cup {s}
      /\ s \notin SamplesIn(runner[n].buf)
      /\ Repeatless(runner'[n].buf)
  <2>1. SamplesIn(runner[n].buf) \subseteq taken /\ Repeatless(runner[n].buf)
    BY DEF PipeInv, Origins, TakenOf, Singles
  <2>2. runner[n].buf \in Seq(Sample)
    BY <1>1, RunnerTyped
  <2>3. s \notin SamplesIn(runner[n].buf)
    BY <1>4, <2>1
  <2> QED BY <1>5, <2>1, <2>2, <2>3, Appended
<1>7. Loops'
  <2>1. ASSUME NEW m \in Nodes \ {n} PROVE Looped(m)'
    <3>1. runner'[m] = runner[m] /\ handler' = handler /\ Looped(m)
      BY <1>5, <2>1 DEF PipeInv, Loops
    <3> QED BY <3>1 DEF Looped
  <2>2. Looped(n)'
    <3>1. runner[n].call = "" /\ runner[n].batch = <<>>
      BY <1>1 DEF PipeInv, Loops, Looped
    <3> QED BY <1>5, <3>1, BatchMaxIs DEF Looped
  <2> QED BY <2>1, <2>2 DEF Loops
<1>8. \A x : Covered(x)' <=> Covered(x)
  BY <1>5 DEF Covered, GivenUp, records
<1>9. Batches' /\ Busy' = Busy
  BY <1>5, <1>8 DEF PipeInv, Batches, Batched, Busy
<1>10. Numbers'
  <2>1. IsFiniteSet(taken')
    BY <1>1, <1>2, FS_AddElement
  <2>2. \A m \in Nodes : TakenOf(m)' = IF m = n THEN TakenOf(m) \cup {s} ELSE TakenOf(m)
    BY <1>2 DEF TakenOf
  <2>3. Cardinality(TakenOf(n) \cup {s}) = Cardinality(TakenOf(n)) + 1
    BY <1>3, <1>4, FS_AddElement DEF TakenOf
  <2>4. ASSUME NEW m \in Nodes, NEW x \in TakenOf(m)' PROVE x.no <= Cardinality(TakenOf(m)')
    <3>1. CASE m # n
      BY <2>2, <2>4, <3>1 DEF PipeInv, Numbers
    <3>2. CASE m = n
      <4>1. TakenOf(n)' = TakenOf(n) \cup {s}
        BY <2>2
      <4>2. Cardinality(TakenOf(n)') = Cardinality(TakenOf(n)) + 1
        BY <2>3, <4>1
      <4>3. CASE x \in TakenOf(n)
        <5>1. x.no <= Cardinality(TakenOf(n)) /\ x.no \in Int
          BY <1>1, <4>3 DEF PipeInv, Numbers, PipelineTypeOK, TakenOf, Sample
        <5> QED BY <1>3, <3>2, <4>2, <5>1
      <4>4. CASE x = s
        BY <1>2, <1>3, <3>2, <4>2, <4>4
      <4> QED BY <2>4, <3>2, <4>1, <4>3, <4>4
    <3> QED BY <3>1, <3>2
  <2> QED BY <2>1, <2>4 DEF Numbers
<1>11. Origins'
  <2>1. \A m \in Nodes : SamplesIn(runner'[m].buf) \cup SamplesIn(runner'[m].batch) \subseteq TakenOf(m)'
    <3> SUFFICES ASSUME NEW m \in Nodes
                 PROVE  SamplesIn(runner'[m].buf) \cup SamplesIn(runner'[m].batch) \subseteq TakenOf(m)'
      OBVIOUS
    <3>1. SamplesIn(runner[m].buf) \cup SamplesIn(runner[m].batch) \subseteq TakenOf(m)
      BY DEF PipeInv, Origins
    <3>2. TakenOf(m) \subseteq TakenOf(m)' /\ s \in TakenOf(n)'
      BY <1>2 DEF TakenOf
    <3> QED BY <1>5, <1>6, <3>1, <3>2
  <2> QED BY <1>2, <1>5, <2>1 DEF PipeInv, Origins
<1>12. Singles'
  BY <1>5, <1>6 DEF PipeInv, Singles
<1>13. Paid'
  <2> SUFFICES ASSUME NEW x \in Sample
               PROVE  stored[x] + Cardinality(Copies(x)') + InBuffer(x)' <= 1 + requeued[x]
    BY <1>5 DEF Paid, records
  <2>1. Copies(x)' = Copies(x)
    BY <1>5 DEF Copies
  <2>2. x.node \in Nodes
    BY DEF Sample
  <2>3. CASE x # s
    <3>1. InBuffer(x)' = InBuffer(x)
      BY <1>5, <1>6, <2>2, <2>3 DEF InBuffer
    <3> QED BY <2>1, <3>1 DEF PipeInv, Paid
  <2>4. CASE x = s
    <3>1. Copies(x) = {}
      BY <1>4, <2>4 DEF PipeInv, Origins, Copies
    <3>2. Cardinality(Copies(x)') = 0
      BY <2>1, <3>1, FS_EmptySet
    <3>3. stored[x] = 0
      BY <1>1, <1>4, <2>4 DEF PipeInv, Origins, PipelineTypeOK
    <3>4. InBuffer(x)' \in {0, 1} /\ requeued[x] \in Nat
      BY <1>1 DEF InBuffer, PipelineTypeOK
    <3> QED BY <3>2, <3>3, <3>4
  <2> QED BY <2>3, <2>4
<1>14. NothingLost'
  <2> SUFFICES ASSUME NEW x \in taken' PROVE Covered(x)' \/ Way(x)'
    BY DEF NothingLost
  <2>1. Way(x) => Way(x)'
    BY <1>5, <1>6 DEF Way
  <2>2. Way(s)'
    BY <1>6 DEF Way
  <2> QED BY <1>2, <1>8, <2>1, <2>2 DEF PipeInv, NothingLost
<1> QED BY <1>7, <1>9, <1>10, <1>11, <1>12, <1>13, <1>14 DEF PipeInv

\* The buffer goes to a free handler, as one batch.
LEMMA Flushes ==
  ASSUME PipeInv, PipelineTypeOK', NEW n \in Nodes, Flush(n)
  PROVE  PipeInv'
<1> DEFINE b == runner[n].buf
<1>1. PipelineTypeOK /\ b \in Seq(Sample) /\ runner[n].pc = "loop"
  BY RunnerTyped DEF PipeInv, Flush
<1>2. PICK h \in Handlers :
        /\ handler[h].pc = "free"
        /\ handler' = [handler EXCEPT ![h] = [pc |-> "arrived", node |-> n, rest |-> b, all |-> b]]
        /\ runner' = [runner EXCEPT ![n] = [runner[n] EXCEPT !.pc = "flush", !.call = h,
                        !.batch = b, !.buf = <<>>]]
  BY DEF Flush
<1>3. /\ handler'[h].pc = "arrived" /\ handler'[h].node = n
      /\ handler'[h].rest = b /\ handler'[h].all = b
      /\ \A g \in Handlers \ {h} : handler'[g] = handler[g]
  BY <1>1, <1>2 DEF PipelineTypeOK
<1>4. /\ runner'[n].pc = "flush" /\ runner'[n].call = h /\ runner'[n].batch = b
      /\ runner'[n].buf = <<>> /\ \A m \in Nodes \ {n} : runner'[m] = runner[m]
  <2> DEFINE r == [runner[n] EXCEPT !.pc = "flush", !.call = h, !.batch = b, !.buf = <<>>]
  <2>1. r.pc = "flush" /\ r.call = h /\ r.batch = b /\ r.buf = <<>>
    BY <1>1, RunnerTyped DEF Runner
  <2>2. runner' = [runner EXCEPT ![n] = r] /\ runner \in [Nodes -> Runner]
    BY <1>1, <1>2 DEF PipelineTypeOK
  <2> HIDE DEF r
  <2>3. runner'[n] = r /\ \A m \in Nodes \ {n} : runner'[m] = runner[m]
    BY <2>2
  <2> QED BY <2>1, <2>3
<1>5. UNCHANGED <<taken, stored, expired, records>>
  BY DEF Flush
<1>6. handler[h] = Free /\ SamplesIn(handler[h].rest) = {}
  BY <1>2, FreeHasNothing, Nothing DEF PipeInv, Batches, Batched
<1> HIDE DEF b
<1>7. Loops'
  <2>1. ASSUME NEW m \in Nodes \ {n} PROVE Looped(m)'
    <3>1. runner[m].call \in Handlers => runner[m].call # h
      <4>1. Looped(m) /\ handler[h].pc = "free"
        BY <1>2 DEF PipeInv, Loops
      <4> QED BY <4>1 DEF Looped
    <3>2. runner'[m] = runner[m] /\ Looped(m)
      BY <1>4, <2>1 DEF PipeInv, Loops
    <3>3. runner[m].call \in Handlers => handler'[runner[m].call] = handler[runner[m].call]
      BY <1>3, <3>1
    <3> QED BY <3>2, <3>3 DEF Looped
  <2>2. Looped(n)'
    BY <1>3, <1>4 DEF Looped
  <2> QED BY <2>1, <2>2 DEF Loops
<1>8. \A x : Covered(x)' <=> Covered(x)
  BY <1>5 DEF Covered, GivenUp, records
<1>9. Batches'
  <2>1. ASSUME NEW g \in Handlers \ {h} PROVE Batched(g)'
    BY <1>3, <1>8 DEF PipeInv, Batches, Batched
  <2>2. Batched(h)'
    BY <1>3 DEF Batched
  <2> QED BY <2>1, <2>2 DEF Batches
<1>10. Numbers'
  BY <1>5 DEF PipeInv, Numbers, TakenOf
<1>11. SamplesIn(b) \subseteq TakenOf(n) /\ Repeatless(b)
  BY DEF PipeInv, Origins, Singles, b
<1>12. Origins'
  <2>1. \A m \in Nodes : SamplesIn(runner'[m].buf) \cup SamplesIn(runner'[m].batch) \subseteq TakenOf(m)'
    BY <1>4, <1>5, <1>11, Nothing DEF PipeInv, Origins, TakenOf
  <2>2. \A g \in Handlers : SamplesIn(handler'[g].rest) \subseteq taken'
    BY <1>3, <1>5, <1>11 DEF PipeInv, Origins, TakenOf
  <2> QED BY <1>5, <2>1, <2>2 DEF PipeInv, Origins
<1>13. Singles'
  BY <1>3, <1>4, <1>11, Nothing DEF PipeInv, Singles
<1>14. IsFiniteSet(Busy)'
  <2>1. Busy' = Busy \cup {h}
    BY <1>3 DEF Busy
  <2> QED BY <2>1, FS_AddElement DEF PipeInv
<1>15. Paid'
  <2> SUFFICES ASSUME NEW x \in Sample
               PROVE  stored[x] + Cardinality(Copies(x)') + InBuffer(x)' <= 1 + requeued[x]
    BY <1>5 DEF Paid, records
  <2>1. x.node \in Nodes
    BY DEF Sample
  <2>2. CASE x \in SamplesIn(b)
    <3>1. x.node = n
      BY <1>11, <2>2 DEF TakenOf
    <3>2. InBuffer(x)' = 0 /\ InBuffer(x) = 1
      BY <1>4, <2>2, <3>1, Nothing DEF InBuffer, b
    <3>3. Copies(x)' = Copies(x) \cup {h} /\ h \notin Copies(x)
      BY <1>3, <1>6, <2>2 DEF Copies
    <3>4. IsFiniteSet(Copies(x)) /\ Cardinality(Copies(x)) \in Nat
      BY CopiesCounted DEF PipeInv
    <3>5. Cardinality(Copies(x)') = Cardinality(Copies(x)) + 1
      BY <3>3, <3>4, FS_AddElement
    <3>6. stored[x] + Cardinality(Copies(x)) + 1 <= 1 + requeued[x]
      BY <3>2 DEF PipeInv, Paid
    <3>7. stored[x] \in Nat /\ requeued[x] \in Nat
      BY <1>1 DEF PipelineTypeOK
    <3> QED BY <3>2, <3>4, <3>5, <3>6, <3>7
  <2>3. CASE x \notin SamplesIn(b)
    <3>1. Copies(x)' = Copies(x)
      BY <1>3, <1>6, <2>3 DEF Copies
    <3>2. InBuffer(x)' = InBuffer(x)
      BY <1>4, <2>1, <2>3, Nothing DEF InBuffer, b
    <3> QED BY <3>1, <3>2 DEF PipeInv, Paid
  <2> QED BY <2>2, <2>3
<1>16. NothingLost'
  <2> SUFFICES ASSUME NEW x \in taken PROVE Covered(x)' \/ Way(x)'
    BY <1>5 DEF NothingLost
  <2>1. CASE x \in SamplesIn(b)
    BY <1>4, <2>1 DEF Way
  <2>2. CASE x \notin SamplesIn(b)
    <3>1. ASSUME NEW m \in Nodes, x \in SamplesIn(runner[m].buf) \cup SamplesIn(runner[m].batch)
          PROVE  Way(x)'
      <4>1. runner[n].batch = <<>>
        BY <1>1 DEF PipeInv, Loops, Looped
      <4>2. m # n
        BY <2>2, <3>1, <4>1, Nothing DEF b
      <4> QED BY <1>4, <3>1, <4>2 DEF Way
    <3>2. ASSUME NEW g \in Handlers, x \in SamplesIn(handler[g].rest)
          PROVE  Way(x)'
      BY <1>3, <1>6, <3>2 DEF Way
    <3>3. Way(x) => Way(x)'
      BY <3>1, <3>2 DEF Way
    <3> QED BY <1>8, <3>3 DEF PipeInv, NothingLost
  <2> QED BY <2>1, <2>2
<1> QED BY <1>7, <1>9, <1>10, <1>12, <1>13, <1>14, <1>15, <1>16 DEF PipeInv

\* A call that failed puts its batch back; its handler may never have seen it.
LEMMA FlushFailsBack ==
  ASSUME PipeInv, PipelineTypeOK', NEW n \in Nodes, FlushFails(n)
  PROVE  PipeInv'
<1> DEFINE b == runner[n].batch
           h == runner[n].call
<1>1. /\ PipelineTypeOK /\ b \in Seq(Sample) /\ runner[n].pc = "flush"
      /\ h \in Handlers /\ runner[n].buf = <<>>
      /\ handler[h].pc # "free" /\ handler[h].node = n /\ handler[h].all = b
  <2>1. PipelineTypeOK /\ runner[n].pc = "flush"
    BY DEF PipeInv, FlushFails
  <2> QED BY <2>1, RunnerTyped DEF PipeInv, Loops, Looped
<1>2. /\ runner' = [runner EXCEPT ![n] = Requeued(runner[n])]
      /\ requeued' = [s \in Sample |-> IF s \in SamplesIn(b) THEN requeued[s] + 1 ELSE requeued[s]]
      /\ handler' = handler \/ handler' = [handler EXCEPT ![h] = Free]
      /\ UNCHANGED <<taken, stored, expired, refused, removed>>
  BY DEF FlushFails
<1> HIDE DEF b, h
<1>3. /\ runner'[n].pc = "loop" /\ runner'[n].call = "" /\ runner'[n].batch = <<>>
      /\ runner'[n].buf = b /\ \A m \in Nodes \ {n} : runner'[m] = runner[m]
  <2> DEFINE r == Requeued(runner[n])
  <2>1. r.pc = "loop" /\ r.call = "" /\ r.batch = <<>> /\ r.buf = b \o <<>>
    BY <1>1, RunnerTyped DEF Requeued, Done, Runner, b
  <2>2. b \o <<>> = b
    BY <1>1
  <2>3. runner' = [runner EXCEPT ![n] = r] /\ runner \in [Nodes -> Runner]
    BY <1>1, <1>2 DEF PipelineTypeOK
  <2> HIDE DEF r
  <2>4. runner'[n] = r /\ \A m \in Nodes \ {n} : runner'[m] = runner[m]
    BY <2>3
  <2> QED BY <2>1, <2>2, <2>4
<1>4. /\ \A g \in Handlers \ {h} : handler'[g] = handler[g]
      /\ handler'[h] = handler[h] \/ handler'[h] = Free
  BY <1>1, <1>2 DEF PipelineTypeOK
<1>5. \A g \in Handlers : SamplesIn(handler'[g].rest) \subseteq SamplesIn(handler[g].rest)
  BY <1>4, FreeHasNothing, Nothing
<1>6. SamplesIn(b) \subseteq TakenOf(n) /\ Repeatless(b)
  BY DEF PipeInv, Origins, Singles, b
<1>7. Loops'
  <2>1. ASSUME NEW m \in Nodes \ {n} PROVE Looped(m)'
    <3>1. runner'[m] = runner[m] /\ Looped(m)
      BY <1>3, <2>1 DEF PipeInv, Loops
    <3>2. runner[m].call # h
      BY <1>1, <2>1, <3>1 DEF Looped
    <3>3. runner[m].call \in Handlers => handler'[runner[m].call] = handler[runner[m].call]
      BY <1>4, <3>2
    <3> QED BY <3>1, <3>3 DEF Looped
  <2>2. Looped(n)'
    BY <1>3, BatchMaxIs DEF Looped
  <2> QED BY <2>1, <2>2 DEF Loops
<1>8. \A x : Covered(x)' <=> Covered(x)
  BY <1>2 DEF Covered, GivenUp
<1>9. Batches'
  <2>1. ASSUME NEW g \in Handlers, handler'[g] = handler[g] PROVE Batched(g)'
    BY <1>8, <2>1 DEF PipeInv, Batches, Batched
  <2>2. ASSUME NEW g \in Handlers, handler'[g] = Free PROVE Batched(g)'
    BY <2>2, FreeHasNothing, Nothing DEF Batched
  <2> QED BY <1>4, <2>1, <2>2 DEF Batches
<1>10. Numbers'
  BY <1>2 DEF PipeInv, Numbers, TakenOf
<1>11. Origins'
  <2>1. \A m \in Nodes : SamplesIn(runner'[m].buf) \cup SamplesIn(runner'[m].batch) \subseteq TakenOf(m)'
    <3>1. \A m \in Nodes : TakenOf(m)' = TakenOf(m)
      BY <1>2 DEF TakenOf
    <3>2. \A m \in Nodes : SamplesIn(runner[m].buf) \cup SamplesIn(runner[m].batch) \subseteq TakenOf(m)
      BY DEF PipeInv, Origins
    <3> QED BY <1>3, <1>6, <3>1, <3>2, Nothing
  <2> QED BY <1>2, <1>5, <2>1 DEF PipeInv, Origins
<1>12. Singles'
  <2>1. \A m \in Nodes : Repeatless(runner'[m].buf) /\ Repeatless(runner'[m].batch)
    BY <1>3, <1>6, Nothing DEF PipeInv, Singles
  <2>2. \A g \in Handlers : Repeatless(handler'[g].rest)
    BY <1>4, FreeHasNothing, Nothing DEF PipeInv, Singles
  <2> QED BY <2>1, <2>2 DEF Singles
<1>13. IsFiniteSet(Busy)'
  <2>1. Busy' \subseteq Busy
    BY <1>4, FreeHasNothing DEF Busy
  <2> QED BY <2>1, FS_Subset DEF PipeInv
<1>14. Paid'
  <2> SUFFICES ASSUME NEW x \in Sample
               PROVE  stored[x] + Cardinality(Copies(x)') + InBuffer(x)' <= 1 + requeued'[x]
    BY <1>2 DEF Paid
  <2>1. x.node \in Nodes
    BY DEF Sample
  <2>2. /\ Cardinality(Copies(x)) \in Nat /\ Cardinality(Copies(x)') \in Nat
        /\ Cardinality(Copies(x)') <= Cardinality(Copies(x))
    BY <1>1, <1>5, CopiesShrink DEF PipeInv
  <2>3. stored[x] + Cardinality(Copies(x)) + InBuffer(x) <= 1 + requeued[x]
    BY DEF PipeInv, Paid
  <2>4. /\ stored[x] \in Nat /\ requeued[x] \in Nat
        /\ InBuffer(x) \in {0, 1} /\ InBuffer(x)' \in {0, 1}
    BY <1>1 DEF PipelineTypeOK, InBuffer
  <2>5. CASE x \in SamplesIn(b)
    <3>1. requeued'[x] = requeued[x] + 1
      BY <1>2, <2>5
    <3> QED BY <2>2, <2>3, <2>4, <3>1
  <2>6. CASE x \notin SamplesIn(b)
    <3>1. requeued'[x] = requeued[x]
      BY <1>2, <2>6
    <3>2. SamplesIn(runner'[x.node].buf) \subseteq SamplesIn(runner[x.node].buf) \cup SamplesIn(b)
      BY <1>3, <2>1
    <3>3. InBuffer(x)' = 1 => InBuffer(x) = 1
      BY <2>6, <3>2 DEF InBuffer
    <3> QED BY <2>2, <2>3, <2>4, <3>1, <3>3
  <2> QED BY <2>5, <2>6
<1>15. NothingLost'
  <2> SUFFICES ASSUME NEW x \in taken PROVE Covered(x)' \/ Way(x)'
    BY <1>2 DEF NothingLost
  <2>1. CASE x \in SamplesIn(b)
    BY <1>3, <2>1 DEF Way
  <2>2. CASE x \notin SamplesIn(b)
    <3>1. ASSUME NEW m \in Nodes, x \in SamplesIn(runner[m].buf) \cup SamplesIn(runner[m].batch)
          PROVE  Way(x)'
      <4>1. m # n
        BY <1>1, <2>2, <3>1, Nothing DEF b
      <4> QED BY <1>3, <3>1, <4>1 DEF Way
    <3>2. ASSUME NEW g \in Handlers, x \in SamplesIn(handler[g].rest)
          PROVE  Way(x)'
      <4>1. SamplesIn(handler[h].rest) \subseteq SamplesIn(b)
        BY <1>1 DEF PipeInv, Batches, Batched
      <4>2. g # h
        BY <2>2, <3>2, <4>1
      <4> QED BY <1>4, <3>2, <4>2 DEF Way
    <3>3. Way(x) => Way(x)'
      BY <3>1, <3>2 DEF Way
    <3> QED BY <1>8, <3>3 DEF PipeInv, NothingLost
  <2> QED BY <2>1, <2>2
<1> QED BY <1>7, <1>9, <1>10, <1>11, <1>12, <1>13, <1>14, <1>15 DEF PipeInv

\* A node's process restarts: what it had is gone.
LEMMA Restarts ==
  ASSUME PipeInv, PipelineTypeOK', NEW n \in Nodes, RestartNode(n)
  PROVE  PipeInv'
<1>1. PipelineTypeOK
  BY DEF PipeInv
<1>2. /\ runner'[n] = Afresh /\ \A m \in Nodes \ {n} : runner'[m] = runner[m]
      /\ UNCHANGED <<handler, taken, stored, expired, requeued, refused>>
      /\ removed' = removed \cup SamplesIn(runner[n].buf) \cup SamplesIn(runner[n].batch)
  BY <1>1, BatchSamples DEF RestartNode, PipelineTypeOK
<1>3. Afresh.pc = "loop" /\ Afresh.call = "" /\ Afresh.buf = <<>> /\ Afresh.batch = <<>>
  BY DEF Afresh
<1>4. \A x : Covered(x) => Covered(x)'
  BY <1>2 DEF Covered, GivenUp
<1>5. Loops'
  <2>1. ASSUME NEW m \in Nodes \ {n} PROVE Looped(m)'
    <3>1. runner'[m] = runner[m] /\ handler' = handler /\ Looped(m)
      BY <1>2, <2>1 DEF PipeInv, Loops
    <3> QED BY <3>1 DEF Looped
  <2>2. Looped(n)'
    BY <1>2, <1>3, BatchMaxIs DEF Looped
  <2> QED BY <2>1, <2>2 DEF Loops
<1>6. Batches' /\ Numbers' /\ Busy' = Busy
  BY <1>2, <1>4 DEF PipeInv, Batches, Batched, Numbers, TakenOf, Busy
<1>7. Origins'
  <2>1. \A m \in Nodes : SamplesIn(runner'[m].buf) \cup SamplesIn(runner'[m].batch) \subseteq TakenOf(m)'
    BY <1>2, <1>3, Nothing DEF PipeInv, Origins, TakenOf
  <2> QED BY <1>2, <2>1 DEF PipeInv, Origins
<1>8. Singles'
  BY <1>2, <1>3, Nothing DEF PipeInv, Singles
<1>9. Paid'
  <2> SUFFICES ASSUME NEW x \in Sample
               PROVE  stored[x] + Cardinality(Copies(x)') + InBuffer(x)' <= 1 + requeued[x]
    BY <1>2 DEF Paid
  <2>1. x.node \in Nodes
    BY DEF Sample
  <2>2. Copies(x)' = Copies(x) /\ Cardinality(Copies(x)) \in Nat
    BY <1>2, CopiesCounted DEF PipeInv, Copies
  <2>3. /\ InBuffer(x)' = 1 => InBuffer(x) = 1
        /\ InBuffer(x) \in {0, 1} /\ InBuffer(x)' \in {0, 1}
    <3>1. SamplesIn(runner'[x.node].buf) \subseteq SamplesIn(runner[x.node].buf)
      BY <1>2, <1>3, <2>1, Nothing
    <3> QED BY <3>1 DEF InBuffer
  <2>4. stored[x] + Cardinality(Copies(x)) + InBuffer(x) <= 1 + requeued[x]
    BY DEF PipeInv, Paid
  <2>5. stored[x] \in Nat /\ requeued[x] \in Nat
    BY <1>1 DEF PipelineTypeOK
  <2> QED BY <2>2, <2>3, <2>4, <2>5
<1>10. NothingLost'
  <2> SUFFICES ASSUME NEW x \in taken PROVE Covered(x)' \/ Way(x)'
    BY <1>2 DEF NothingLost
  <2>1. CASE x \in SamplesIn(runner[n].buf) \cup SamplesIn(runner[n].batch)
    BY <1>2, <2>1 DEF Covered, GivenUp
  <2>2. CASE x \notin SamplesIn(runner[n].buf) \cup SamplesIn(runner[n].batch)
    <3>1. Way(x) => Way(x)'
      BY <1>2, <2>2 DEF Way
    <3> QED BY <1>4, <3>1 DEF PipeInv, NothingLost
  <2> QED BY <2>1, <2>2
<1> QED BY <1>5, <1>6, <1>7, <1>8, <1>9, <1>10 DEF PipeInv

\* What is in the window stays with the handler; the rest is given up.
LEMMA Accepts ==
  ASSUME PipeInv, PipelineTypeOK', NEW h \in Handlers, AcceptBatch(h)
  PROVE  PipeInv'
<1> DEFINE q == handler[h].rest
<1>1. /\ PipelineTypeOK /\ q \in Seq(Sample) /\ handler[h].pc = "arrived" /\ q = handler[h].all
      /\ UNCHANGED <<runner, taken, stored, expired, records>>
      /\ handler' = [handler EXCEPT ![h] = [handler[h] EXCEPT !.pc = "insert", !.rest = Filtered(q)]]
  BY HandlerTyped DEF PipeInv, Batches, Batched, AcceptBatch
<1>2. /\ SamplesIn(Filtered(q)) = SamplesIn(q) \ expired
      /\ Repeatless(q) => Repeatless(Filtered(q))
  BY <1>1, FilterKeeps
<1>3. /\ handler'[h].pc = "insert" /\ handler'[h].rest = Filtered(q)
      /\ handler'[h].all = handler[h].all /\ handler'[h].node = handler[h].node
      /\ \A g \in Handlers \ {h} : handler'[g] = handler[g]
  <2> DEFINE r == [handler[h] EXCEPT !.pc = "insert", !.rest = Filtered(q)]
  <2>1. /\ r.pc = "insert" /\ r.rest = Filtered(q)
        /\ r.all = handler[h].all /\ r.node = handler[h].node
    BY <1>1, HandlerTyped DEF Handler
  <2>2. handler' = [handler EXCEPT ![h] = r] /\ handler \in [Handlers -> Handler]
    BY <1>1 DEF PipelineTypeOK
  <2> HIDE DEF r
  <2>3. handler'[h] = r /\ \A g \in Handlers \ {h} : handler'[g] = handler[g]
    BY <2>2
  <2> QED BY <2>1, <2>3
<1> HIDE DEF q
<1>4. \A g \in Handlers : SamplesIn(handler'[g].rest) \subseteq SamplesIn(handler[g].rest)
  BY <1>2, <1>3 DEF q
<1>5. \A s : Covered(s)' <=> Covered(s)
  BY <1>1 DEF Covered, GivenUp, records
<1>6. \A s \in SamplesIn(q) : s \in SamplesIn(Filtered(q)) \/ Covered(s)
  BY <1>2 DEF Covered, GivenUp
<1>7. Loops'
  <2> SUFFICES ASSUME NEW n \in Nodes PROVE Looped(n)'
    BY DEF Loops
  <2>1. runner'[n] = runner[n] /\ Looped(n)
    BY <1>1 DEF PipeInv, Loops
  <2>2. \A g \in Handlers : /\ handler'[g].pc # "free" <=> handler[g].pc # "free"
                            /\ handler'[g].node = handler[g].node /\ handler'[g].all = handler[g].all
    BY <1>1, <1>3
  <2> QED BY <2>1, <2>2 DEF Looped
<1>8. Batches'
  <2>1. ASSUME NEW g \in Handlers \ {h} PROVE Batched(g)'
    BY <1>3, <1>5 DEF PipeInv, Batches, Batched
  <2>2. Batched(h)'
    BY <1>1, <1>2, <1>3, <1>5, <1>6 DEF Batched
  <2> QED BY <2>1, <2>2 DEF Batches
<1>9. Numbers'
  BY <1>1 DEF PipeInv, Numbers, TakenOf
<1>10. Origins'
  BY <1>1, <1>4 DEF PipeInv, Origins, TakenOf
<1>11. Singles'
  BY <1>1, <1>2, <1>3 DEF PipeInv, Singles, q
<1>12. Busy' = Busy
  BY <1>1, <1>3 DEF Busy
<1>13. Paid'
  <2> SUFFICES ASSUME NEW x \in Sample
               PROVE  stored[x] + Cardinality(Copies(x)') + InBuffer(x)' <= 1 + requeued[x]
    BY <1>1 DEF Paid, records
  <2>1. /\ Cardinality(Copies(x)) \in Nat /\ Cardinality(Copies(x)') \in Nat
        /\ Cardinality(Copies(x)') <= Cardinality(Copies(x))
    BY <1>1, <1>4, CopiesShrink DEF PipeInv
  <2>2. InBuffer(x)' = InBuffer(x) /\ InBuffer(x) \in {0, 1}
    BY <1>1 DEF InBuffer
  <2>3. stored[x] + Cardinality(Copies(x)) + InBuffer(x) <= 1 + requeued[x]
    BY DEF PipeInv, Paid
  <2>4. stored[x] \in Nat /\ requeued[x] \in Nat
    BY <1>1 DEF PipelineTypeOK
  <2> QED BY <2>1, <2>2, <2>3, <2>4
<1>14. NothingLost'
  <2> SUFFICES ASSUME NEW x \in taken PROVE Covered(x)' \/ Way(x)'
    BY <1>1 DEF NothingLost
  <2>1. ASSUME NEW g \in Handlers, x \in SamplesIn(handler[g].rest) PROVE Covered(x)' \/ Way(x)'
    <3>1. CASE g = h
      BY <1>3, <1>5, <1>6, <2>1, <3>1 DEF Way, q
    <3>2. CASE g # h
      BY <1>3, <2>1, <3>2 DEF Way
    <3> QED BY <3>1, <3>2
  <2>2. ASSUME NEW n \in Nodes, x \in SamplesIn(runner[n].buf) \cup SamplesIn(runner[n].batch)
        PROVE  Way(x)'
    BY <1>1, <2>2 DEF Way
  <2>3. Covered(x) \/ Way(x)
    BY DEF PipeInv, NothingLost
  <2> QED BY <1>5, <2>1, <2>2, <2>3 DEF Way
<1> QED BY <1>1, <1>7, <1>8, <1>9, <1>10, <1>11, <1>12, <1>13, <1>14 DEF PipeInv

\* A slice is stored: each of its samples turns from a row to insert into a row.
LEMMA Inserts ==
  ASSUME PipeInv, PipelineTypeOK', NEW h \in Handlers, InsertSlice(h)
  PROVE  PipeInv'
<1> DEFINE q == handler[h].rest
           first == Slice(h)
           rest == NextSlice(q)
<1>1. /\ PipelineTypeOK /\ q \in Seq(Sample) /\ q # <<>> /\ handler[h].pc = "insert"
      /\ UNCHANGED <<runner, taken, expired, records>>
      /\ handler' = [handler EXCEPT ![h].rest = rest]
      /\ stored' = [s \in Sample |-> IF s \in SamplesIn(first) THEN stored[s] + 1 ELSE stored[s]]
  BY HandlerTyped DEF PipeInv, InsertSlice
<1>2. /\ SamplesIn(q) = SamplesIn(first) \cup SamplesIn(rest)
      /\ Repeatless(rest) /\ SamplesIn(first) \cap SamplesIn(rest) = {}
  <2>1. Repeatless(q)
    BY DEF PipeInv, Singles
  <2> QED BY <1>1, <2>1, BatchMaxIs, Sliced DEF Slice
<1>3. /\ handler'[h].rest = rest /\ handler'[h].pc = "insert"
      /\ handler'[h].all = handler[h].all /\ handler'[h].node = handler[h].node
      /\ \A g \in Handlers \ {h} : handler'[g] = handler[g]
  <2> DEFINE r == [handler[h] EXCEPT !.rest = rest]
  <2>1. /\ r.pc = "insert" /\ r.rest = rest
        /\ r.all = handler[h].all /\ r.node = handler[h].node
    BY <1>1, HandlerTyped DEF Handler
  <2>2. handler' = [handler EXCEPT ![h] = r] /\ handler \in [Handlers -> Handler]
    BY <1>1 DEF PipelineTypeOK
  <2> HIDE DEF r
  <2>3. handler'[h] = r /\ \A g \in Handlers \ {h} : handler'[g] = handler[g]
    BY <2>2
  <2> QED BY <2>1, <2>3
<1> HIDE DEF q, first, rest
<1>4. \A g \in Handlers : SamplesIn(handler'[g].rest) \subseteq SamplesIn(handler[g].rest)
  BY <1>2, <1>3 DEF q
<1>in. SamplesIn(q) \subseteq Sample
  BY <1>1 DEF SamplesIn
<1>st. \A s \in Sample : /\ stored[s] \in Nat
                         /\ stored'[s] = IF s \in SamplesIn(first) THEN stored[s] + 1 ELSE stored[s]
  BY <1>1 DEF PipelineTypeOK
<1>5. \A s \in Sample : Covered(s) => Covered(s)'
  BY <1>1, <1>st DEF Covered, GivenUp, records
<1>6. \A s \in SamplesIn(q) : s \in SamplesIn(rest) \/ Covered(s)'
  BY <1>2, <1>in, <1>st DEF Covered
<1>7. Loops'
  <2> SUFFICES ASSUME NEW n \in Nodes PROVE Looped(n)'
    BY DEF Loops
  <2>1. runner'[n] = runner[n] /\ Looped(n)
    BY <1>1 DEF PipeInv, Loops
  <2>2. \A g \in Handlers : /\ handler'[g].pc # "free" <=> handler[g].pc # "free"
                            /\ handler'[g].node = handler[g].node /\ handler'[g].all = handler[g].all
    BY <1>1, <1>3
  <2> QED BY <2>1, <2>2 DEF Looped
<1>8. Batches'
  <2>1. ASSUME NEW g \in Handlers PROVE SamplesIn(handler[g].all) \subseteq Sample
    BY <1>1, <2>1, HandlerTyped DEF SamplesIn
  <2>2. ASSUME NEW g \in Handlers \ {h} PROVE Batched(g)'
    BY <1>3, <1>5, <2>1 DEF PipeInv, Batches, Batched
  <2>3. Batched(h)'
    <3>1. SamplesIn(q) \subseteq SamplesIn(handler[h].all)
      BY DEF PipeInv, Batches, Batched, q
    <3>2. \A s \in SamplesIn(handler[h].all) : s \in SamplesIn(q) \/ Covered(s)'
      BY <1>5, <2>1 DEF PipeInv, Batches, Batched, q
    <3> QED BY <1>2, <1>3, <1>6, <3>1, <3>2 DEF Batched
  <2> QED BY <2>2, <2>3 DEF Batches
<1>9. Numbers'
  BY <1>1 DEF PipeInv, Numbers, TakenOf
<1>10. Origins'
  <2>1. SamplesIn(q) \subseteq taken
    BY DEF PipeInv, Origins, q
  <2>2. \A s \in Sample : stored'[s] > 0 => s \in taken
    BY <1>2, <1>st, <2>1 DEF PipeInv, Origins
  <2> QED BY <1>1, <1>4, <2>2 DEF PipeInv, Origins, TakenOf
<1>11. Singles'
  BY <1>1, <1>2, <1>3 DEF PipeInv, Singles
<1>12. Busy' = Busy
  BY <1>1, <1>3 DEF Busy
<1>13. Paid'
  <2> SUFFICES ASSUME NEW x \in Sample
               PROVE  stored'[x] + Cardinality(Copies(x)') + InBuffer(x)' <= 1 + requeued[x]
    BY <1>1 DEF Paid, records
  <2>1. /\ Cardinality(Copies(x)) \in Nat /\ Cardinality(Copies(x)') \in Nat
        /\ Cardinality(Copies(x)') <= Cardinality(Copies(x))
    BY <1>1, <1>4, CopiesShrink DEF PipeInv
  <2>2. InBuffer(x)' = InBuffer(x) /\ InBuffer(x) \in {0, 1}
    BY <1>1 DEF InBuffer
  <2>3. stored[x] + Cardinality(Copies(x)) + InBuffer(x) <= 1 + requeued[x]
    BY DEF PipeInv, Paid
  <2>4. stored[x] \in Nat /\ requeued[x] \in Nat
    BY <1>1 DEF PipelineTypeOK
  <2>5. CASE x \in SamplesIn(first)
    <3>1. stored'[x] = stored[x] + 1
      BY <1>st, <2>5
    <3>2. Copies(x) = Copies(x)' \cup {h} /\ h \notin Copies(x)'
      BY <1>2, <1>3, <2>5 DEF Copies, q
    <3>3. IsFiniteSet(Copies(x)')
      <4>1. IsFiniteSet(Copies(x)) /\ Copies(x)' \subseteq Copies(x)
        BY <1>1, <3>2, CopiesCounted DEF PipeInv
      <4> QED BY <4>1, FS_Subset
    <3>4. Cardinality(Copies(x)' \cup {h}) = Cardinality(Copies(x)') + 1
      BY <3>2, <3>3, FS_AddElement
    <3>5. Cardinality(Copies(x)) = Cardinality(Copies(x)') + 1
      BY <3>2, <3>4
    <3> QED BY <2>1, <2>2, <2>3, <2>4, <3>1, <3>5
  <2>6. CASE x \notin SamplesIn(first)
    <3>1. stored'[x] = stored[x]
      BY <1>st, <2>6
    <3> QED BY <2>1, <2>2, <2>3, <2>4, <3>1
  <2> QED BY <2>5, <2>6
<1>14. NothingLost'
  <2> SUFFICES ASSUME NEW x \in taken PROVE Covered(x)' \/ Way(x)'
    BY <1>1 DEF NothingLost
  <2>1. ASSUME NEW g \in Handlers, x \in SamplesIn(handler[g].rest) PROVE Covered(x)' \/ Way(x)'
    <3>1. CASE g = h
      BY <1>3, <1>6, <2>1, <3>1 DEF Way, q
    <3>2. CASE g # h
      BY <1>3, <2>1, <3>2 DEF Way
    <3> QED BY <3>1, <3>2
  <2>2. ASSUME NEW n \in Nodes, x \in SamplesIn(runner[n].buf) \cup SamplesIn(runner[n].batch)
        PROVE  Way(x)'
    BY <1>1, <2>2 DEF Way
  <2>3. x \in Sample /\ (Covered(x) \/ Way(x))
    BY <1>1 DEF PipeInv, NothingLost, PipelineTypeOK
  <2> QED BY <1>5, <2>1, <2>2, <2>3 DEF Way
<1> QED BY <1>1, <1>7, <1>8, <1>9, <1>10, <1>11, <1>12, <1>13, <1>14 DEF PipeInv

\* An answer frees the handler and the runner that waits for it.  Every sample
\* of the batch is stored or given up by then.
LEMMA Answers ==
  ASSUME PipeInv, PipelineTypeOK', NEW h \in Handlers, Answer(h),
         UNCHANGED <<taken, stored, expired, requeued, removed>>,
         refused \subseteq refused',
         \A s \in SamplesIn(handler[h].all) : Covered(s)'
  PROVE  PipeInv'
<1>1. /\ PipelineTypeOK /\ handler'[h] = Free /\ \A g \in Handlers \ {h} : handler'[g] = handler[g]
  BY DEF PipeInv, Answer, PipelineTypeOK
<1>2. ASSUME NEW n \in Nodes
      PROVE  \/ runner[n].call # h /\ runner'[n] = runner[n]
             \/ /\ runner[n].call = h /\ runner[n].batch = handler[h].all
                /\ runner'[n].pc = "loop" /\ runner'[n].call = "" /\ runner'[n].batch = <<>>
                /\ runner'[n].buf = runner[n].buf
  <2>1. CASE runner[n].call # h
    BY <2>1 DEF Answer
  <2>2. CASE runner[n].call = h
    <3> DEFINE r == Done(runner[n])
    <3>1. r.pc = "loop" /\ r.call = "" /\ r.batch = <<>> /\ r.buf = runner[n].buf
      BY <1>1, RunnerTyped DEF Done, Runner
    <3>2. runner'[n] = r
      BY <2>2 DEF Answer
    <3>3. runner[n].batch = handler[h].all
      BY <2>2 DEF PipeInv, Loops, Looped
    <3> HIDE DEF r
    <3> QED BY <2>2, <3>1, <3>2, <3>3
  <2> QED BY <2>1, <2>2
<1>3. \A g \in Handlers : SamplesIn(handler'[g].rest) \subseteq SamplesIn(handler[g].rest)
  BY <1>1, FreeHasNothing, Nothing
<1>4. \A s : Covered(s) => Covered(s)'
  BY DEF Covered, GivenUp
<1>5. Loops'
  <2> SUFFICES ASSUME NEW n \in Nodes PROVE Looped(n)'
    BY DEF Loops
  <2>1. CASE runner[n].call # h /\ runner'[n] = runner[n]
    <3>1. runner[n].call \in Handlers => handler'[runner[n].call] = handler[runner[n].call]
      BY <1>1, <2>1
    <3>2. Looped(n)
      BY DEF PipeInv, Loops
    <3> QED BY <2>1, <3>1, <3>2 DEF Looped
  <2>2. CASE runner[n].call = h
    <3>1. runner'[n].pc = "loop" /\ runner'[n].call = "" /\ runner'[n].batch = <<>>
      BY <1>2, <2>2
    <3> QED BY <3>1, BatchMaxIs DEF Looped
  <2> QED BY <1>2, <2>1, <2>2
<1>6. Batches'
  <2>1. ASSUME NEW g \in Handlers \ {h} PROVE Batched(g)'
    BY <1>1, <1>4 DEF PipeInv, Batches, Batched
  <2>2. Batched(h)'
    BY <1>1, FreeHasNothing, Nothing DEF Batched
  <2> QED BY <2>1, <2>2 DEF Batches
<1>7. Numbers'
  BY DEF PipeInv, Numbers, TakenOf
<1>8. \A n \in Nodes : /\ runner'[n].buf = runner[n].buf
                       /\ runner'[n].batch = runner[n].batch \/ runner'[n].batch = <<>>
  BY <1>2
<1>9. Origins'
  <2>1. \A n \in Nodes : SamplesIn(runner'[n].buf) \cup SamplesIn(runner'[n].batch) \subseteq TakenOf(n)'
    BY <1>8, Nothing DEF PipeInv, Origins, TakenOf
  <2> QED BY <1>3, <2>1 DEF PipeInv, Origins
<1>10. Singles'
  <2>1. \A g \in Handlers : Repeatless(handler'[g].rest)
    BY <1>1, FreeHasNothing, Nothing DEF PipeInv, Singles
  <2> QED BY <1>8, <2>1, Nothing DEF PipeInv, Singles
<1>11. IsFiniteSet(Busy)'
  <2>1. Busy' \subseteq Busy
    BY <1>1, FreeHasNothing DEF Busy
  <2> QED BY <2>1, FS_Subset DEF PipeInv
<1>12. Paid'
  <2> SUFFICES ASSUME NEW x \in Sample
               PROVE  stored[x] + Cardinality(Copies(x)') + InBuffer(x)' <= 1 + requeued[x]
    BY DEF Paid
  <2>1. /\ Cardinality(Copies(x)) \in Nat /\ Cardinality(Copies(x)') \in Nat
        /\ Cardinality(Copies(x)') <= Cardinality(Copies(x))
    BY <1>1, <1>3, CopiesShrink DEF PipeInv
  <2>2. InBuffer(x)' = InBuffer(x) /\ InBuffer(x) \in {0, 1}
    <3>1. x.node \in Nodes
      BY DEF Sample
    <3> QED BY <1>8, <3>1 DEF InBuffer
  <2>3. stored[x] + Cardinality(Copies(x)) + InBuffer(x) <= 1 + requeued[x]
    BY DEF PipeInv, Paid
  <2>4. stored[x] \in Nat /\ requeued[x] \in Nat
    BY <1>1 DEF PipelineTypeOK
  <2> QED BY <2>1, <2>2, <2>3, <2>4
<1>13. NothingLost'
  <2> SUFFICES ASSUME NEW x \in taken PROVE Covered(x)' \/ Way(x)'
    BY DEF NothingLost
  <2>1. ASSUME NEW g \in Handlers, x \in SamplesIn(handler[g].rest) PROVE Covered(x)' \/ Way(x)'
    <3>1. CASE g = h
      BY <2>1, <3>1 DEF PipeInv, Batches, Batched
    <3>2. CASE g # h
      BY <1>1, <2>1, <3>2 DEF Way
    <3> QED BY <3>1, <3>2
  <2>2. ASSUME NEW n \in Nodes, x \in SamplesIn(runner[n].buf) \cup SamplesIn(runner[n].batch)
        PROVE  Covered(x)' \/ Way(x)'
    <3>1. CASE runner[n].call # h
      <4>1. runner'[n] = runner[n]
        BY <1>2, <3>1
      <4> QED BY <2>2, <4>1 DEF Way
    <3>2. CASE runner[n].call = h
      <4>1. runner'[n].buf = runner[n].buf /\ runner[n].batch = handler[h].all
        BY <1>2, <3>2
      <4> QED BY <2>2, <4>1 DEF Way
    <3> QED BY <3>1, <3>2
  <2>3. Covered(x) \/ Way(x)
    BY DEF PipeInv, NothingLost
  <2> QED BY <1>4, <2>1, <2>2, <2>3 DEF Way
<1> QED BY <1>1, <1>5, <1>6, <1>7, <1>9, <1>10, <1>11, <1>12, <1>13 DEF PipeInv

\* Every step of a handler.
LEMMA Handles ==
  ASSUME PipeInv, PipelineTypeOK', NEW h \in Handlers, Handle(h)
  PROVE  PipeInv'
<1>1. CASE RefuseBatch(h) \/ SliceThrows(h)
  <2>1. /\ Answer(h) /\ refused' = refused \cup SamplesIn(handler[h].all)
        /\ UNCHANGED <<taken, stored, expired, requeued, removed>>
    BY <1>1 DEF RefuseBatch, SliceThrows, AnswerError
  <2>2. \A s \in SamplesIn(handler[h].all) : Covered(s)'
    BY <2>1 DEF Covered, GivenUp
  <2> QED BY <2>1, <2>2, Answers
<1>2. CASE AnswerOk(h)
  <2>1. /\ Answer(h) /\ handler[h].rest = <<>>
        /\ UNCHANGED <<taken, stored, expired, requeued, refused, removed>>
    BY <1>2 DEF AnswerOk, records
  <2>2. \A s \in SamplesIn(handler[h].all) : Covered(s)
    BY <2>1, Nothing DEF PipeInv, Batches, Batched
  <2>3. \A s \in SamplesIn(handler[h].all) : Covered(s)'
    BY <2>1, <2>2 DEF Covered, GivenUp
  <2> QED BY <2>1, <2>3, Answers
<1> QED BY <1>1, <1>2, Accepts, Inserts DEF Handle

\* Deleted rows are given up, if there were any.
LEMMA Unstores ==
  ASSUME PipelineTypeOK, NEW q, Unstore(q), UNCHANGED <<refused, expired>>
  PROVE  /\ \A s \in Sample : \/ stored'[s] = stored[s]
                              \/ stored'[s] = 0 /\ (stored[s] = 0 \/ s \in GivenUp')
         /\ GivenUp \subseteq GivenUp'
<1>1. GivenUp \subseteq GivenUp'
  BY DEF Unstore, GivenUp
<1>2. ASSUME NEW s \in Sample
      PROVE  stored'[s] = stored[s] \/ (stored'[s] = 0 /\ (stored[s] = 0 \/ s \in GivenUp'))
  <2>1. stored'[s] = IF s \in q THEN 0 ELSE stored[s]
    BY DEF Unstore
  <2>2. s \in q /\ stored[s] > 0 => s \in GivenUp'
    BY DEF Unstore, GivenUp
  <2>3. stored[s] \in Nat
    BY DEF PipelineTypeOK
  <2> QED BY <2>1, <2>2, <2>3
<1> QED BY <1>1, <1>2

LEMMA AdminKeeps ==
  ASSUME PipeInv, PipelineTypeOK',
         \/ \E t \in Tasks, q \in SUBSET Nodes, x, b \in BOOLEAN : UpsertPingTask(t, q, x, b)
         \/ \E t \in Tasks : DeletePingTask(t) \/ DeleteResults(t)
         \/ \E n \in Nodes : DeleteNodeProbes(n)
  PROVE  PipeInv'
<1>0. PipelineTypeOK
  BY DEF PipeInv
<1>1. ASSUME NEW t \in Tasks, NEW q \in SUBSET Nodes, NEW x \in BOOLEAN, NEW b \in BOOLEAN,
             UpsertPingTask(t, q, x, b)
      PROVE  PipeInv'
  <2>1. UNCHANGED <<runner, handler, taken, stored, expired, requeued, refused, removed>>
    BY <1>1 DEF UpsertPingTask, records
  <2>2. GivenUp' = GivenUp
    BY <2>1 DEF GivenUp
  <2> QED BY <2>1, <2>2, TablesMove
<1>2. ASSUME NEW t \in Tasks, DeletePingTask(t) PROVE PipeInv'
  <2>1. /\ UNCHANGED <<runner, handler, taken, expired, requeued, refused>>
        /\ Unstore({s \in Sample : s.task = t})
    BY <1>2 DEF DeletePingTask
  <2> QED BY <1>0, <2>1, Unstores, TablesMove
<1>3. ASSUME NEW t \in Tasks, DeleteResults(t) PROVE PipeInv'
  <2>1. /\ UNCHANGED <<runner, handler, taken, expired, requeued, refused>>
        /\ \/ Unstore({s \in Sample : s.task = t})
           \/ UNCHANGED <<stored, removed>>
    BY <1>3 DEF DeleteResults
  <2>2. CASE Unstore({s \in Sample : s.task = t})
    BY <1>0, <2>1, <2>2, Unstores, TablesMove
  <2>3. CASE UNCHANGED <<stored, removed>>
    <3>1. GivenUp' = GivenUp
      BY <2>1, <2>3 DEF GivenUp
    <3> QED BY <2>1, <2>3, <3>1, TablesMove
  <2> QED BY <2>1, <2>2, <2>3
<1>4. ASSUME NEW n \in Nodes, DeleteNodeProbes(n) PROVE PipeInv'
  <2>1. /\ UNCHANGED <<runner, handler, taken, expired, requeued, refused>>
        /\ Unstore({s \in Sample : s.node = n})
    BY <1>4 DEF DeleteNodeProbes
  <2> QED BY <1>0, <2>1, Unstores, TablesMove
<1> QED BY <1>1, <1>2, <1>3, <1>4

\* Every step of a runner, and of the clock.
LEMMA RunnerKeeps ==
  ASSUME PipeInv, PipelineTypeOK', NEW n \in Nodes,
         \/ Refresh(n) \/ AnswerTasks(n) \/ ApplyTasks(n) \/ RefreshFails(n)
         \/ TakeSample(n) \/ Flush(n) \/ FlushFails(n) \/ RestartNode(n) \/ Expire(n)
  PROVE  PipeInv'
<1>0. PipelineTypeOK /\ runner[n] \in Runner
  BY RunnerTyped DEF PipeInv
<1>1. CASE Refresh(n)
  <2> DEFINE r == [runner[n] EXCEPT !.pc = "refresh"]
  <2>1. /\ r.pc = "refresh" /\ r.buf = runner[n].buf /\ r.batch = runner[n].batch
        /\ r.call = runner[n].call
    BY <1>0 DEF Runner
  <2>2. /\ runner' = [runner EXCEPT ![n] = r] /\ runner[n].pc = "loop"
        /\ UNCHANGED <<handler, taken, stored, expired, records>>
    BY <1>1 DEF Refresh
  <2> HIDE DEF r
  <2> QED BY <2>1, <2>2, RunnerMoves
<1>2. CASE AnswerTasks(n)
  <2>1. PICK q \in Capped(TasksFor(n)) :
          runner' = [runner EXCEPT ![n] =
            IF n \in bound THEN [runner[n] EXCEPT !.pc = "apply", !.answer = q]
            ELSE [runner[n] EXCEPT !.pc = "loop"]]
    BY <1>2 DEF AnswerTasks
  <2> DEFINE r == IF n \in bound THEN [runner[n] EXCEPT !.pc = "apply", !.answer = q]
                  ELSE [runner[n] EXCEPT !.pc = "loop"]
  <2>2. /\ r.pc \in {"apply", "loop"} /\ r.buf = runner[n].buf /\ r.batch = runner[n].batch
        /\ r.call = runner[n].call
    BY <1>0 DEF Runner
  <2>3. /\ runner' = [runner EXCEPT ![n] = r] /\ runner[n].pc = "refresh"
        /\ UNCHANGED <<handler, taken, stored, expired, records>>
    BY <1>2, <2>1 DEF AnswerTasks
  <2> HIDE DEF r
  <2> QED BY <2>2, <2>3, RunnerMoves
<1>3. CASE ApplyTasks(n)
  <2> DEFINE r == [runner[n] EXCEPT !.pc = "loop", !.answer = {},
                     !.tasks = Applied(runner[n].tasks, runner[n].answer)]
  <2>1. /\ r.pc = "loop" /\ r.buf = runner[n].buf /\ r.batch = runner[n].batch
        /\ r.call = runner[n].call
    BY <1>0 DEF Runner
  <2>2. /\ runner' = [runner EXCEPT ![n] = r] /\ runner[n].pc = "apply"
        /\ UNCHANGED <<handler, taken, stored, expired, records>>
    BY <1>3 DEF ApplyTasks
  <2> HIDE DEF r
  <2> QED BY <2>1, <2>2, RunnerMoves
<1>4. CASE RefreshFails(n)
  <2> DEFINE r == [runner[n] EXCEPT !.pc = "loop", !.answer = {}]
  <2>1. /\ r.pc = "loop" /\ r.buf = runner[n].buf /\ r.batch = runner[n].batch
        /\ r.call = runner[n].call
    BY <1>0 DEF Runner
  <2>2. /\ runner' = [runner EXCEPT ![n] = r] /\ runner[n].pc # "flush"
        /\ UNCHANGED <<handler, taken, stored, expired, records>>
    BY <1>4 DEF RefreshFails
  <2> HIDE DEF r
  <2> QED BY <2>1, <2>2, RunnerMoves
<1>5. CASE Expire(n)
  <2>1. /\ UNCHANGED <<runner, handler, taken, stored, requeued, refused, removed>>
        /\ expired \subseteq expired'
    BY <1>5 DEF Expire, records
  <2>2. GivenUp \subseteq GivenUp'
    BY <2>1 DEF GivenUp
  <2> QED BY <2>1, <2>2, TablesMove
<1> QED BY <1>1, <1>2, <1>3, <1>4, <1>5, Takes, Flushes, FlushFailsBack, Restarts

LEMMA PipeStep == PipeInv /\ [PipelineNext]_pipelineVars => PipeInv'
<1> SUFFICES ASSUME PipeInv, [PipelineNext]_pipelineVars PROVE PipeInv'
  OBVIOUS
<1>1. PipelineTypeOK'
  BY TypesStep DEF PipeInv, Numbers
<1>2. CASE UNCHANGED pipelineVars
  <2>1. UNCHANGED <<runner, handler, taken, stored, expired, requeued, refused, removed>>
    BY <1>2 DEF pipelineVars, records
  <2>2. GivenUp' = GivenUp
    BY <2>1 DEF GivenUp
  <2> QED BY <1>1, <2>1, <2>2, TablesMove
<1>3. CASE PipelineNext
  BY <1>1, <1>3, AdminKeeps, RunnerKeeps, Handles DEF PipelineNext
<1> QED BY <1>2, <1>3

LEMMA PipeAlways == PipelineSpec => []PipeInv
BY PipeInit, PipeStep, PTL DEF PipelineSpec

LEMMA WayIsUnderway ==
  ASSUME PipelineTypeOK, NEW s, Way(s)
  PROVE  s \in Underway
<1>1. ASSUME NEW n \in Nodes, s \in SamplesIn(runner[n].buf) \cup SamplesIn(runner[n].batch)
      PROVE  s \in Underway
  <2>1. s \in SamplesIn(runner[n].buf \o runner[n].batch)
    BY <1>1, BatchSamples
  <2> QED BY <2>1 DEF Underway
<1>2. ASSUME NEW h \in Handlers, s \in SamplesIn(handler[h].rest) PROVE s \in Underway
  BY <1>2 DEF Underway
<1> QED BY <1>1, <1>2 DEF Way

\* A call that failed loses nothing: a sample that was taken is stored, or still
\* in a node or with a handler, or was given up for one of the reasons the code
\* has (flush puts the batch back; the slices before a refused one stay).
THEOREM NoSampleLost == PipelineSpec => []AccountedFor
<1>1. PipeInv => AccountedFor
  <2> SUFFICES ASSUME PipeInv, NEW s \in taken
               PROVE  stored[s] > 0 \/ s \in Underway \/ s \in GivenUp
    BY DEF AccountedFor
  <2>1. Covered(s) \/ Way(s)
    BY DEF PipeInv, NothingLost
  <2> QED BY <2>1, WayIsUnderway DEF Covered, PipeInv
<1> QED BY <1>1, PipeAlways, PTL

\* A sample has at most one row more than the number of times its batch went
\* back into the buffer: only a call that failed can duplicate it.
THEOREM RetriesPayForDuplicates == PipelineSpec => []DuplicatesOnlyFromRetries
<1>1. PipeInv => DuplicatesOnlyFromRetries
  <2> SUFFICES ASSUME PipeInv, NEW s \in Sample PROVE stored[s] <= 1 + requeued[s]
    BY DEF DuplicatesOnlyFromRetries
  <2>1. stored[s] + Cardinality(Copies(s)) + InBuffer(s) <= 1 + requeued[s]
    BY DEF PipeInv, Paid
  <2>2. Cardinality(Copies(s)) \in Nat /\ InBuffer(s) \in {0, 1}
    BY CopiesCounted DEF PipeInv, InBuffer
  <2>3. stored[s] \in Nat /\ requeued[s] \in Nat
    BY DEF PipeInv, PipelineTypeOK
  <2> QED BY <2>1, <2>2, <2>3
<1> QED BY <1>1, PipeAlways, PTL

(***************************************************************************)
(* The agent's update of itself.                                           *)
(***************************************************************************)

\* The stamp on disk is no older than the last attempt that could write one.
StampBacked == unstamped \/ stamp <= since

\* Past the verification a download is whole; from the move on the service is
\* stopped, so that only the installer, a kill or a boot ends that.
Installing ==
  /\ inst.pc \in {"stop", "move", "copy", "unit", "restart"} => inst.whole
  /\ inst.pc \in {"move", "copy", "unit", "restart", "trap"} => svc = "stopped" /\ ~proc.up

UpdateInv == UpdateTypeOK /\ StampBacked /\ Installing /\ BinaryChecked

Releases == Versions \cup {First}
Processes == [up : BOOLEAN, ver : Releases, mem : Ages]
Installers ==
  [pc : {"idle", "fetch", "verify", "stop", "move", "copy", "unit", "restart", "trap"},
   ver : Releases, whole : BOOLEAN, active : BOOLEAN]
Binaries == [ver : Releases, whole : BOOLEAN]
Units == [insecure : BOOLEAN, lines : 0 .. 2]

LEMMA UpdateTypes ==
  UpdateTypeOK <=>
    /\ desired \in Versions \cup {None} /\ selfSigned \in BOOLEAN /\ unit \in Units
    /\ bin \in Binaries /\ svc \in {"active", "restarting", "stopped"} /\ proc \in Processes
    /\ stamp \in Ages /\ since \in Ages /\ inst \in Installers
    /\ failures \in 0 .. MaxFailures /\ unstamped \in BOOLEAN /\ harm \in BOOLEAN
BY DEF UpdateTypeOK, Binaries, Units, Processes, Installers, Releases

LEMMA AgesGrow ==
  ASSUME NEW a \in Ages, NEW b \in Ages
  PROVE  /\ Older(a) \in Ages /\ 0 \in Ages /\ Cooldown \in Ages
         /\ a <= b => Older(a) <= Older(b)
BY UpdateAssumption DEF Ages, Older

LEMMA Processing ==
  /\ Down \in Processes /\ ~Down.up
  /\ NoInstall \in Installers /\ NoInstall.pc = "idle" /\ NoInstall.whole
  /\ \A b \in Binaries : Started(b) \in Processes
<1>1. Cooldown \in Ages /\ First \in Releases
  BY UpdateAssumption DEF Ages, Releases
<1>2. \A b \in Binaries : Reports(b.ver) \in Releases
  BY DEF Reports, Binaries, Releases
<1> QED BY <1>1, <1>2 DEF Down, Processes, NoInstall, Installers, Started

\* Whatever starts the service leaves it started or between two starts.
LEMMA StartKeeps ==
  ASSUME bin \in Binaries, NEW u, Start(u)
  PROVE  svc' \in {"active", "restarting", "stopped"} /\ proc' \in Processes
BY Processing DEF Start, Ended

\* Whatever a step that is cut off leaves of the unit file is a unit file.
LEMMA UnitKeeps ==
  /\ Unit(FALSE, 2) \in Units /\ \A b \in BOOLEAN : Unit(b, 2) \in Units
  /\ (unit \in Units /\ UnitLeft) => unit' \in Units
<1>1. \A b \in BOOLEAN, k \in 0 .. 2 : Unit(b, k) \in Units
  BY DEF Unit, Units
<1>2. 2 \in 0 .. 2
  OBVIOUS
<1> QED BY <1>1, <1>2 DEF UnitLeft

LEMMA FaultCounts ==
  ASSUME failures \in 0 .. MaxFailures, Fault
  PROVE  failures' \in 0 .. MaxFailures
BY UpdateAssumption DEF Fault

\* The installer's own steps.
LEMMA InstallKeeps == ASSUME UpdateInv, Install PROVE UpdateInv'
<1>0. /\ desired \in Versions \cup {None} /\ selfSigned \in BOOLEAN /\ unit \in Units
      /\ bin \in Binaries /\ svc \in {"active", "restarting", "stopped"} /\ proc \in Processes
      /\ stamp \in Ages /\ since \in Ages /\ inst \in Installers
      /\ failures \in 0 .. MaxFailures /\ unstamped \in BOOLEAN /\ harm \in BOOLEAN
      /\ StampBacked /\ Installing /\ BinaryChecked
  BY UpdateTypes DEF UpdateInv
<1>1. CASE Fetch
  <2>1. /\ UNCHANGED <<desired, selfSigned, unit, bin, svc, proc, stamp, since, unstamped, harm>>
        /\ failures' \in 0 .. MaxFailures /\ inst' \in Installers
        /\ inst'.pc \in {"idle", "verify"} /\ inst.pc = "fetch"
    <3>1. [inst EXCEPT !.pc = "verify"] \in Installers
          /\ [inst EXCEPT !.pc = "verify", !.whole = FALSE] \in Installers
      BY <1>0 DEF Installers
    <3>2. [inst EXCEPT !.pc = "verify"].pc = "verify"
          /\ [inst EXCEPT !.pc = "verify", !.whole = FALSE].pc = "verify"
      BY <1>0 DEF Installers
    <3> QED BY <1>0, <1>1, <3>1, <3>2, Processing, FaultCounts DEF Fetch, InstallerAt
  <2>2. UpdateTypeOK'
    BY <1>0, <2>1 DEF UpdateTypeOK, Binaries, Units, Processes, Installers, Releases
  <2> QED BY <1>0, <2>1, <2>2 DEF UpdateInv, StampBacked, Installing, BinaryChecked, InstallerAt
<1>2. CASE Verify
  <2>1. /\ UNCHANGED <<desired, selfSigned, unit, bin, svc, proc, stamp, failures, since,
                       unstamped, harm>>
        /\ inst' \in Installers /\ inst'.pc \in {"idle", "stop"} /\ inst.pc = "verify"
        /\ inst'.pc = "stop" => inst'.whole
    BY <1>0, <1>2, Processing DEF Verify, InstallerAt, InstallerGoes, Accepted, Installers
  <2>2. UpdateTypeOK'
    BY <1>0, <2>1 DEF UpdateTypeOK, Binaries, Units, Processes, Installers, Releases
  <2> QED BY <1>0, <2>1, <2>2 DEF UpdateInv, StampBacked, Installing, BinaryChecked, InstallerAt
<1>3. CASE Stop
  <2>1. /\ UNCHANGED <<desired, selfSigned, unit, bin, stamp, failures, since, unstamped, harm>>
        /\ inst' \in Installers /\ inst'.pc = "move" /\ inst'.whole = inst.whole /\ inst.pc = "stop"
        /\ svc' = "stopped" /\ proc' = Down
    BY <1>0, <1>3 DEF Stop, InstallerAt, Installers
  <2>2. UpdateTypeOK'
    BY <1>0, <2>1, Processing DEF UpdateTypeOK, Binaries, Units, Processes, Installers, Releases
  <2> QED BY <1>0, <2>1, <2>2, Processing
          DEF UpdateInv, StampBacked, Installing, BinaryChecked, InstallerAt
<1>4. CASE MoveBegins
  <2>1. /\ UNCHANGED <<desired, selfSigned, unit, svc, proc, stamp, failures, since, unstamped, harm>>
        /\ bin' \in Binaries
        /\ inst' \in Installers /\ inst'.pc = "copy" /\ inst'.whole = inst.whole /\ inst.pc = "move"
    BY <1>0, <1>4 DEF MoveBegins, InstallerAt, InstallerGoes, Installers, Binaries
  <2>2. UpdateTypeOK'
    BY <1>0, <2>1 DEF UpdateTypeOK, Binaries, Units, Processes, Installers, Releases
  <2> QED BY <1>0, <2>1, <2>2 DEF UpdateInv, StampBacked, Installing, BinaryChecked, InstallerAt
<1>5. CASE MoveEnds
  <2>1. /\ UNCHANGED <<desired, selfSigned, unit, svc, proc, stamp, failures, since, unstamped, harm>>
        /\ bin' \in Binaries /\ bin'.whole = inst.whole
        /\ inst' \in Installers /\ inst'.pc = "unit" /\ inst'.whole = inst.whole /\ inst.pc = "copy"
    BY <1>0, <1>5 DEF MoveEnds, InstallerAt, InstallerGoes, Installers, Binaries
  <2>2. UpdateTypeOK'
    BY <1>0, <2>1 DEF UpdateTypeOK, Binaries, Units, Processes, Installers, Releases
  <2> QED BY <1>0, <2>1, <2>2 DEF UpdateInv, StampBacked, Installing, BinaryChecked, InstallerAt
<1>6. CASE WriteUnit
  <2>1. /\ UNCHANGED <<desired, selfSigned, bin, svc, proc, stamp, failures, since, unstamped, harm>>
        /\ unit' \in Units
        /\ inst' \in Installers /\ inst'.pc = "restart" /\ inst'.whole = inst.whole
        /\ inst.pc = "unit"
    BY <1>0, <1>6, UnitKeeps DEF WriteUnit, InstallerAt, InstallerGoes, Installers
  <2>2. UpdateTypeOK'
    BY <1>0, <2>1 DEF UpdateTypeOK, Binaries, Units, Processes, Installers, Releases
  <2> QED BY <1>0, <2>1, <2>2 DEF UpdateInv, StampBacked, Installing, BinaryChecked, InstallerAt
<1>7. CASE Restart
  <2>1. /\ UNCHANGED <<desired, selfSigned, unit, bin, stamp, failures, since, unstamped, harm>>
        /\ svc' \in {"active", "restarting", "stopped"} /\ proc' \in Processes
        /\ inst' = NoInstall /\ inst.pc = "restart"
    BY <1>0, <1>7, StartKeeps DEF Restart, InstallerAt
  <2>2. UpdateTypeOK'
    BY <1>0, <2>1, Processing DEF UpdateTypeOK, Binaries, Units, Processes, Installers, Releases
  <2> QED BY <1>0, <2>1, <2>2, Processing
          DEF UpdateInv, StampBacked, Installing, BinaryChecked, InstallerAt
<1>8. CASE StepFails
  <2>1. /\ UNCHANGED <<desired, selfSigned, bin, svc, proc, stamp, since, unstamped>>
        /\ harm' = (harm \/ ~bin.whole)
        /\ unit' \in Units /\ failures' \in 0 .. MaxFailures
        /\ inst' \in Installers /\ inst'.pc = "trap"
        /\ inst.pc \in {"move", "copy", "unit", "restart"}
    <3>1. [inst EXCEPT !.pc = "trap"] \in Installers
          /\ [inst EXCEPT !.pc = "trap"].pc = "trap"
      BY <1>0 DEF Installers
    <3>2. failures' \in 0 .. MaxFailures /\ unit' \in Units
      BY <1>0, <1>8, UnitKeeps, FaultCounts DEF StepFails
    <3> QED BY <1>8, <3>1, <3>2 DEF StepFails, InstallerGoes
  <2>2. harm' \in BOOLEAN
    BY <2>1
  <2>3. UpdateTypeOK'
    BY <1>0, <2>1, <2>2 DEF UpdateTypeOK, Binaries, Units, Processes, Installers, Releases
  <2> QED BY <1>0, <2>1, <2>3 DEF UpdateInv, StampBacked, Installing, BinaryChecked, InstallerAt
<1>9. CASE Trap
  <2>1. /\ UNCHANGED <<desired, selfSigned, unit, bin, stamp, since, unstamped>>
        /\ failures' \in 0 .. MaxFailures
        /\ inst' = NoInstall /\ (harm \/ ~bin.whole => harm') /\ harm' \in BOOLEAN
        /\ svc' \in {"active", "restarting", "stopped"} /\ proc' \in Processes
    <3>1. svc' \in {"active", "restarting", "stopped"} /\ proc' \in Processes
      BY <1>0, <1>9, StartKeeps DEF Trap, Restored
    <3>2. (harm \/ ~bin.whole => harm') /\ harm' \in BOOLEAN
      BY <1>9 DEF Trap, Runs
    <3> QED BY <1>0, <1>9, <3>1, <3>2, FaultCounts DEF Trap
  <2>2. UpdateTypeOK'
    BY <1>0, <2>1, Processing DEF UpdateTypeOK, Binaries, Units, Processes, Installers, Releases
  <2> QED BY <1>0, <2>1, <2>2, Processing
          DEF UpdateInv, StampBacked, Installing, BinaryChecked, InstallerAt
<1> QED BY <1>1, <1>2, <1>3, <1>4, <1>5, <1>6, <1>7, <1>8, <1>9 DEF Install

\* An attempt: by the agent that runs, so not while the service is stopped.
LEMMA AttemptKeeps ==
  ASSUME UpdateInv, NEW written \in BOOLEAN, Attempt(written)
  PROVE  UpdateInv'
<1>0. /\ desired \in Versions \cup {None} /\ selfSigned \in BOOLEAN /\ unit \in Units
      /\ bin \in Binaries /\ svc \in {"active", "restarting", "stopped"} /\ proc \in Processes
      /\ stamp \in Ages /\ since \in Ages /\ inst \in Installers
      /\ failures \in 0 .. MaxFailures /\ unstamped \in BOOLEAN /\ harm \in BOOLEAN
      /\ StampBacked /\ Installing /\ BinaryChecked
  BY UpdateTypes DEF UpdateInv
<1>1. /\ UNCHANGED <<desired, selfSigned, unit, bin, svc, harm>>
      /\ proc.up /\ desired \in Versions /\ since' = 0 /\ unstamped' = ~written
      /\ written => stamp' = 0 /\ failures' = failures
      /\ ~written => stamp' = stamp /\ Fault
      /\ proc' = [proc EXCEPT !.mem = 0]
      /\ inst' = IF inst.pc = "idle" THEN [NoInstall EXCEPT !.pc = "fetch", !.ver = desired] ELSE inst
  BY <1>0 DEF Attempt, Reaches, Wants, Stamp, Launch
<1>2. failures' \in 0 .. MaxFailures /\ stamp' \in Ages /\ since' \in Ages
  BY <1>0, <1>1, AgesGrow, FaultCounts
<1>3. proc' \in Processes
  BY <1>0, <1>1, AgesGrow DEF Processes
<1>4. inst' \in Installers /\ (inst' = inst \/ (inst.pc = "idle" /\ inst'.pc = "fetch"))
  <2>1. [NoInstall EXCEPT !.pc = "fetch", !.ver = desired].pc = "fetch"
    BY DEF NoInstall
  <2>2. [NoInstall EXCEPT !.pc = "fetch", !.ver = desired] \in Installers
    <3>1. desired \in Releases
      BY <1>1 DEF Releases
    <3> QED BY <3>1, Processing DEF Installers
  <2> QED BY <1>0, <1>1, <2>1, <2>2
<1>5. UpdateTypeOK'
  BY <1>0, <1>1, <1>2, <1>3, <1>4 DEF UpdateTypeOK, Binaries, Units, Processes, Installers, Releases
<1>6. StampBacked'
  <2>1. written => stamp' <= since'
    BY <1>1
  <2> QED BY <1>1, <2>1 DEF StampBacked
<1>7. Installing' /\ BinaryChecked'
  BY <1>0, <1>1, <1>4 DEF Installing, BinaryChecked, InstallerAt
<1> QED BY <1>5, <1>6, <1>7 DEF UpdateInv

\* Time, the administrator, the machine and systemd.
LEMMA SurroundingsKeep ==
  ASSUME UpdateInv,
         \/ Tick \/ Kill \/ Reboot \/ Crash \/ SystemdRestarts
         \/ \E v \in Versions \cup {None} : SetDesired(v)
  PROVE  UpdateInv'
<1>0. /\ desired \in Versions \cup {None} /\ selfSigned \in BOOLEAN /\ unit \in Units
      /\ bin \in Binaries /\ svc \in {"active", "restarting", "stopped"} /\ proc \in Processes
      /\ stamp \in Ages /\ since \in Ages /\ inst \in Installers
      /\ failures \in 0 .. MaxFailures /\ unstamped \in BOOLEAN /\ harm \in BOOLEAN
      /\ StampBacked /\ Installing /\ BinaryChecked
  BY UpdateTypes DEF UpdateInv
<1>1. CASE Tick
  <2>1. /\ UNCHANGED <<desired, selfSigned, unit, bin, svc, inst, failures, unstamped, harm>>
        /\ since' = Older(since) /\ stamp' = Older(stamp)
        /\ proc' = [proc EXCEPT !.mem = Older(proc.mem)]
    BY <1>1 DEF Tick
  <2>2. since' \in Ages /\ stamp' \in Ages
    BY <1>0, <2>1, AgesGrow
  <2>3. proc' \in Processes /\ proc'.up = proc.up
    <3>1. Older(proc.mem) \in Ages
      BY <1>0, AgesGrow DEF Processes
    <3> QED BY <1>0, <2>1, <3>1 DEF Processes
  <2>4. stamp <= since => stamp' <= since'
    BY <1>0, <2>1, AgesGrow
  <2>5. UpdateTypeOK'
    BY <1>0, <2>1, <2>2, <2>3 DEF UpdateTypeOK, Binaries, Units, Processes, Installers, Releases
  <2> QED BY <1>0, <2>1, <2>3, <2>4, <2>5
          DEF UpdateInv, StampBacked, Installing, BinaryChecked, InstallerAt
<1>2. CASE Kill
  <2>1. /\ UNCHANGED <<desired, selfSigned, bin, svc, proc, stamp, since, unstamped>>
        /\ unit' \in Units
        /\ failures' \in 0 .. MaxFailures /\ inst' = NoInstall /\ harm' = (harm \/ svc = "stopped")
    BY <1>0, <1>2, FaultCounts, UnitKeeps DEF Kill
  <2>2. harm' \in BOOLEAN
    BY <2>1
  <2>3. UpdateTypeOK'
    BY <1>0, <2>1, <2>2, Processing DEF UpdateTypeOK, Binaries, Units, Processes, Installers, Releases
  <2> QED BY <1>0, <2>1, <2>3, Processing
          DEF UpdateInv, StampBacked, Installing, BinaryChecked, InstallerAt
<1>3. CASE Reboot
  <2>1. /\ UNCHANGED <<desired, selfSigned, bin, stamp, since, unstamped>>
        /\ unit' \in Units
        /\ failures' \in 0 .. MaxFailures /\ inst' = NoInstall
        /\ svc' \in {"active", "restarting", "stopped"} /\ proc' \in Processes
    BY <1>0, <1>3, FaultCounts, StartKeeps, UnitKeeps DEF Reboot
  <2>2. harm' \in BOOLEAN /\ (harm \/ ~bin.whole => harm')
    BY <1>3 DEF Reboot, Runs
  <2>3. UpdateTypeOK'
    BY <1>0, <2>1, <2>2, Processing DEF UpdateTypeOK, Binaries, Units, Processes, Installers, Releases
  <2> QED BY <1>0, <2>1, <2>2, <2>3, Processing
          DEF UpdateInv, StampBacked, Installing, BinaryChecked, InstallerAt
<1>4. CASE Crash
  <2>1. /\ UNCHANGED <<desired, selfSigned, unit, bin, stamp, inst, since, unstamped>>
        /\ failures' \in 0 .. MaxFailures /\ proc.up /\ proc' = Down
        /\ svc' \in {"active", "restarting", "stopped"}
        /\ harm' = (harm \/ svc' = "stopped")
    BY <1>0, <1>4, FaultCounts DEF Crash, Ended
  <2>2. harm' \in BOOLEAN
    BY <2>1
  <2>3. UpdateTypeOK'
    BY <1>0, <2>1, <2>2, Processing DEF UpdateTypeOK, Binaries, Units, Processes, Installers, Releases
  <2> QED BY <1>0, <2>1, <2>3 DEF UpdateInv, StampBacked, Installing, BinaryChecked, InstallerAt
<1>5. CASE SystemdRestarts
  <2>1. /\ UNCHANGED <<desired, selfSigned, unit, bin, stamp, inst, failures, since, unstamped, harm>>
        /\ svc = "restarting"
        /\ svc' \in {"active", "restarting", "stopped"} /\ proc' \in Processes
    BY <1>0, <1>5, StartKeeps DEF SystemdRestarts
  <2>2. UpdateTypeOK'
    BY <1>0, <2>1 DEF UpdateTypeOK, Binaries, Units, Processes, Installers, Releases
  <2> QED BY <1>0, <2>1, <2>2 DEF UpdateInv, StampBacked, Installing, BinaryChecked, InstallerAt
<1>6. ASSUME NEW v \in Versions \cup {None}, SetDesired(v) PROVE UpdateInv'
  <2>1. /\ UNCHANGED <<selfSigned, unit, bin, svc, proc, stamp, inst, failures, since, unstamped, harm>>
        /\ desired' = v
    BY <1>6 DEF SetDesired
  <2>2. UpdateTypeOK'
    BY <1>0, <2>1 DEF UpdateTypeOK, Binaries, Units, Processes, Installers, Releases
  <2> QED BY <1>0, <2>1, <2>2 DEF UpdateInv, StampBacked, Installing, BinaryChecked, InstallerAt
<1> QED BY <1>1, <1>2, <1>3, <1>4, <1>5, <1>6

LEMMA UpdateAlways == UpdateSpec => []UpdateInv
<1>1. UpdateInit => UpdateInv
  <2> SUFFICES ASSUME UpdateInit PROVE UpdateInv
    OBVIOUS
  <2>1. bin \in Binaries /\ bin.whole
    BY DEF UpdateInit, Binaries, Releases
  <2>2. proc \in Processes /\ inst \in Installers /\ inst.pc = "idle"
    BY <2>1, Processing DEF UpdateInit
  <2>3. /\ desired \in Versions \cup {None} /\ selfSigned \in BOOLEAN /\ unit \in Units
        /\ svc \in {"active", "restarting", "stopped"}
        /\ unstamped \in BOOLEAN /\ harm \in BOOLEAN
    BY UnitKeeps DEF UpdateInit
  <2>4. stamp \in Ages /\ since \in Ages /\ stamp <= since /\ failures \in 0 .. MaxFailures
    BY UpdateAssumption DEF UpdateInit, Ages
  <2>5. UpdateTypeOK
    BY <2>1, <2>2, <2>3, <2>4, UpdateTypes
  <2> QED BY <2>1, <2>2, <2>4, <2>5 DEF UpdateInv, StampBacked, Installing, BinaryChecked
<1>2. UpdateInv /\ [UpdateNext]_updateVars => UpdateInv'
  <2>1. ASSUME UpdateInv, UNCHANGED updateVars PROVE UpdateInv'
    <3>1. UpdateTypeOK'
      BY <2>1 DEF UpdateInv, UpdateTypeOK, updateVars
    <3> QED BY <2>1, <3>1
            DEF UpdateInv, StampBacked, Installing, BinaryChecked, InstallerAt, updateVars
  <2> QED BY <2>1, InstallKeeps, AttemptKeeps, SurroundingsKeep DEF UpdateNext
<1> QED BY <1>1, <1>2, PTL DEF UpdateSpec

\* The cooldown survives the restarts the updates themselves cause: whatever
\* process asks, the stamp on disk holds it back as the last attempt would.
THEOREM AttemptsKeepApart == UpdateSpec => AttemptsSpaced
<1>1. UpdateInv /\ [UpdateNext]_updateVars =>
        [(\E written \in BOOLEAN : Attempt(written)) => since = Cooldown \/ unstamped]_updateVars
  <2> SUFFICES ASSUME UpdateInv, NEW written \in BOOLEAN, Attempt(written), ~unstamped
               PROVE  since = Cooldown
    OBVIOUS
  <2>1. stamp \in Ages /\ since \in Ages /\ proc.mem \in Ages
    BY UpdateTypes DEF UpdateInv, Processes
  <2>2. LastAttempt = Cooldown /\ stamp <= since
    BY DEF Attempt, UpdateInv, StampBacked
  <2> QED BY <2>1, <2>2, UpdateAssumption DEF LastAttempt, Ages
<1> QED BY <1>1, UpdateAlways, PTL DEF AttemptsSpaced, UpdateSpec

\* Whatever fails, is killed or reboots: what systemd may start was verified,
\* unless a copy over it is under way or was cut short.
THEOREM BinaryIsChecked == UpdateSpec => []BinaryChecked
<1> QED BY UpdateAlways, PTL DEF UpdateInv
=============================================================================
