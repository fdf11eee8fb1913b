---------------------------- MODULE Server_proof ----------------------------
(***************************************************************************)
(* What is proved of the custom server: of its websocket endpoint, for any *)
(* number of sockets, tokens, addresses and frames, that its counters are  *)
(* those of the connections there are and that a revoked token stays out;  *)
(* of the HTTP checks its loop runs, for any targets, evaluations and      *)
(* thresholds, that a page is earned, that one repeated has been paid for, *)
(* and that until the first disturbance they page as Pager promises.       *)
(***************************************************************************)
EXTENDS WsServer, HttpChecks, FiniteSetTheorems, TLAPS

-----------------------------------------------------------------------------
(* The websocket endpoint *)

Connected == {"open", "closing", "dead"}

AtIp(i) == {s \in Live : IpOf[s] = i}

\* The counters and the sets of connections, and that these can be counted.
Counted ==
  /\ IsFiniteSet(Live)
  /\ total = Cardinality(Live)
  /\ \A i \in Ips : perIp[i] = Cardinality(AtIp(i))

Tracked ==
  /\ \A s \in Sockets : sock[s].pc \in {"open", "closing"} => s \in byToken[TokenOf[s]]
  /\ \A t \in Tokens : \A s \in byToken[t] : s \in Live /\ TokenOf[s] = t

\* A token the server was told about is not in the database, and unless a
\* lookup that had found it was on its way, nothing that says otherwise is left:
\* neither in the cache nor in an upgrade's hands, and no connection.
Revoked ==
  /\ notified \cap registered = {}
  /\ \A t \in notified \ crossed :
       /\ tokenCache[t] # "yes"
       /\ \A s \in Sockets : TokenOf[s] = t =>
            /\ ~(sock[s].pc = "answered" /\ sock[s].found)
            /\ sock[s].pc \notin {"open", "closing"}

WsInv == TypeOK /\ Counted /\ Tracked /\ Revoked

LEMMA Locals ==
  ASSUME NEW q \in Socket
  PROVE  /\ Unconnected \in Socket
         /\ \A p \in BOOLEAN : [Unconnected EXCEPT !.pc = "open", !.peer = p] \in Socket
         /\ \A pc \in {"lookup", "answered", "closing", "dead"} : [q EXCEPT !.pc = pc] \in Socket
         /\ \A ok \in BOOLEAN : [q EXCEPT !.pc = "answered", !.found = ok] \in Socket
         /\ \A b \in BOOLEAN : [q EXCEPT !.peer = b] \in Socket /\ [q EXCEPT !.alive = b] \in Socket
         /\ \A n \in 0 .. MaxRate : [q EXCEPT !.count = n] \in Socket
         /\ \A n \in 0 .. MaxInflight : [q EXCEPT !.inflight = n] \in Socket
         /\ \A m \in 0 .. MaxRate, n \in 0 .. MaxInflight :
              [q EXCEPT !.count = m, !.inflight = n] \in Socket
<1>1. 0 \in 0 .. MaxRate /\ 0 \in 0 .. MaxInflight
  BY ConstantsAssumption
<1>2. Unconnected \in Socket
  BY <1>1 DEF Unconnected, Socket
<1> QED BY <1>2 DEF Socket, Unconnected

-----------------------------------------------------------------------------
(* Counting *)

\* One connection more, which nobody counted yet.
LEMMA CountedAfterConnection ==
  ASSUME TypeOK, Counted, NEW s \in Sockets, s \notin Live, Live' = Live \cup {s},
         total' = total + 1, perIp' = [perIp EXCEPT ![IpOf[s]] = @ + 1]
  PROVE  Counted' /\ total' \in Nat /\ perIp' \in [Ips -> Nat]
<1>1. IsFiniteSet(Live') /\ Cardinality(Live') = Cardinality(Live) + 1
  BY FS_AddElement DEF Counted
<1>2. IpOf[s] \in Ips
  BY ConstantsAssumption
<1>3. ASSUME NEW i \in Ips PROVE perIp'[i] = Cardinality(AtIp(i)')
  <2>1. IsFiniteSet(AtIp(i))
    BY FS_Subset DEF Counted, AtIp
  <2>2. AtIp(i)' = IF IpOf[s] = i THEN AtIp(i) \cup {s} ELSE AtIp(i)
    BY DEF AtIp
  <2>3. s \notin AtIp(i)
    BY DEF AtIp
  <2>4. Cardinality(AtIp(i) \cup {s}) = Cardinality(AtIp(i)) + 1
    BY <2>1, <2>3, FS_AddElement
  <2>5. perIp'[i] = IF IpOf[s] = i THEN perIp[i] + 1 ELSE perIp[i]
    BY <1>2 DEF TypeOK
  <2> QED BY <2>2, <2>4, <2>5 DEF Counted
<1>4. total' \in Nat /\ perIp' \in [Ips -> Nat]
  BY <1>2 DEF TypeOK
<1> QED BY <1>1, <1>3, <1>4 DEF Counted

\* One connection less, which had been counted.
LEMMA CountedAfterCleanup ==
  ASSUME TypeOK, Counted, NEW s \in Sockets, s \in Live, Live' = Live \ {s},
         total' = total - 1, perIp' = [perIp EXCEPT ![IpOf[s]] = @ - 1]
  PROVE  Counted' /\ total' \in Nat /\ perIp' \in [Ips -> Nat]
<1>1. /\ IsFiniteSet(Live') /\ Cardinality(Live') = Cardinality(Live) - 1
      /\ Cardinality(Live') \in Nat
  BY FS_RemoveElement, FS_CardinalityType DEF Counted
<1>2. IpOf[s] \in Ips
  BY ConstantsAssumption
<1>3. ASSUME NEW i \in Ips PROVE perIp'[i] = Cardinality(AtIp(i)') /\ perIp'[i] \in Nat
  <2>1. IsFiniteSet(AtIp(i))
    BY FS_Subset DEF Counted, AtIp
  <2>2. AtIp(i)' = IF IpOf[s] = i THEN AtIp(i) \ {s} ELSE AtIp(i)
    BY DEF AtIp
  <2>3. IpOf[s] = i => s \in AtIp(i)
    BY DEF AtIp
  <2>4. /\ IsFiniteSet(AtIp(i) \ {s})
        /\ Cardinality(AtIp(i) \ {s}) = IF s \in AtIp(i) THEN Cardinality(AtIp(i)) - 1
                                        ELSE Cardinality(AtIp(i))
    BY <2>1, FS_RemoveElement
  <2>5. perIp'[i] = IF IpOf[s] = i THEN perIp[i] - 1 ELSE perIp[i]
    BY <1>2 DEF TypeOK
  <2>6. Cardinality(AtIp(i) \ {s}) \in Nat /\ Cardinality(AtIp(i)) \in Nat
    BY <2>1, <2>4, FS_CardinalityType
  <2> QED BY <2>2, <2>3, <2>4, <2>5, <2>6 DEF Counted
<1>4. perIp' \in [Ips -> Nat]
  BY <1>2, <1>3 DEF TypeOK
<1>5. total' \in Nat
  BY <1>1 DEF Counted
<1> QED BY <1>1, <1>3, <1>4, <1>5 DEF Counted

\* Nobody came or went.
LEMMA CountedWithout ==
  ASSUME Counted, Live' = Live, total' = total, perIp' = perIp
  PROVE  Counted'
BY DEF Counted, AtIp

\* A step that changes neither where a socket is nor what its lookup found,
\* nor any of the maps, leaves the books as they are.
LEMMA BooksKept ==
  ASSUME WsInv, TypeOK',
         \A s \in Sockets : sock'[s].pc = sock[s].pc /\ sock'[s].found = sock[s].found,
         total' = total, perIp' = perIp, byToken' = byToken, tokenCache' = tokenCache,
         registered' = registered, notified' = notified, crossed' = crossed
  PROVE  WsInv'
<1>1. Live' = Live
  BY DEF Live
<1>2. Counted'
  BY <1>1, CountedWithout DEF WsInv
<1>3. Tracked'
  BY <1>1 DEF WsInv, Tracked
<1>4. Revoked'
  BY DEF WsInv, Revoked
<1> QED BY <1>2, <1>3, <1>4 DEF WsInv

-----------------------------------------------------------------------------
(* Upgrades *)

\* What UpgradeCached and Answer have in common: s becomes a connection, of a
\* token that may connect.
LEMMA ConnectionInv ==
  ASSUME WsInv, NEW s \in Sockets, s \notin Live, Connection(s),
         tokenCache' \in [Tokens -> {"yes", "no", "none"}],
         \A t \in notified \ crossed : tokenCache'[t] # "yes",
         TokenOf[s] \notin notified \ crossed, upgrades' \in Nat,
         UNCHANGED <<registered, notified, crossed, frames>>
  PROVE  WsInv'
<1> DEFINE new == [Unconnected EXCEPT !.pc = "open", !.peer = sock[s].peer]
<1>1. TypeOK /\ Counted /\ Tracked /\ Revoked /\ sock[s] \in Socket /\ TokenOf[s] \in Tokens
  BY ConstantsAssumption DEF WsInv, TypeOK
<1>2. new \in Socket /\ new.pc = "open"
  <2>1. sock[s].peer \in BOOLEAN
    BY <1>1 DEF Socket
  <2> QED BY <1>1, <2>1, Locals DEF Unconnected
<1>3. /\ sock' = [sock EXCEPT ![s] = new]
      /\ sock' \in [Sockets -> Socket]
      /\ sock'[s] = new /\ \A x \in Sockets : x # s => sock'[x] = sock[x]
  BY <1>1, <1>2 DEF Connection, TypeOK
<1> HIDE DEF new
<1>4. /\ byToken' \in [Tokens -> SUBSET Sockets]
      /\ byToken'[TokenOf[s]] = byToken[TokenOf[s]] \cup {s}
      /\ \A t \in Tokens : t # TokenOf[s] => byToken'[t] = byToken[t]
  BY <1>1 DEF Connection, TypeOK
<1>5. Live' = Live \cup {s}
  BY <1>2, <1>3 DEF Live
<1>6. Counted' /\ total' \in Nat /\ perIp' \in [Ips -> Nat]
  BY <1>1, <1>5, CountedAfterConnection DEF Connection
<1>7. TypeOK'
  BY <1>1, <1>3, <1>4, <1>6 DEF TypeOK
<1>8. Tracked'
  <2>1. ASSUME NEW x \in Sockets, sock'[x].pc \in {"open", "closing"}
        PROVE  x \in byToken'[TokenOf[x]]
    <3>1. TokenOf[x] \in Tokens
      BY ConstantsAssumption
    <3> QED BY <1>1, <1>3, <1>4, <2>1, <3>1 DEF Tracked
  <2>2. ASSUME NEW t \in Tokens, NEW x \in byToken'[t] PROVE x \in Live' /\ TokenOf[x] = t
    BY <1>1, <1>4, <1>5, <2>2 DEF Tracked
  <2> QED BY <2>1, <2>2 DEF Tracked
<1>9. Revoked'
  <2>1. ASSUME NEW t \in notified \ crossed, NEW x \in Sockets, TokenOf[x] = t
        PROVE  sock'[x] = sock[x]
    BY <1>3, <2>1
  <2> QED BY <1>1, <2>1 DEF Revoked
<1> QED BY <1>6, <1>7, <1>8, <1>9 DEF WsInv

LEMMA UpgradeCachedInv ==
  ASSUME WsInv, NEW s \in Sockets, UpgradeCached(s) PROVE WsInv'
<1>1. Connection(s) /\ sock[s].pc = "none" /\ tokenCache[TokenOf[s]] = "yes"
      /\ tokenCache' = tokenCache /\ upgrades' = upgrades + 1
      /\ UNCHANGED <<registered, notified, crossed, frames>>
  BY DEF UpgradeCached
<1>2. s \notin Live
  BY <1>1 DEF Live
<1>3. /\ tokenCache' \in [Tokens -> {"yes", "no", "none"}] /\ upgrades' \in Nat
      /\ \A t \in notified \ crossed : tokenCache'[t] # "yes"
      /\ TokenOf[s] \notin notified \ crossed
  BY <1>1 DEF WsInv, TypeOK, Revoked
<1> QED BY <1>1, <1>2, <1>3, ConnectionInv

\* A step of one socket outside the books: it neither joins nor leaves Live,
\* may start to close or die, and an answer it holds is one that may be held.
LEMMA SocketStepInv ==
  ASSUME WsInv, NEW s \in Sockets, NEW q \in Socket, sock' = [sock EXCEPT ![s] = q],
         s \in Live <=> q.pc \in Connected,
         q.pc \in {"open", "closing"} => sock[s].pc \in {"open", "closing"},
         TokenOf[s] \in notified \ crossed => ~(q.pc = "answered" /\ q.found),
         upgrades' \in Nat, frames' \in Nat,
         UNCHANGED <<total, perIp, byToken, tokenCache, registered, notified, crossed>>
  PROVE  WsInv'
<1>1. TypeOK /\ Counted /\ Tracked /\ Revoked
  BY DEF WsInv
<1>2. /\ sock' \in [Sockets -> Socket]
      /\ sock'[s] = q /\ \A x \in Sockets : x # s => sock'[x] = sock[x]
  BY <1>1 DEF TypeOK
<1>3. Live' = Live
  BY <1>2 DEF Live, Connected
<1>4. TypeOK'
  BY <1>1, <1>2 DEF TypeOK
<1>5. Counted'
  BY <1>1, <1>3, CountedWithout
<1>6. Tracked'
  BY <1>1, <1>2, <1>3 DEF Tracked
<1>7. Revoked'
  BY <1>1, <1>2 DEF Revoked
<1> QED BY <1>4, <1>5, <1>6, <1>7 DEF WsInv

LEMMA UpgradeLookupInv ==
  ASSUME WsInv, NEW s \in Sockets, UpgradeLookup(s) PROVE WsInv'
<1> DEFINE q == [sock[s] EXCEPT !.pc = "lookup"]
<1>1. TypeOK /\ sock[s] \in Socket
  BY DEF WsInv, TypeOK
<1>2. q \in Socket /\ q.pc = "lookup"
  <2>1. q \in Socket
    BY <1>1, Locals
  <2>2. q.pc = "lookup"
    BY <1>1 DEF Socket
  <2> QED BY <2>1, <2>2
<1>3. sock' = [sock EXCEPT ![s] = q] /\ upgrades' \in Nat /\ frames' \in Nat
  BY <1>1 DEF UpgradeLookup, TypeOK
<1>4. s \notin Live
  BY DEF UpgradeLookup, Live
<1> HIDE DEF q
<1> QED BY <1>2, <1>3, <1>4, SocketStepInv DEF UpgradeLookup, Connected

LEMMA LookupInv ==
  ASSUME WsInv, NEW s \in Sockets, Lookup(s) PROVE WsInv'
<1>1. TypeOK /\ Revoked /\ sock[s] \in Socket
  BY DEF WsInv, TypeOK
<1>2. PICK ok \in BOOLEAN : /\ ok => TokenOf[s] \in registered
                           /\ sock' = [sock EXCEPT ![s].pc = "answered", ![s].found = ok]
  <2>1. CASE TokenOf[s] \in registered
    <3>1. (TokenOf[s] \in registered) = TRUE
      BY <2>1
    <3> QED BY <2>1, <3>1 DEF Lookup
  <2>2. CASE TokenOf[s] \notin registered
    <3>1. (TokenOf[s] \in registered) = FALSE
      BY <2>2
    <3> QED BY <3>1 DEF Lookup
  <2> QED BY <2>1, <2>2
<1> DEFINE q == [sock[s] EXCEPT !.pc = "answered", !.found = ok]
<1>3. q \in Socket /\ q.pc = "answered" /\ q.found = ok
  <2>1. q \in Socket
    BY <1>1, Locals
  <2>2. q.pc = "answered" /\ q.found = ok
    BY <1>1 DEF Socket
  <2> QED BY <2>1, <2>2
<1>4. sock' = [sock EXCEPT ![s] = q]
  BY <1>1, <1>2 DEF TypeOK
<1>5. s \notin Live
  BY DEF Lookup, Live
<1>6. TokenOf[s] \in notified \ crossed => ~ok
  BY <1>1, <1>2 DEF Revoked
<1>7. upgrades' \in Nat /\ frames' \in Nat
  BY <1>1 DEF Lookup, TypeOK
<1> HIDE DEF q
<1> QED BY <1>3, <1>4, <1>5, <1>6, <1>7, SocketStepInv DEF Lookup, Connected

LEMMA AnswerInv ==
  ASSUME WsInv, NEW s \in Sockets, Answer(s) PROVE WsInv'
<1>1. TypeOK /\ Counted /\ Tracked /\ Revoked /\ sock[s] \in Socket /\ TokenOf[s] \in Tokens
  BY ConstantsAssumption DEF WsInv, TypeOK
<1>2. /\ tokenCache' \in [Tokens -> {"yes", "no", "none"}]
      /\ \A t \in Tokens : tokenCache'[t] = IF t # TokenOf[s] THEN tokenCache[t]
                                            ELSE IF sock[s].found THEN "yes" ELSE "no"
  BY <1>1 DEF Answer, TypeOK
<1>3. TokenOf[s] \in notified \ crossed => ~sock[s].found
  BY <1>1 DEF Answer, Revoked
<1>4. \A t \in notified \ crossed : tokenCache'[t] # "yes"
  BY <1>1, <1>2, <1>3 DEF Revoked, TypeOK
<1>5. s \notin Live
  BY DEF Answer, Live
<1>6. upgrades' \in Nat
  BY <1>1 DEF Answer, TypeOK
<1>7. CASE sock[s].found /\ Connection(s)
  BY <1>2, <1>3, <1>4, <1>5, <1>6, <1>7, ConnectionInv DEF Answer
<1>8. CASE sock' = [sock EXCEPT ![s] = Unconnected] /\ UNCHANGED <<total, perIp, byToken>>
  <2>1. /\ sock' \in [Sockets -> Socket] /\ sock'[s] = Unconnected
        /\ \A x \in Sockets : x # s => sock'[x] = sock[x]
    BY <1>1, <1>8, Locals DEF TypeOK
  <2>2. Live' = Live
    BY <1>5, <2>1 DEF Live, Unconnected
  <2>3. TypeOK'
    BY <1>1, <1>2, <1>8, <2>1 DEF TypeOK, Answer
  <2>4. Counted'
    BY <1>1, <1>8, <2>2, CountedWithout
  <2>5. Tracked'
    BY <1>1, <1>8, <2>1, <2>2 DEF Tracked, Unconnected
  <2>6. Revoked'
    BY <1>1, <1>4, <2>1 DEF Revoked, Answer, Unconnected
  <2> QED BY <2>3, <2>4, <2>5, <2>6 DEF WsInv
<1> QED BY <1>7, <1>8 DEF Answer

LEMMA CacheExpiresInv ==
  ASSUME WsInv, NEW t \in Tokens, CacheExpires(t) PROVE WsInv'
<1>1. TypeOK /\ Counted /\ Tracked /\ Revoked
  BY DEF WsInv
<1>2. Live' = Live
  BY DEF CacheExpires, Live
<1>3. TypeOK'
  BY <1>1 DEF TypeOK, CacheExpires
<1>4. Counted'
  BY <1>1, <1>2, CountedWithout DEF CacheExpires
<1>5. Tracked'
  BY <1>1, <1>2 DEF Tracked, CacheExpires
<1>6. \A x \in Tokens : tokenCache'[x] = "yes" => tokenCache[x] = "yes"
  BY <1>1 DEF CacheExpires, TypeOK
<1>7. Revoked'
  BY <1>1, <1>6 DEF Revoked, CacheExpires, TypeOK
<1> QED BY <1>3, <1>4, <1>5, <1>7 DEF WsInv

-----------------------------------------------------------------------------
(* A connection *)

\* The steps that change a flag or a count of one socket.
LEMMA FlagStepInv ==
  ASSUME WsInv, NEW s \in Sockets, NEW q \in Socket, sock' = [sock EXCEPT ![s] = q],
         q.pc = sock[s].pc, q.found = sock[s].found, upgrades' \in Nat, frames' \in Nat,
         UNCHANGED <<total, perIp, byToken, tokenCache, registered, notified, crossed>>
  PROVE  WsInv'
<1>1. s \in Live <=> q.pc \in Connected
  BY DEF Live, Connected
<1>2. TokenOf[s] \in notified \ crossed => ~(q.pc = "answered" /\ q.found)
  BY DEF WsInv, Revoked
<1> QED BY <1>1, <1>2, SocketStepInv

LEMMA PeerVanishesInv ==
  ASSUME WsInv, NEW s \in Sockets, PeerVanishes(s) PROVE WsInv'
<1> DEFINE q == [sock[s] EXCEPT !.peer = FALSE]
<1>1. TypeOK /\ sock[s] \in Socket
  BY DEF WsInv, TypeOK
<1>2. q \in Socket
  BY <1>1, Locals
<1>3. q.pc = sock[s].pc /\ q.found = sock[s].found
  BY <1>1 DEF Socket
<1>4. sock' = [sock EXCEPT ![s] = q] /\ upgrades' \in Nat /\ frames' \in Nat
  BY <1>1 DEF PeerVanishes, TypeOK
<1> HIDE DEF q
<1> QED BY <1>2, <1>3, <1>4, FlagStepInv DEF PeerVanishes

LEMMA HeartbeatInv ==
  ASSUME WsInv, NEW s \in Sockets, Heartbeat(s) PROVE WsInv'
<1>1. TypeOK /\ sock[s] \in Socket /\ upgrades' \in Nat /\ frames' \in Nat
  BY DEF WsInv, TypeOK, Heartbeat
<1>2. CASE sock[s].alive
  <2> DEFINE q == [sock[s] EXCEPT !.alive = FALSE]
  <2>1. q \in Socket
    BY <1>1, Locals
  <2>2. q.pc = sock[s].pc /\ q.found = sock[s].found
    BY <1>1 DEF Socket
  <2>3. sock' = [sock EXCEPT ![s] = q]
    BY <1>1, <1>2 DEF Heartbeat, TypeOK
  <2> HIDE DEF q
  <2> QED BY <1>1, <2>1, <2>2, <2>3, FlagStepInv DEF Heartbeat
<1>3. CASE ~sock[s].alive
  <2> DEFINE q == [sock[s] EXCEPT !.pc = "dead"]
  <2>1. q \in Socket
    BY <1>1, Locals
  <2>2. q.pc = "dead"
    BY <1>1 DEF Socket
  <2>3. sock' = [sock EXCEPT ![s] = q]
    BY <1>1, <1>3 DEF Heartbeat, TypeOK
  <2>4. s \in Live
    BY DEF Heartbeat, Live
  <2> HIDE DEF q
  <2> QED BY <1>1, <2>1, <2>2, <2>3, <2>4, SocketStepInv DEF Heartbeat, Connected
<1> QED BY <1>2, <1>3

LEMMA PongInv ==
  ASSUME WsInv, NEW s \in Sockets, Pong(s) PROVE WsInv'
<1> DEFINE q == [sock[s] EXCEPT !.alive = TRUE]
<1>1. TypeOK /\ sock[s] \in Socket
  BY DEF WsInv, TypeOK
<1>2. q \in Socket
  BY <1>1, Locals
<1>3. q.pc = sock[s].pc /\ q.found = sock[s].found
  BY <1>1 DEF Socket
<1>4. sock' = [sock EXCEPT ![s] = q] /\ upgrades' \in Nat /\ frames' \in Nat
  BY <1>1 DEF Pong, TypeOK
<1> HIDE DEF q
<1> QED BY <1>2, <1>3, <1>4, FlagStepInv DEF Pong

LEMMA FrameInv ==
  ASSUME WsInv, NEW s \in Sockets, Frame(s) PROVE WsInv'
<1>1. /\ TypeOK /\ sock[s] \in Socket /\ upgrades' \in Nat /\ frames' \in Nat
      /\ sock[s].count \in 0 .. MaxRate /\ sock[s].inflight \in 0 .. MaxInflight
      /\ MaxRate \in Nat /\ MaxInflight \in Nat
  BY ConstantsAssumption DEF WsInv, TypeOK, Frame, Socket
<1>2. CASE sock' = [sock EXCEPT ![s].pc = "closing"]
  <2> DEFINE q == [sock[s] EXCEPT !.pc = "closing"]
  <2>1. q \in Socket
    BY <1>1, Locals
  <2>2. q.pc = "closing"
    BY <1>1 DEF Socket
  <2>3. sock' = [sock EXCEPT ![s] = q]
    BY <1>1, <1>2 DEF TypeOK
  <2>4. s \in Live /\ sock[s].pc \in {"open", "closing"}
    BY DEF Frame, Live
  <2> HIDE DEF q
  <2> QED BY <1>1, <2>1, <2>2, <2>3, <2>4, SocketStepInv DEF Frame, Connected
<1>3. CASE sock[s].count < MaxRate /\ sock' = [sock EXCEPT ![s].count = @ + 1]
  <2> DEFINE q == [sock[s] EXCEPT !.count = sock[s].count + 1]
  <2>1. q \in Socket
    <3>1. sock[s].count + 1 \in 0 .. MaxRate
      BY <1>1, <1>3
    <3> QED BY <1>1, <3>1, Locals
  <2>2. q.pc = sock[s].pc /\ q.found = sock[s].found
    BY <1>1 DEF Socket
  <2>3. sock' = [sock EXCEPT ![s] = q]
    BY <1>1, <1>3 DEF TypeOK
  <2> HIDE DEF q
  <2> QED BY <1>1, <2>1, <2>2, <2>3, FlagStepInv DEF Frame
<1>4. CASE /\ sock[s].count < MaxRate /\ Accepts(sock[s])
           /\ sock' = [sock EXCEPT ![s] = [sock[s] EXCEPT !.count = sock[s].count + 1,
                                                          !.inflight = sock[s].inflight + 1]]
  <2> DEFINE q == [sock[s] EXCEPT !.count = sock[s].count + 1, !.inflight = sock[s].inflight + 1]
  <2>1. q \in Socket
    <3>1. sock[s].count + 1 \in 0 .. MaxRate /\ sock[s].inflight + 1 \in 0 .. MaxInflight
      BY <1>1, <1>4 DEF Accepts
    <3> QED BY <1>1, <3>1, Locals
  <2>2. q.pc = sock[s].pc /\ q.found = sock[s].found
    BY <1>1 DEF Socket
  <2>3. sock' = [sock EXCEPT ![s] = q]
    BY <1>4
  <2> HIDE DEF q
  <2> QED BY <1>1, <2>1, <2>2, <2>3, FlagStepInv DEF Frame
<1> QED BY <1>2, <1>3, <1>4 DEF Frame

LEMMA NewWindowInv ==
  ASSUME WsInv, NEW s \in Sockets, NewWindow(s) PROVE WsInv'
<1> DEFINE q == [sock[s] EXCEPT !.count = 0]
<1>1. TypeOK /\ sock[s] \in Socket
  BY DEF WsInv, TypeOK
<1>2. q \in Socket
  <2>1. 0 \in 0 .. MaxRate
    BY ConstantsAssumption
  <2> QED BY <1>1, <2>1, Locals
<1>3. q.pc = sock[s].pc /\ q.found = sock[s].found
  BY <1>1 DEF Socket
<1>4. sock' = [sock EXCEPT ![s] = q] /\ upgrades' \in Nat /\ frames' \in Nat
  BY <1>1 DEF NewWindow, TypeOK
<1> HIDE DEF q
<1> QED BY <1>2, <1>3, <1>4, FlagStepInv DEF NewWindow

LEMMA PersistDoneInv ==
  ASSUME WsInv, NEW s \in Sockets, PersistDone(s) PROVE WsInv'
<1> DEFINE q == [sock[s] EXCEPT !.inflight = sock[s].inflight - 1]
<1>1. TypeOK /\ sock[s] \in Socket
  BY DEF WsInv, TypeOK
<1>2. q \in Socket
  <2>1. sock[s].inflight - 1 \in 0 .. MaxInflight
    BY <1>1, ConstantsAssumption DEF Socket, PersistDone
  <2> QED BY <1>1, <2>1, Locals
<1>3. q.pc = sock[s].pc /\ q.found = sock[s].found
  BY <1>1 DEF Socket
<1>4. sock' = [sock EXCEPT ![s] = q] /\ upgrades' \in Nat /\ frames' \in Nat
  BY <1>1 DEF PersistDone, TypeOK
<1> HIDE DEF q
<1> QED BY <1>2, <1>3, <1>4, FlagStepInv DEF PersistDone

LEMMA CloseEventInv ==
  ASSUME WsInv, NEW s \in Sockets, CloseEvent(s) PROVE WsInv'
<1>1. /\ TypeOK /\ Counted /\ Tracked /\ Revoked /\ s \in Live /\ TokenOf[s] \in Tokens
      /\ UNCHANGED <<tokenCache, registered, notified, crossed, upgrades, frames>>
  BY ConstantsAssumption DEF WsInv, CloseEvent
<1>2. /\ sock' \in [Sockets -> Socket] /\ sock'[s] = Unconnected
      /\ \A x \in Sockets : x # s => sock'[x] = sock[x]
  BY <1>1, Locals DEF TypeOK, CloseEvent
<1>3. /\ byToken' \in [Tokens -> SUBSET Sockets]
      /\ byToken'[TokenOf[s]] = byToken[TokenOf[s]] \ {s}
      /\ \A t \in Tokens : t # TokenOf[s] => byToken'[t] = byToken[t]
  BY <1>1 DEF CloseEvent, Cleanup, TypeOK
<1>4. Live' = Live \ {s}
  BY <1>2 DEF Live, Unconnected
<1>5. Counted' /\ total' \in Nat /\ perIp' \in [Ips -> Nat]
  BY <1>1, <1>4, CountedAfterCleanup DEF CloseEvent, Cleanup
<1>6. TypeOK'
  BY <1>1, <1>2, <1>3, <1>5 DEF TypeOK
<1>7. Tracked'
  <2>1. ASSUME NEW x \in Sockets, sock'[x].pc \in {"open", "closing"}
        PROVE  x \in byToken'[TokenOf[x]]
    <3>1. TokenOf[x] \in Tokens /\ x # s
      BY <1>2, <2>1, ConstantsAssumption DEF Unconnected
    <3> QED BY <1>1, <1>2, <1>3, <2>1, <3>1 DEF Tracked
  <2>2. ASSUME NEW t \in Tokens, NEW x \in byToken'[t] PROVE x \in Live' /\ TokenOf[x] = t
    <3>1. x \in byToken[t] /\ TokenOf[x] = t /\ x \in Live
      BY <1>1, <1>3, <2>2 DEF Tracked
    <3> QED BY <1>3, <1>4, <2>2, <3>1
  <2> QED BY <2>1, <2>2 DEF Tracked
<1>8. Revoked'
  BY <1>1, <1>2 DEF Revoked, Unconnected
<1> QED BY <1>5, <1>6, <1>7, <1>8 DEF WsInv

-----------------------------------------------------------------------------
(* The admin *)

LEMMA RevokeInDbInv ==
  ASSUME WsInv, NEW t \in Tokens, RevokeInDb(t) PROVE WsInv'
<1>1. TypeOK /\ Counted /\ Tracked /\ Revoked
  BY DEF WsInv
<1>2. Live' = Live
  BY DEF RevokeInDb, Live
<1>3. TypeOK'
  BY <1>1 DEF TypeOK, RevokeInDb
<1>4. Counted'
  BY <1>1, <1>2, CountedWithout DEF RevokeInDb
<1>5. Tracked'
  BY <1>1, <1>2 DEF Tracked, RevokeInDb
<1>6. Revoked'
  BY <1>1 DEF Revoked, RevokeInDb
<1> QED BY <1>3, <1>4, <1>5, <1>6 DEF WsInv

LEMMA NotifyInv ==
  ASSUME WsInv, NEW t \in Tokens, Notify(t) PROVE WsInv'
<1>1. TypeOK /\ Counted /\ Tracked /\ Revoked
  BY DEF WsInv
<1>2. ASSUME NEW s \in Sockets
      PROVE  /\ sock'[s] \in Socket
             /\ s \in byToken[t] => sock'[s].pc = "dead"
             /\ s \notin byToken[t] => sock'[s] = sock[s]
  <2>1. sock'[s] = IF s \in byToken[t] THEN [sock[s] EXCEPT !.pc = "dead"] ELSE sock[s]
    BY DEF Notify, Terminated
  <2>2. sock[s] \in Socket /\ [sock[s] EXCEPT !.pc = "dead"] \in Socket
    BY <1>1, Locals DEF TypeOK
  <2>3. [sock[s] EXCEPT !.pc = "dead"].pc = "dead"
    BY <2>2 DEF Socket
  <2> QED BY <2>1, <2>2, <2>3
<1>3. sock' \in [Sockets -> Socket]
  <2>1. sock' = [s \in Sockets |-> sock'[s]]
    BY DEF Notify, Terminated
  <2> QED BY <1>2, <2>1
<1>4. /\ byToken' \in [Tokens -> SUBSET Sockets] /\ byToken'[t] = {}
      /\ \A x \in Tokens : x # t => byToken'[x] = byToken[x]
      /\ tokenCache' \in [Tokens -> {"yes", "no", "none"}] /\ tokenCache'[t] = "none"
      /\ \A x \in Tokens : x # t => tokenCache'[x] = tokenCache[x]
  BY <1>1 DEF Notify, TypeOK
<1>5. Live' = Live
  <2>1. \A s \in byToken[t] : s \in Live
    BY <1>1 DEF Tracked
  <2> QED BY <1>2, <2>1 DEF Live
<1>6. TypeOK'
  BY <1>1, <1>3, <1>4 DEF TypeOK, Notify
<1>7. Counted'
  BY <1>1, <1>5, CountedWithout DEF Notify
<1>8. Tracked'
  <2>1. ASSUME NEW s \in Sockets, sock'[s].pc \in {"open", "closing"}
        PROVE  s \in byToken'[TokenOf[s]]
    <3>1. s \notin byToken[t] /\ sock'[s] = sock[s] /\ TokenOf[s] \in Tokens
      BY <1>2, <2>1, ConstantsAssumption
    <3>2. s \in byToken[TokenOf[s]]
      BY <1>1, <2>1, <3>1 DEF Tracked
    <3> QED BY <1>4, <3>1, <3>2
  <2>2. ASSUME NEW x \in Tokens, NEW s \in byToken'[x] PROVE s \in Live' /\ TokenOf[s] = x
    BY <1>1, <1>4, <1>5, <2>2 DEF Tracked
  <2> QED BY <2>1, <2>2 DEF Tracked
<1>9. Revoked'
  <2>1. notified' \cap registered' = {}
    BY <1>1 DEF Revoked, Notify
  <2>2. ASSUME NEW x \in notified' \ crossed', x # t
        PROVE  /\ x \in notified \ crossed /\ x \in Tokens
               /\ tokenCache'[x] # "yes"
    BY <1>1, <1>4, <2>2 DEF Revoked, Notify, TypeOK
  <2>3. ASSUME NEW x \in notified' \ crossed', x # t, NEW s \in Sockets, TokenOf[s] = x
        PROVE  sock'[s] = sock[s]
    BY <1>1, <1>2, <2>3 DEF Tracked
  <2>4. ASSUME t \notin crossed', NEW s \in Sockets, TokenOf[s] = t
        PROVE  /\ ~(sock'[s].pc = "answered" /\ sock'[s].found)
               /\ sock'[s].pc \notin {"open", "closing"}
    <3>1. ~(sock[s].pc = "answered" /\ sock[s].found)
      BY <2>4 DEF Notify
    <3>2. sock[s].pc \in {"open", "closing"} => s \in byToken[t]
      BY <1>1, <2>4 DEF Tracked
    <3> QED BY <1>2, <3>1, <3>2
  <2>5. tokenCache'[t] # "yes"
    BY <1>4
  <2> QED BY <1>1, <2>1, <2>2, <2>3, <2>4, <2>5 DEF Revoked
<1> QED BY <1>6, <1>7, <1>8, <1>9 DEF WsInv

-----------------------------------------------------------------------------
(* The theorems *)

LEMMA InitWs == Init => WsInv
<1> SUFFICES ASSUME Init PROVE WsInv
  OBVIOUS
<1>1. Unconnected \in Socket
  <2>1. 0 \in 0 .. MaxRate /\ 0 \in 0 .. MaxInflight
    BY ConstantsAssumption
  <2> QED BY <2>1 DEF Unconnected, Socket
<1>2. TypeOK
  BY <1>1 DEF Init, TypeOK
<1>3. Live = {}
  BY DEF Init, Live, Unconnected
<1>4. Counted
  <2>1. \A i \in Ips : AtIp(i) = {}
    BY <1>3 DEF AtIp
  <2> QED BY <1>3, <2>1, FS_EmptySet DEF Init, Counted
<1>5. Tracked /\ Revoked
  BY <1>3, ConstantsAssumption DEF Init, Tracked, Revoked, Unconnected
<1> QED BY <1>2, <1>4, <1>5 DEF WsInv

LEMMA NextWs == WsInv /\ [Next]_vars => WsInv'
<1> SUFFICES ASSUME WsInv, [Next]_vars PROVE WsInv'
  OBVIOUS
<1>1. ASSUME NEW s \in Sockets,
             \/ UpgradeCached(s) \/ UpgradeLookup(s) \/ Lookup(s) \/ Answer(s)
             \/ PeerVanishes(s) \/ Heartbeat(s) \/ Pong(s) \/ Frame(s) \/ NewWindow(s)
             \/ PersistDone(s) \/ CloseEvent(s)
      PROVE  WsInv'
  BY <1>1, UpgradeCachedInv, UpgradeLookupInv, LookupInv, AnswerInv, PeerVanishesInv, HeartbeatInv,
     PongInv, FrameInv, NewWindowInv, PersistDoneInv, CloseEventInv
<1>2. ASSUME NEW t \in Tokens, CacheExpires(t) \/ RevokeInDb(t) \/ Notify(t) PROVE WsInv'
  BY <1>2, CacheExpiresInv, RevokeInDbInv, NotifyInv
<1>3. CASE UNCHANGED vars
  <2>1. TypeOK'
    BY <1>3 DEF vars, WsInv, TypeOK
  <2> QED BY <1>3, <2>1, BooksKept DEF vars
<1> QED BY <1>1, <1>2, <1>3 DEF Next

LEMMA WsInvImplies == WsInv => CountersExact /\ RevokedStaysOut
<1> SUFFICES ASSUME WsInv PROVE CountersExact /\ RevokedStaysOut
  OBVIOUS
<1>1. \A s \in Sockets : sock[s].inflight \in 0 .. MaxInflight
  BY DEF WsInv, TypeOK, Socket
<1>2. \A i \in Ips : perIp[i] = Cardinality({s \in Live : IpOf[s] = i})
  BY DEF WsInv, Counted, AtIp
<1>3. CountersExact
  BY <1>1, <1>2 DEF WsInv, Counted, Tracked, CountersExact, Live
<1>4. RevokedStaysOut
  BY DEF WsInv, Revoked, RevokedStaysOut, Serving
<1> QED BY <1>3, <1>4

\* What the server counts is what there is: wsConnTotal and wsConnPerIp equal
\* the numbers of connections, and wsByToken holds those that still serve.
THEOREM BooksAreExact == Spec => []CountersExact
<1> QED BY InitWs, NextWs, WsInvImplies, PTL DEF Spec

\* Once the server has been told of a revocation, the token has no connection
\* and no cached acceptance again, unless a lookup crossed it.
THEOREM RevocationHolds == Spec => []RevokedStaysOut
<1> QED BY InitWs, NextWs, WsInvImplies, PTL DEF Spec

\* The sockets and the maps have their types.
THEOREM WsTypesHold == Spec => []TypeOK
<1>1. WsInv => TypeOK
  BY DEF WsInv
<1> QED BY <1>1, InitWs, NextWs, PTL DEF Spec

-----------------------------------------------------------------------------
(* The HTTP checks: what always holds *)

\* The state a url has is what its last page said; before its first page nothing
\* is amiss.
LastLevel(u) == pages[u][Len(pages[u])]
Good(st, u) ==
  pages[u] # <<>> => st.status # "unknown" /\ Level(st.status) = LastLevel(u)

Active == {e \in Evaluators : ev[e].pc # "idle"}

\* Evaluations that may still page the url, and those that may not.
Facing(u) == {e \in Evaluators : u \in ev[e].todo}
Past(u) == {e \in Active : u \notin ev[e].todo}

\* The row, and what will be written to it in order, is in order.
Listed(u) == u \in stored.targets \cup wanted
Settled(u) ==
  Listed(u) =>
    /\ Good(stored.state[u], u)
    /\ \A e \in Past(u) : ~ev[e].stale => Good(ev[e].state[u], u)

\* It is not, and nobody is about to put it right.
Astray(u) == ~Settled(u) /\ \A e \in Past(u) : ~Good(ev[e].state[u], u)

\* The next page of the url repeats none.
Free(u) == Settled(u) /\ \A e \in Facing(u) : Good(ev[e].state[u], u)

Bit(b) == IF b THEN 1 ELSE 0

Owed(u) ==
  IF Facing(u) = {} THEN Bit(Astray(u)) ELSE Cardinality(Facing(u)) - Bit(Free(u))

Paid(u) == Cardinality(Repeats(u)) + Owed(u) <= faults + clobbers + overlaps

\* Where an evaluation, or the route, is says what it holds.
Sound ==
  /\ \A e \in Evaluators :
       /\ ev[e].pc \in {"idle", "probe"}
       /\ ev[e].pc = "idle" => ev[e] = Resting
  /\ editor.pc \in {"idle", "write"} /\ editor.todo = {}

\* Each evaluation in progress but one has been counted when it began.
Crowd == IsFiniteSet(Active) /\ Cardinality(Active) <= 1 + overlaps

\* What is not stale has the targets, and for what it keeps the state, that are
\* stored.
Same(s, t) == s.status = t.status /\ s.raw = t.raw /\ s.streak = t.streak
Current ==
  /\ \A e \in Active : ~ev[e].stale =>
       ev[e].targets = stored.targets /\ ev[e].todo \subseteq stored.targets
         /\ \A u \in Urls : u \in ev[e].todo \/ u \notin stored.targets =>
              Same(ev[e].state[u], stored.state[u])
  /\ editor.pc = "write" =>
       \A u \in Urls :
         IF u \notin editor.targets THEN Same(editor.state[u], Unknown)
         ELSE ~editor.stale => Same(editor.state[u], stored.state[u])

ChecksInv ==
  ChecksTypeOK /\ Sound /\ Crowd /\ Current /\ \A u \in Urls : Paid(u)

\* Nothing has been lost, and what is being written is as it was read.
Quiet == faults = 0 /\ clobbers = 0 /\ overlaps = 0
Backed(s, u) ==
  /\ s.status # "unknown" => observed[u] > 0
  /\ s.raw = "down" => s.streak <= downs[u]
Backing ==
  Quiet =>
    /\ stored.targets = wanted
    /\ \A u \in Urls \ stored.targets : Same(stored.state[u], Unknown)
    /\ Active = {} => \A u \in Urls : Backed(stored.state[u], u)
    /\ \A e \in Active : ~ev[e].stale => \A u \in Urls : Backed(ev[e].state[u], u)

\* Before the first edit, failure or overlap nothing is stale, and a url without a
\* baseline was never paged.
Baselines ==
  Undisturbed =>
    /\ editor.pc = "idle"
    /\ \A e \in Active : ~ev[e].stale
    /\ \A u \in Urls : pages[u] # <<>> =>
         /\ Active = {} => stored.state[u].status # "unknown"
         /\ \A e \in Active : ev[e].state[u].status # "unknown"

-----------------------------------------------------------------------------
(* The types *)

LEMMA States ==
  ASSUME NEW state \in [Urls -> UrlState]
  PROVE  /\ Unknown \in UrlState
         /\ Older(state) \in [Urls -> UrlState]
         /\ \A u \in Urls : Same(Older(state)[u], state[u])
<1>1. Threshold \in Nat /\ Interval \in Nat
  BY ChecksAssumption
<1>2. Unknown \in UrlState
  BY <1>1 DEF Unknown, UrlState
<1>3. ASSUME NEW s \in UrlState
      PROVE  LET o == [s EXCEPT !.age = Lesser(s.age + 1, Interval)] IN
             o \in UrlState /\ Same(o, s)
  <2>1. Lesser(s.age + 1, Interval) \in 0 .. Interval
    BY <1>1 DEF UrlState, Lesser
  <2> QED BY <2>1 DEF UrlState, Same
<1>4. \A u \in Urls : state[u] \in UrlState
  OBVIOUS
<1>5. ASSUME NEW u \in Urls
      PROVE  Older(state)[u] \in UrlState /\ Same(Older(state)[u], state[u])
  <2>1. Older(state)[u] = [state[u] EXCEPT !.age = Lesser(state[u].age + 1, Interval)]
    BY DEF Older
  <2> QED BY <1>3, <1>4, <2>1
<1>6. Older(state) = [u \in Urls |-> Older(state)[u]]
  BY DEF Older
<1> QED BY <1>2, <1>5, <1>6

LEMMA RestingIs ==
  /\ Resting \in Holder
  /\ Resting.pc = "idle" /\ Resting.todo = {} /\ Resting.targets = {} /\ Resting.stale = FALSE
<1>1. [u \in Urls |-> Unknown] \in [Urls -> UrlState]
  <2>1. Unknown \in UrlState
    BY ChecksAssumption DEF Unknown, UrlState
  <2> QED BY <2>1
<1> QED BY <1>1, ChecksAssumption DEF Resting, Holder

\* What time, and a write, leave of what is held.
LEMMA AgedIs ==
  ASSUME NEW q \in Holder
  PROVE  /\ Aged(q) \in Holder
         /\ Aged(q).pc = q.pc /\ Aged(q).todo = q.todo /\ Aged(q).targets = q.targets
         /\ Aged(q).stale = q.stale
         /\ \A u \in Urls : Same(Aged(q).state[u], q.state[u])
         /\ q.pc = "idle" => Aged(q) = q
<1>1. q.state \in [Urls -> UrlState] /\ q.age \in 0 .. Interval /\ Interval \in Nat
  BY ChecksAssumption DEF Holder
<1>2. /\ Older(q.state) \in [Urls -> UrlState]
      /\ \A u \in Urls : Same(Older(q.state)[u], q.state[u])
  BY <1>1, States
<1>3. Lesser(q.age + 1, Interval) \in 0 .. Interval
  BY <1>1 DEF Lesser
<1>4. \A u \in Urls : Same(q.state[u], q.state[u])
  BY DEF Same
<1> DEFINE o == Older(q.state)
           a == Lesser(q.age + 1, Interval)
<1>5. Aged(q) = IF q.pc = "idle" THEN q ELSE [q EXCEPT !.state = o, !.age = a]
  BY DEF Aged
<1> HIDE DEF o, a
<1>6. CASE q.pc = "idle"
  BY <1>4, <1>5, <1>6
<1>7. CASE q.pc # "idle"
  <2>1. [q EXCEPT !.state = o, !.age = a] \in Holder
    BY <1>2, <1>3 DEF Holder, o, a
  <2>2. Aged(q).state = o /\ Aged(q).pc = q.pc /\ Aged(q).todo = q.todo
        /\ Aged(q).targets = q.targets /\ Aged(q).stale = q.stale
    BY <1>5, <1>7 DEF Holder
  <2> QED BY <1>2, <1>5, <1>7, <2>1, <2>2 DEF o
<1> QED BY <1>6, <1>7

LEMMA OutdatedIs ==
  ASSUME NEW q \in Holder
  PROVE  /\ Outdated(q) \in Holder
         /\ Outdated(q).pc = q.pc /\ Outdated(q).todo = q.todo
         /\ Outdated(q).targets = q.targets /\ Outdated(q).state = q.state
         /\ q.pc # "idle" => Outdated(q).stale
         /\ q.pc = "idle" => Outdated(q) = q
BY DEF Outdated, Holder

LEMMA OutcomeIs ==
  ASSUME NEW s \in UrlState, NEW raw \in {"up", "down"}, NEW age \in 0 .. Interval
  PROVE  /\ Confirmed(s, raw) \in {"up", "down"} /\ Streak(s, raw) \in 0 .. Threshold
         /\ Confirmed(s, raw) \in {raw, s.status}
         /\ [status |-> Confirmed(s, raw), raw |-> raw, streak |-> Streak(s, raw), age |-> age]
              \in UrlState
<1>1. /\ Threshold \in Nat \ {0} /\ s.streak \in 0 .. Threshold
      /\ s.status \in {"unknown", "up", "down"}
  BY ChecksAssumption DEF UrlState
<1>2. Streak(s, raw) \in 0 .. Threshold
  BY <1>1 DEF Streak, Lesser
<1>3. Confirmed(s, raw) \in {"up", "down"} /\ Confirmed(s, raw) \in {raw, s.status}
  BY <1>1 DEF Confirmed
<1> QED BY <1>2, <1>3 DEF UrlState

-----------------------------------------------------------------------------
(* What each step does *)

LEMMA TickDoes ==
  ASSUME ChecksTypeOK, Sound, Tick
  PROVE  /\ ChecksTypeOK' /\ Sound'
         /\ UNCHANGED <<site, wanted, downs, observed, pages, counters, clobbers, overlaps>>
         /\ stored'.targets = stored.targets
         /\ \A u \in Urls : Same(stored'.state[u], stored.state[u])
         /\ \A e \in Evaluators :
              /\ ev'[e].pc = ev[e].pc /\ ev'[e].todo = ev[e].todo
              /\ ev'[e].targets = ev[e].targets /\ ev'[e].stale = ev[e].stale
              /\ \A u \in Urls : Same(ev'[e].state[u], ev[e].state[u])
         /\ editor'.pc = editor.pc /\ editor'.targets = editor.targets
         /\ editor'.stale = editor.stale
         /\ \A u \in Urls : Same(editor'.state[u], editor.state[u])
<1>1. UNCHANGED <<site, wanted, downs, observed, pages, counters, clobbers, overlaps>>
  BY DEF Tick
<1>2. /\ stored' \in [targets : SUBSET Urls, state : [Urls -> UrlState]]
      /\ stored'.targets = stored.targets
      /\ \A u \in Urls : Same(stored'.state[u], stored.state[u])
  <2>1. stored.state \in [Urls -> UrlState]
    BY DEF ChecksTypeOK
  <2>2. /\ Older(stored.state) \in [Urls -> UrlState]
        /\ \A u \in Urls : Same(Older(stored.state)[u], stored.state[u])
    BY <2>1, States
  <2>3. stored' = [stored EXCEPT !.state = Older(stored.state)]
    BY DEF Tick
  <2> QED BY <2>2, <2>3 DEF ChecksTypeOK
<1>3. \A e \in Evaluators :
        /\ ev'[e] = Aged(ev[e]) /\ ev'[e] \in Holder
        /\ ev'[e].pc = ev[e].pc /\ ev'[e].todo = ev[e].todo
        /\ ev'[e].targets = ev[e].targets /\ ev'[e].stale = ev[e].stale
        /\ \A u \in Urls : Same(ev'[e].state[u], ev[e].state[u])
        /\ ev[e].pc = "idle" => ev'[e] = ev[e]
  <2> TAKE e \in Evaluators
  <2>1. ev'[e] = Aged(ev[e]) /\ ev[e] \in Holder
    BY DEF Tick, ChecksTypeOK
  <2> QED BY <2>1, AgedIs
<1>4. ev' \in [Evaluators -> Holder]
  BY <1>3 DEF Tick
<1>5. /\ editor' \in Holder
      /\ editor'.pc = editor.pc /\ editor'.targets = editor.targets
      /\ editor'.todo = editor.todo /\ editor'.stale = editor.stale
      /\ \A u \in Urls : Same(editor'.state[u], editor.state[u])
  <2>1. editor' = Aged(editor) /\ editor \in Holder
    BY DEF Tick, ChecksTypeOK
  <2> QED BY <2>1, AgedIs
<1>6. ChecksTypeOK'
  BY <1>1, <1>2, <1>4, <1>5 DEF ChecksTypeOK, counters
<1>7. Sound'
  BY <1>3, <1>5 DEF Sound
<1> QED BY <1>1, <1>2, <1>3, <1>5, <1>6, <1>7

LEMMA FlipDoes ==
  ASSUME ChecksTypeOK, Sound, NEW u \in Urls, SiteFlips(u)
  PROVE  /\ ChecksTypeOK' /\ Sound'
         /\ UNCHANGED <<stored, ev, editor, wanted, downs, observed, pages, blips, edits,
                        faults, clobbers, overlaps>>
<1>1. UNCHANGED <<stored, ev, editor, wanted, downs, observed, pages, blips, edits, faults,
                  clobbers, overlaps>> /\ flips' = flips + 1
  BY DEF SiteFlips
<1>2. site' \in [Urls -> {"up", "down"}]
  BY DEF SiteFlips, ChecksTypeOK
<1>3. ChecksTypeOK'
  BY <1>1, <1>2 DEF ChecksTypeOK
<1> QED BY <1>1, <1>3 DEF Sound

LEMMA EditReadDoes ==
  ASSUME ChecksTypeOK, Sound, NEW t \in SUBSET Urls, EditRead(t)
  PROVE  /\ ChecksTypeOK' /\ Sound'
         /\ UNCHANGED <<stored, ev, wanted, downs, observed, pages, faults, clobbers, overlaps>>
         /\ edits' = edits + 1
         /\ editor'.pc = "write" /\ editor'.targets = t
         /\ \A u \in Urls : editor'.state[u] = IF u \in t THEN stored.state[u] ELSE Unknown
<1>1. UNCHANGED <<site, stored, ev, wanted, downs, observed, pages, flips, blips, faults,
                  clobbers, overlaps>> /\ edits' = edits + 1
  BY DEF EditRead
<1>2. /\ Kept(stored.state, t) \in [Urls -> UrlState]
      /\ \A u \in Urls : Kept(stored.state, t)[u] = IF u \in t THEN stored.state[u] ELSE Unknown
  <2>1. stored.state \in [Urls -> UrlState]
    BY DEF ChecksTypeOK
  <2>2. Unknown \in UrlState
    BY <2>1, States
  <2> QED BY <2>1, <2>2 DEF Kept
<1>3. /\ editor' \in Holder /\ editor'.pc = "write" /\ editor'.targets = t /\ editor'.todo = {}
      /\ editor'.state = Kept(stored.state, t)
  <2>1. editor' = [Resting EXCEPT !.pc = "write", !.targets = t, !.state = Kept(stored.state, t)]
    BY DEF EditRead
  <2> QED BY <1>2, <2>1, RestingIs DEF Holder
<1>4. ChecksTypeOK'
  BY <1>1, <1>3 DEF ChecksTypeOK
<1> QED BY <1>1, <1>2, <1>3, <1>4 DEF Sound

LEMMA EditReadFailsDoes ==
  ASSUME ChecksTypeOK, Sound, NEW t \in SUBSET Urls, EditReadFails(t)
  PROVE  /\ ChecksTypeOK' /\ Sound'
         /\ UNCHANGED <<stored, ev, wanted, downs, observed, pages, faults, clobbers, overlaps>>
         /\ edits' = edits + 1
         /\ editor'.pc = "write" /\ editor'.targets = t /\ editor'.stale
         /\ \A u \in Urls : editor'.state[u] = Unknown
<1>1. UNCHANGED <<site, stored, ev, wanted, downs, observed, pages, flips, blips, faults,
                  clobbers, overlaps>> /\ edits' = edits + 1
  BY DEF EditReadFails
<1>2. /\ editor' \in Holder /\ editor'.pc = "write" /\ editor'.targets = t /\ editor'.todo = {}
      /\ editor'.stale /\ editor'.state = Resting.state
  <2>1. editor' = [Resting EXCEPT !.pc = "write", !.targets = t, !.stale = TRUE]
    BY DEF EditReadFails
  <2> QED BY <2>1, RestingIs DEF Holder
<1>3. ChecksTypeOK'
  BY <1>1, <1>2 DEF ChecksTypeOK
<1> QED BY <1>1, <1>2, <1>3 DEF Sound, Resting

LEMMA EditWriteDoes ==
  ASSUME ChecksTypeOK, Sound, EditWrite
  PROVE  /\ ChecksTypeOK' /\ Sound'
         /\ UNCHANGED <<counters, overlaps>>
         /\ editor.pc = "write" /\ editor'.pc = "idle"
         /\ stored'.targets = editor.targets /\ stored'.state = editor.state
         /\ clobbers' = IF editor.stale THEN clobbers + 1 ELSE clobbers
         /\ wanted' = editor.targets
         /\ \A u \in Urls :
              IF u \in editor.targets \ wanted
              THEN downs'[u] = 0 /\ observed'[u] = 0 /\ pages'[u] = <<>>
              ELSE downs'[u] = downs[u] /\ observed'[u] = observed[u] /\ pages'[u] = pages[u]
         /\ \A e \in Evaluators :
              /\ ev'[e].pc = ev[e].pc /\ ev'[e].todo = ev[e].todo
              /\ ev'[e].state = ev[e].state
              /\ ev[e].pc # "idle" => ev'[e].stale
<1>1. UNCHANGED <<site, counters, overlaps>> /\ editor.pc = "write" /\ editor' = Resting
      /\ wanted' = editor.targets
      /\ stored' = [targets |-> editor.targets, state |-> editor.state]
      /\ clobbers' = IF editor.stale THEN clobbers + 1 ELSE clobbers
  BY DEF EditWrite, Overwrite
<1>2. editor \in Holder /\ Resting \in Holder /\ Resting.pc = "idle" /\ Resting.todo = {}
  BY RestingIs DEF ChecksTypeOK
<1>3. stored' \in [targets : SUBSET Urls, state : [Urls -> UrlState]] /\ wanted' \subseteq Urls
  BY <1>1, <1>2 DEF Holder
<1>4. \A u \in Urls :
        IF u \in editor.targets \ wanted
        THEN downs'[u] = 0 /\ observed'[u] = 0 /\ pages'[u] = <<>>
        ELSE downs'[u] = downs[u] /\ observed'[u] = observed[u] /\ pages'[u] = pages[u]
  BY DEF EditWrite
<1>5. /\ downs' \in [Urls -> 0 .. Threshold] /\ observed' \in [Urls -> 0 .. 2]
      /\ pages' \in [Urls -> Seq(Levels)]
  <2>1. 0 \in 0 .. Threshold /\ 0 \in 0 .. 2 /\ <<>> \in Seq(Levels)
    BY ChecksAssumption
  <2> QED BY <2>1 DEF EditWrite, ChecksTypeOK
<1>6. \A e \in Evaluators :
        /\ ev'[e] \in Holder
        /\ ev'[e].pc = ev[e].pc /\ ev'[e].todo = ev[e].todo /\ ev'[e].state = ev[e].state
        /\ ev[e].pc # "idle" => ev'[e].stale
        /\ ev[e].pc = "idle" => ev'[e] = ev[e]
  <2> TAKE e \in Evaluators
  <2>1. ev'[e] = Outdated(ev[e]) /\ ev[e] \in Holder
    BY DEF EditWrite, ChecksTypeOK
  <2> QED BY <2>1, OutdatedIs
<1>7. ev' \in [Evaluators -> Holder]
  BY <1>6 DEF EditWrite
<1>8. clobbers' \in Nat
  BY <1>1 DEF ChecksTypeOK
<1>9. ChecksTypeOK'
  BY <1>1, <1>2, <1>3, <1>5, <1>7, <1>8 DEF ChecksTypeOK, counters
<1>10. Sound'
  BY <1>1, <1>2, <1>6 DEF Sound
<1> QED BY <1>1, <1>2, <1>4, <1>6, <1>9, <1>10

LEMMA StartDoes ==
  ASSUME ChecksTypeOK, Sound, NEW e \in Evaluators, Start(e)
  PROVE  /\ ChecksTypeOK' /\ Sound'
         /\ UNCHANGED <<site, stored, editor, wanted, downs, observed, pages, counters, clobbers>>
         /\ ev[e].pc = "idle" /\ ev[e].todo = {}
         /\ \A x \in Evaluators \ {e} : ev'[x] = ev[x]
         /\ ev'[e].pc = "probe" /\ ev'[e].todo \subseteq stored.targets /\ ~ev'[e].stale
         /\ ev'[e].targets = stored.targets /\ ev'[e].state = stored.state
         /\ IF \A x \in Evaluators : ev[x].pc = "idle" THEN overlaps' = overlaps
            ELSE overlaps' = overlaps + 1
<1> DEFINE due == {u \in stored.targets : stored.state[u].age >= Interval}
<1>1. /\ UNCHANGED <<site, stored, editor, wanted, downs, observed, pages, counters, clobbers>>
      /\ ev[e].pc = "idle"
      /\ IF \A x \in Evaluators : ev[x].pc = "idle" THEN overlaps' = overlaps
         ELSE overlaps' = overlaps + 1
      /\ ev' = [ev EXCEPT ![e] = [Resting EXCEPT !.pc = "probe", !.todo = due,
                                    !.targets = stored.targets, !.state = stored.state]]
  BY DEF Start
<1>2. ev[e].todo = {}
  BY <1>1, RestingIs DEF Sound
<1>3. due \subseteq stored.targets /\ due \subseteq Urls
  BY DEF ChecksTypeOK
<1> HIDE DEF due
<1>4. /\ ev'[e] = [Resting EXCEPT !.pc = "probe", !.todo = due, !.targets = stored.targets,
                                  !.state = stored.state]
      /\ \A x \in Evaluators \ {e} : ev'[x] = ev[x]
  BY <1>1 DEF ChecksTypeOK
<1>5. /\ ev'[e] \in Holder /\ ev'[e].pc = "probe" /\ ev'[e].todo = due /\ ~ev'[e].stale
      /\ ev'[e].targets = stored.targets /\ ev'[e].state = stored.state
  <2>1. stored.targets \in SUBSET Urls /\ stored.state \in [Urls -> UrlState]
    BY DEF ChecksTypeOK
  <2> QED BY <1>3, <1>4, <2>1, RestingIs DEF Holder
<1>6. ev' \in [Evaluators -> Holder]
  BY <1>1, <1>4, <1>5 DEF ChecksTypeOK
<1>7. overlaps' \in Nat
  BY <1>1 DEF ChecksTypeOK
<1>8. ChecksTypeOK'
  BY <1>1, <1>6, <1>7 DEF ChecksTypeOK, counters
<1>9. Sound'
  BY <1>1, <1>4, <1>5 DEF Sound
<1> QED BY <1>1, <1>2, <1>3, <1>4, <1>5, <1>8, <1>9

\* What a probe of u by e that found raw does.
Probed(e, u, raw) ==
  /\ \A v \in Urls \ {u} : /\ ev'[e].state[v] = ev[e].state[v]
                           /\ pages'[v] = pages[v] /\ downs'[v] = downs[v]
                           /\ observed'[v] = observed[v]
  /\ ev'[e].state[u].status = Confirmed(ev[e].state[u], raw)
  /\ ev'[e].state[u].raw = raw
  /\ ev'[e].state[u].streak = Streak(ev[e].state[u], raw)
  /\ pages'[u] = IF PagesFor(ev[e].state[u], raw) THEN Append(pages[u], Level(raw)) ELSE pages[u]
  /\ downs'[u] = IF raw = "down" THEN Lesser(downs[u] + 1, Threshold) ELSE 0
  /\ observed'[u] = Lesser(observed[u] + 1, 2)

LEMMA ProbeDoes ==
  ASSUME ChecksTypeOK, Sound, NEW e \in Evaluators, NEW u \in Urls, Probe(e, u)
  PROVE  /\ ChecksTypeOK' /\ Sound'
         /\ UNCHANGED <<site, stored, editor, wanted, flips, edits, faults, clobbers, overlaps>>
         /\ ev[e].pc = "probe" /\ u \in ev[e].todo
         /\ \A x \in Evaluators \ {e} : ev'[x] = ev[x]
         /\ ev'[e].pc = "probe" /\ ev'[e].todo = ev[e].todo \ {u}
         /\ ev'[e].targets = ev[e].targets /\ ev'[e].stale = ev[e].stale
         /\ \E raw \in {"up", "down"} : Probed(e, u, raw)
<1> DEFINE s == ev[e].state[u]
<1>1. /\ UNCHANGED <<site, stored, editor, wanted, flips, edits, faults, clobbers, overlaps>>
      /\ ev[e].pc = "probe" /\ u \in ev[e].todo
      /\ observed' = [observed EXCEPT ![u] = Lesser(observed[u] + 1, 2)]
  BY DEF Probe
<1>2. PICK raw \in {"up", "down"} :
        /\ Outcome(u, raw)
        /\ ev' = [ev EXCEPT ![e] = [ev[e] EXCEPT !.todo = ev[e].todo \ {u},
             !.state = [ev[e].state EXCEPT ![u] =
                [status |-> Confirmed(s, raw), raw |-> raw, streak |-> Streak(s, raw),
                 age |-> ev[e].age]]]]
        /\ downs' = [downs EXCEPT ![u] = IF raw = "down" THEN Lesser(downs[u] + 1, Threshold)
                                         ELSE 0]
        /\ pages' = [pages EXCEPT ![u] = IF PagesFor(s, raw) THEN Append(pages[u], Level(raw))
                                         ELSE pages[u]]
  BY DEF Probe
<1>3. ev[e] \in Holder /\ s \in UrlState /\ ev[e].age \in 0 .. Interval
      /\ ev[e].state \in [Urls -> UrlState]
  BY DEF ChecksTypeOK, Holder
<1> DEFINE new == [status |-> Confirmed(s, raw), raw |-> raw, streak |-> Streak(s, raw),
                   age |-> ev[e].age]
<1>4. new \in UrlState
  BY <1>3, OutcomeIs
<1>5. /\ new.status = Confirmed(s, raw) /\ new.raw = raw /\ new.streak = Streak(s, raw)
  OBVIOUS
<1> HIDE DEF new
<1>6. /\ ev'[e] = [ev[e] EXCEPT !.todo = ev[e].todo \ {u},
                                !.state = [ev[e].state EXCEPT ![u] = new]]
      /\ \A x \in Evaluators \ {e} : ev'[x] = ev[x]
  BY <1>2 DEF new, ChecksTypeOK
<1>7. /\ ev'[e] \in Holder /\ ev'[e].pc = "probe" /\ ev'[e].todo = ev[e].todo \ {u}
      /\ ev'[e].targets = ev[e].targets /\ ev'[e].stale = ev[e].stale
      /\ ev'[e].state[u] = new
      /\ \A v \in Urls \ {u} : ev'[e].state[v] = ev[e].state[v]
  <2> DEFINE q == ev[e]
             state == [ev[e].state EXCEPT ![u] = new]
             todo == ev[e].todo \ {u}
  <2>1. /\ state \in [Urls -> UrlState] /\ state[u] = new
        /\ \A v \in Urls \ {u} : state[v] = ev[e].state[v]
    BY <1>3, <1>4
  <2>2. todo \in SUBSET Urls /\ q \in Holder
    BY <1>3 DEF Holder
  <2>3. ev'[e] = [q EXCEPT !.todo = todo, !.state = state]
    BY <1>6
  <2> HIDE DEF q, state, todo
  <2>4. /\ ev'[e] \in Holder /\ ev'[e].pc = q.pc /\ ev'[e].todo = todo
        /\ ev'[e].targets = q.targets /\ ev'[e].stale = q.stale /\ ev'[e].state = state
    BY <2>1, <2>2, <2>3 DEF Holder
  <2> QED BY <1>1, <2>1, <2>4 DEF q, todo
<1>8. ev' \in [Evaluators -> Holder]
  BY <1>2, <1>6, <1>7 DEF ChecksTypeOK
<1>9. blips' \in Nat
  BY <1>2 DEF Outcome, ChecksTypeOK
<1>10. /\ Lesser(downs[u] + 1, Threshold) \in 0 .. Threshold
       /\ Lesser(observed[u] + 1, 2) \in 0 .. 2 /\ Threshold \in Nat
  <2>1. downs[u] \in 0 .. Threshold /\ observed[u] \in 0 .. 2 /\ Threshold \in Nat
    BY ChecksAssumption DEF ChecksTypeOK
  <2>2. \A a, b \in Nat : Lesser(a, b) \in 0 .. b
    BY DEF Lesser
  <2>3. downs[u] + 1 \in Nat /\ observed[u] + 1 \in Nat /\ 2 \in Nat
    BY <2>1
  <2>4. /\ Lesser(downs[u] + 1, Threshold) \in 0 .. Threshold
        /\ Lesser(observed[u] + 1, 2) \in 0 .. 2
    BY <2>1, <2>2, <2>3
  <2> QED BY <2>1, <2>4
<1>11. downs' \in [Urls -> 0 .. Threshold]
  BY <1>2, <1>10 DEF ChecksTypeOK
<1>12. observed' \in [Urls -> 0 .. 2]
  BY <1>1, <1>10 DEF ChecksTypeOK
<1>13. pages' \in [Urls -> Seq(Levels)]
  <2>1. Level(raw) \in Levels
    BY DEF Level, Levels
  <2>2. pages[u] \in Seq(Levels)
    BY DEF ChecksTypeOK
  <2>3. Append(pages[u], Level(raw)) \in Seq(Levels)
    BY <2>1, <2>2
  <2> QED BY <1>2, <2>3 DEF ChecksTypeOK
<1>14. ChecksTypeOK'
  BY <1>1, <1>8, <1>9, <1>11, <1>12, <1>13 DEF ChecksTypeOK
<1>15. Sound'
  BY <1>1, <1>6, <1>7 DEF Sound
<1>16. Probed(e, u, raw)
  <2>1. \A v \in Urls \ {u} : /\ pages'[v] = pages[v] /\ downs'[v] = downs[v]
                              /\ observed'[v] = observed[v]
    BY <1>1, <1>2 DEF ChecksTypeOK
  <2>2. downs'[u] = IF raw = "down" THEN Lesser(downs[u] + 1, Threshold) ELSE 0
    BY <1>2 DEF ChecksTypeOK
  <2>3. observed'[u] = Lesser(observed[u] + 1, 2)
    BY <1>1 DEF ChecksTypeOK
  <2>4. pages'[u] = IF PagesFor(s, raw) THEN Append(pages[u], Level(raw)) ELSE pages[u]
    BY <1>2 DEF ChecksTypeOK
  <2> QED BY <1>5, <1>7, <2>1, <2>2, <2>3, <2>4 DEF Probed
<1> QED BY <1>1, <1>6, <1>7, <1>14, <1>15, <1>16

LEMMA SaveDoes ==
  ASSUME ChecksTypeOK, Sound, NEW e \in Evaluators, Save(e)
  PROVE  /\ ChecksTypeOK' /\ Sound'
         /\ UNCHANGED <<site, wanted, downs, observed, pages, counters, overlaps>>
         /\ ev[e].pc = "probe" /\ ev[e].todo = {}
         /\ ev'[e].pc = "idle" /\ ev'[e].todo = {}
         /\ stored'.targets = ev[e].targets /\ stored'.state = ev[e].state
         /\ clobbers' = IF ev[e].stale THEN clobbers + 1 ELSE clobbers
         /\ \A x \in Evaluators \ {e} :
              /\ ev'[x].pc = ev[x].pc /\ ev'[x].todo = ev[x].todo /\ ev'[x].state = ev[x].state
              /\ ev[x].pc # "idle" => ev'[x].stale
         /\ editor'.pc = editor.pc /\ editor'.targets = editor.targets
         /\ editor'.state = editor.state
         /\ editor.pc # "idle" => editor'.stale
<1>1. /\ UNCHANGED <<site, wanted, downs, observed, pages, counters, overlaps>>
      /\ ev[e].pc = "probe" /\ ev[e].todo = {}
      /\ stored' = [targets |-> ev[e].targets, state |-> ev[e].state]
      /\ clobbers' = IF ev[e].stale THEN clobbers + 1 ELSE clobbers
      /\ ev' = [x \in Evaluators |-> IF x = e THEN Resting ELSE Outdated(ev[x])]
      /\ editor' = Outdated(editor)
  BY DEF Save, Overwrite
<1>2. stored' \in [targets : SUBSET Urls, state : [Urls -> UrlState]]
  <2>1. ev[e] \in Holder
    BY DEF ChecksTypeOK
  <2> QED BY <1>1, <2>1 DEF Holder
<1>3. \A x \in Evaluators \ {e} :
        /\ ev'[x] \in Holder
        /\ ev'[x].pc = ev[x].pc /\ ev'[x].todo = ev[x].todo /\ ev'[x].state = ev[x].state
        /\ ev[x].pc # "idle" => ev'[x].stale
        /\ ev[x].pc = "idle" => ev'[x] = ev[x]
  <2> TAKE x \in Evaluators \ {e}
  <2>1. ev'[x] = Outdated(ev[x]) /\ ev[x] \in Holder
    BY <1>1 DEF ChecksTypeOK
  <2> QED BY <2>1, OutdatedIs
<1>4. ev'[e] = Resting /\ ev'[e] \in Holder /\ ev'[e].pc = "idle" /\ ev'[e].todo = {}
  BY <1>1, RestingIs
<1>5. ev' \in [Evaluators -> Holder]
  <2>1. \A x \in Evaluators : ev'[x] \in Holder
    BY <1>3, <1>4
  <2> QED BY <1>1, <2>1
<1>6. /\ editor' \in Holder /\ editor'.pc = editor.pc /\ editor'.targets = editor.targets
      /\ editor'.todo = editor.todo
      /\ editor'.state = editor.state
      /\ editor.pc # "idle" => editor'.stale
  <2>1. editor \in Holder
    BY DEF ChecksTypeOK
  <2> QED BY <1>1, <2>1, OutdatedIs
<1>7. clobbers' \in Nat
  BY <1>1 DEF ChecksTypeOK
<1>8. ChecksTypeOK'
  BY <1>1, <1>2, <1>5, <1>6, <1>7 DEF ChecksTypeOK, counters
<1>9. Sound'
  BY <1>3, <1>4, <1>6 DEF Sound
<1> QED BY <1>1, <1>3, <1>4, <1>6, <1>8, <1>9

LEMMA FailDoes ==
  ASSUME ChecksTypeOK, Sound, NEW e \in Evaluators, Fail(e)
  PROVE  /\ ChecksTypeOK' /\ Sound'
         /\ UNCHANGED <<site, stored, editor, wanted, downs, observed, pages, flips, blips, edits,
                        clobbers, overlaps>>
         /\ faults' = faults + 1
         /\ ev[e].pc = "probe" /\ ev'[e].pc = "idle" /\ ev'[e].todo = {}
         /\ \A x \in Evaluators \ {e} : ev'[x] = ev[x]
<1>1. /\ UNCHANGED <<site, stored, editor, wanted, downs, observed, pages, flips, blips, edits,
                     clobbers, overlaps>>
      /\ faults' = faults + 1 /\ ev[e].pc = "probe" /\ ev' = [ev EXCEPT ![e] = Resting]
  BY DEF Fail
<1>2. /\ ev'[e] = Resting /\ ev'[e].pc = "idle" /\ ev'[e].todo = {}
      /\ \A x \in Evaluators \ {e} : ev'[x] = ev[x]
      /\ ev' \in [Evaluators -> Holder]
  BY <1>1, RestingIs DEF ChecksTypeOK
<1>3. ChecksTypeOK'
  BY <1>1, <1>2 DEF ChecksTypeOK
<1>4. Sound'
  BY <1>1, <1>2 DEF Sound
<1> QED BY <1>1, <1>2, <1>3, <1>4

LEMMA TypesStep ==
  ASSUME ChecksTypeOK, Sound, [ChecksNext]_checksVars
  PROVE  ChecksTypeOK' /\ Sound'
<1>1. CASE UNCHANGED checksVars
  <2>1. ChecksTypeOK'
    BY <1>1 DEF ChecksTypeOK, checksVars, counters
  <2>2. Sound'
    BY <1>1 DEF Sound, checksVars
  <2> QED BY <2>1, <2>2
<1>2. CASE Tick \/ EditWrite
  BY <1>2, TickDoes, EditWriteDoes
<1>3. ASSUME NEW u \in Urls, SiteFlips(u) PROVE ChecksTypeOK' /\ Sound'
  BY <1>3, FlipDoes
<1>4. ASSUME NEW t \in SUBSET Urls, EditRead(t) \/ EditReadFails(t)
      PROVE  ChecksTypeOK' /\ Sound'
  BY <1>4, EditReadDoes, EditReadFailsDoes
<1>5. ASSUME NEW e \in Evaluators, Start(e) \/ Save(e) \/ Fail(e) PROVE ChecksTypeOK' /\ Sound'
  BY <1>5, StartDoes, SaveDoes, FailDoes
<1>6. ASSUME NEW e \in Evaluators, NEW u \in Urls, Probe(e, u) PROVE ChecksTypeOK' /\ Sound'
  BY <1>6, ProbeDoes
<1> QED BY <1>1, <1>2, <1>3, <1>4, <1>5, <1>6 DEF ChecksNext, Proceed

-----------------------------------------------------------------------------
(* Evaluations in progress, and what they hold *)

LEMMA CrowdStep ==
  ASSUME ChecksTypeOK, Sound, Crowd, [ChecksNext]_checksVars
  PROVE  Crowd'
<1>0. overlaps \in Nat /\ IsFiniteSet(Active) /\ Cardinality(Active) \in Nat
      /\ Cardinality(Active) <= 1 + overlaps
  BY FS_CardinalityType DEF ChecksTypeOK, Crowd
<1>1. ASSUME Active' \in SUBSET Active, overlaps' = overlaps PROVE Crowd'
  <2>1. IsFiniteSet(Active') /\ Cardinality(Active') <= Cardinality(Active)
    BY <1>0, <1>1, FS_Subset
  <2>2. Cardinality(Active') \in Nat
    BY <2>1, FS_CardinalityType
  <2> QED BY <1>0, <1>1, <2>1, <2>2 DEF Crowd
<1>2. ASSUME NEW e \in Evaluators, Start(e) PROVE Crowd'
  <2>1. /\ \A x \in Evaluators \ {e} : ev'[x] = ev[x]
        /\ ev[e].pc = "idle" /\ ev'[e].pc = "probe"
        /\ IF \A x \in Evaluators : ev[x].pc = "idle" THEN overlaps' = overlaps
           ELSE overlaps' = overlaps + 1
    BY <1>2, StartDoes
  <2>2. Active' = Active \cup {e} /\ e \notin Active
    BY <2>1 DEF Active
  <2>3. IsFiniteSet(Active') /\ Cardinality(Active') = Cardinality(Active) + 1
    BY <1>0, <2>2, FS_AddElement
  <2>4. CASE Active = {}
    <3>1. overlaps' = overlaps
      BY <2>1, <2>4 DEF Active
    <3>2. Cardinality(Active) = 0
      BY <2>4, FS_EmptySet
    <3> QED BY <1>0, <2>3, <3>1, <3>2 DEF Crowd
  <2>5. CASE Active # {}
    <3>1. overlaps' = overlaps + 1
      BY <2>1, <2>5 DEF Active
    <3> QED BY <1>0, <2>3, <3>1 DEF Crowd
  <2> QED BY <2>4, <2>5
<1>3. ASSUME NEW e \in Evaluators, Save(e) \/ Fail(e) PROVE Crowd'
  <2>1. overlaps' = overlaps /\ Active' \in SUBSET Active
    <3>1. CASE Save(e)
      BY <3>1, SaveDoes DEF Active
    <3>2. CASE Fail(e)
      BY <3>2, FailDoes DEF Active
    <3> QED BY <1>3, <3>1, <3>2
  <2> QED BY <1>1, <2>1
<1>4. ASSUME NEW e \in Evaluators, NEW u \in Urls, Probe(e, u) PROVE Crowd'
  <2>1. overlaps' = overlaps /\ Active' \in SUBSET Active
    BY <1>4, ProbeDoes DEF Active
  <2> QED BY <1>1, <2>1
<1>5. CASE Tick
  <2>1. overlaps' = overlaps /\ Active' \in SUBSET Active
    BY <1>5, TickDoes DEF Active
  <2> QED BY <1>1, <2>1
<1>6. CASE EditWrite
  <2>1. overlaps' = overlaps /\ Active' \in SUBSET Active
    BY <1>6, EditWriteDoes DEF Active
  <2> QED BY <1>1, <2>1
<1>7. CASE \/ UNCHANGED checksVars \/ \E u \in Urls : SiteFlips(u)
           \/ \E t \in SUBSET Urls : EditRead(t) \/ EditReadFails(t)
  <2>1. overlaps' = overlaps /\ Active' \in SUBSET Active
    BY <1>7 DEF Active, checksVars, SiteFlips, EditRead, EditReadFails
  <2> QED BY <1>1, <2>1
<1> QED BY <1>2, <1>3, <1>4, <1>5, <1>6, <1>7 DEF ChecksNext, Proceed

\* Until two overlap, one evaluation at most is in progress.
LEMMA Alone ==
  ASSUME ChecksTypeOK, Crowd, overlaps = 0, NEW e \in Active, NEW x \in Active
  PROVE  x = e
<1> SUFFICES ASSUME x # e PROVE FALSE
  OBVIOUS
<1>1. IsFiniteSet({e}) /\ Cardinality({e}) = 1
  BY FS_Singleton
<1>2. IsFiniteSet({e} \cup {x}) /\ Cardinality({e} \cup {x}) = 2
  BY <1>1, FS_AddElement
<1>3. {e} \cup {x} \in SUBSET Active
  OBVIOUS
<1>4. Cardinality({e} \cup {x}) <= Cardinality(Active) /\ Cardinality(Active) \in Nat
  BY <1>3, FS_Subset, FS_CardinalityType DEF Crowd
<1> QED BY <1>2, <1>4 DEF Crowd

\* What Current says of an evaluation, and of the route.
CurrentAt(e) ==
  e \in Active /\ ~ev[e].stale =>
    /\ ev[e].targets = stored.targets /\ ev[e].todo \subseteq stored.targets
    /\ \A u \in Urls : u \in ev[e].todo \/ u \notin stored.targets =>
         Same(ev[e].state[u], stored.state[u])
CurrentEdit ==
  editor.pc = "write" =>
    \A u \in Urls :
      IF u \notin editor.targets THEN Same(editor.state[u], Unknown)
      ELSE ~editor.stale => Same(editor.state[u], stored.state[u])

LEMMA CurrentParts == Current <=> (\A e \in Evaluators : CurrentAt(e)) /\ CurrentEdit
BY DEF Current, CurrentAt, CurrentEdit, Active

LEMMA CurrentStep ==
  ASSUME ChecksTypeOK, Sound, Current, [ChecksNext]_checksVars
  PROVE  Current'
<1>0. (\A e \in Evaluators : CurrentAt(e)) /\ CurrentEdit
  BY CurrentParts
<1> SUFFICES (\A e \in Evaluators : CurrentAt(e)') /\ CurrentEdit'
  BY DEF Current, CurrentAt, CurrentEdit, Active
<1>1. \A s : Same(s, s)
  BY DEF Same
<1>2. ASSUME UNCHANGED <<stored, ev>> PROVE \A e \in Evaluators : CurrentAt(e)'
  BY <1>0, <1>2 DEF CurrentAt, Active
<1>3. ASSUME UNCHANGED <<stored, editor>> PROVE CurrentEdit'
  BY <1>0, <1>3 DEF CurrentEdit
<1>4. CASE UNCHANGED checksVars \/ \E u \in Urls : SiteFlips(u)
  BY <1>2, <1>3, <1>4 DEF checksVars, SiteFlips
<1>5. CASE Tick
  <2>1. /\ stored'.targets = stored.targets
        /\ \A u \in Urls : Same(stored'.state[u], stored.state[u])
        /\ \A e \in Evaluators :
             /\ ev'[e].pc = ev[e].pc /\ ev'[e].todo = ev[e].todo
             /\ ev'[e].targets = ev[e].targets /\ ev'[e].stale = ev[e].stale
             /\ \A u \in Urls : Same(ev'[e].state[u], ev[e].state[u])
        /\ editor'.pc = editor.pc /\ editor'.targets = editor.targets
        /\ editor'.stale = editor.stale
        /\ \A u \in Urls : Same(editor'.state[u], editor.state[u])
    BY <1>5, TickDoes
  <2>2. ASSUME NEW e \in Evaluators PROVE CurrentAt(e)'
    <3>1. e \in Active' <=> e \in Active
      BY <2>1 DEF Active
    <3>2. CurrentAt(e)
      BY <1>0
    <3> QED BY <2>1, <3>1, <3>2 DEF CurrentAt, Same
  <2>3. CurrentEdit'
    BY <1>0, <2>1 DEF CurrentEdit, Same
  <2> QED BY <2>2, <2>3
<1>6. ASSUME NEW t \in SUBSET Urls, EditRead(t)
      PROVE  (\A e \in Evaluators : CurrentAt(e)') /\ CurrentEdit'
  <2>1. /\ UNCHANGED <<stored, ev>> /\ editor'.targets = t
        /\ \A u \in Urls : editor'.state[u] = IF u \in t THEN stored.state[u] ELSE Unknown
    BY <1>6, EditReadDoes
  <2> QED BY <1>1, <1>2, <2>1 DEF CurrentEdit
<1>12. ASSUME NEW t \in SUBSET Urls, EditReadFails(t)
       PROVE  (\A e \in Evaluators : CurrentAt(e)') /\ CurrentEdit'
  <2>1. /\ UNCHANGED <<stored, ev>> /\ editor'.stale
        /\ \A u \in Urls : editor'.state[u] = Unknown
    BY <1>12, EditReadFailsDoes
  <2> QED BY <1>1, <1>2, <2>1 DEF CurrentEdit
<1>7. CASE EditWrite
  <2>1. /\ editor'.pc = "idle"
        /\ \A e \in Evaluators : ev'[e].pc = ev[e].pc /\ (ev[e].pc # "idle" => ev'[e].stale)
    BY <1>7, EditWriteDoes
  <2> QED BY <2>1 DEF CurrentAt, CurrentEdit, Active
<1>8. ASSUME NEW e \in Evaluators, Start(e)
      PROVE  (\A x \in Evaluators : CurrentAt(x)') /\ CurrentEdit'
  <2>1. /\ UNCHANGED <<stored, editor>>
        /\ \A x \in Evaluators \ {e} : ev'[x] = ev[x]
        /\ ev'[e].todo \subseteq stored.targets
        /\ ev'[e].targets = stored.targets /\ ev'[e].state = stored.state
    BY <1>8, StartDoes
  <2>2. CurrentAt(e)'
    BY <1>1, <2>1 DEF CurrentAt
  <2>3. \A x \in Evaluators \ {e} : CurrentAt(x)'
    BY <1>0, <2>1 DEF CurrentAt, Active
  <2> QED BY <1>3, <2>1, <2>2, <2>3
<1>9. ASSUME NEW e \in Evaluators, NEW u \in Urls, Probe(e, u)
      PROVE  (\A x \in Evaluators : CurrentAt(x)') /\ CurrentEdit'
  <2>1. /\ UNCHANGED <<stored, editor>> /\ ev[e].pc = "probe" /\ u \in ev[e].todo
        /\ \A x \in Evaluators \ {e} : ev'[x] = ev[x]
        /\ ev'[e].todo = ev[e].todo \ {u}
        /\ ev'[e].targets = ev[e].targets /\ ev'[e].stale = ev[e].stale
        /\ \A v \in Urls \ {u} : ev'[e].state[v] = ev[e].state[v]
    BY <1>9, ProbeDoes DEF Probed
  <2>2. CurrentAt(e)'
    <3>1. ASSUME ~ev[e].stale
          PROVE  /\ ev[e].targets = stored.targets /\ ev[e].todo \subseteq stored.targets
                 /\ \A v \in Urls : v \in ev[e].todo \/ v \notin stored.targets =>
                      Same(ev[e].state[v], stored.state[v])
      BY <1>0, <2>1, <3>1 DEF CurrentAt, Active
    <3>2. ASSUME ~ev[e].stale, NEW v \in Urls, v \in ev'[e].todo \/ v \notin stored.targets
          PROVE  Same(ev'[e].state[v], stored.state[v])
      <4>1. v # u /\ (v \in ev[e].todo \/ v \notin stored.targets)
        BY <2>1, <3>1, <3>2
      <4> QED BY <2>1, <3>1, <3>2, <4>1
    <3> QED BY <2>1, <3>1, <3>2 DEF CurrentAt
  <2>3. \A x \in Evaluators \ {e} : CurrentAt(x)'
    BY <1>0, <2>1 DEF CurrentAt, Active
  <2> QED BY <1>3, <2>1, <2>2, <2>3
<1>10. ASSUME NEW e \in Evaluators, Save(e)
       PROVE  (\A x \in Evaluators : CurrentAt(x)') /\ CurrentEdit'
  <2>1. /\ ev'[e].pc = "idle"
        /\ \A x \in Evaluators \ {e} : ev'[x].pc = ev[x].pc /\ (ev[x].pc # "idle" => ev'[x].stale)
        /\ editor'.pc = editor.pc /\ editor'.targets = editor.targets
        /\ editor'.state = editor.state /\ (editor.pc # "idle" => editor'.stale)
    BY <1>10, SaveDoes
  <2>2. \A x \in Evaluators : CurrentAt(x)'
    <3>1. ASSUME NEW x \in Evaluators, x \in Active' PROVE ev'[x].stale
      BY <2>1, <3>1 DEF Active
    <3> QED BY <3>1 DEF CurrentAt
  <2>3. CurrentEdit'
    BY <1>0, <2>1 DEF CurrentEdit
  <2> QED BY <2>2, <2>3
<1>11. ASSUME NEW e \in Evaluators, Fail(e)
       PROVE  (\A x \in Evaluators : CurrentAt(x)') /\ CurrentEdit'
  <2>1. /\ UNCHANGED <<stored, editor>> /\ ev'[e].pc = "idle"
        /\ \A x \in Evaluators \ {e} : ev'[x] = ev[x]
    BY <1>11, FailDoes
  <2>2. \A x \in Evaluators : CurrentAt(x)'
    BY <1>0, <2>1 DEF CurrentAt, Active
  <2> QED BY <1>3, <2>1, <2>2
<1> QED BY <1>4, <1>5, <1>6, <1>7, <1>8, <1>9, <1>10, <1>11, <1>12 DEF ChecksNext, Proceed

-----------------------------------------------------------------------------
(* Repeated pages *)

LEMMA Amounts ==
  ASSUME ChecksTypeOK, Sound, Crowd, NEW u \in Urls
  PROVE  /\ IsFiniteSet(Repeats(u)) /\ Cardinality(Repeats(u)) \in Nat
         /\ Facing(u) \subseteq Active /\ IsFiniteSet(Facing(u)) /\ Cardinality(Facing(u)) \in Nat
         /\ IF Facing(u) = {} THEN Owed(u) \in 0 .. 1
            ELSE /\ Cardinality(Facing(u)) >= 1
                 /\ Owed(u) \in {Cardinality(Facing(u)) - 1, Cardinality(Facing(u))}
                 /\ Owed(u) = Cardinality(Facing(u)) - 1 <=> Free(u)
         /\ Owed(u) \in Nat
         /\ faults \in Nat /\ clobbers \in Nat /\ overlaps \in Nat
<1>1. IsFiniteSet(Repeats(u)) /\ Cardinality(Repeats(u)) \in Nat
  <2>1. Len(pages[u]) \in Nat /\ Repeats(u) \in SUBSET (1 .. (Len(pages[u]) - 1))
    BY DEF ChecksTypeOK, Repeats
  <2>2. IsFiniteSet(1 .. (Len(pages[u]) - 1))
    BY <2>1, FS_Interval
  <2>3. IsFiniteSet(Repeats(u))
    BY <2>1, <2>2, FS_Subset
  <2> QED BY <2>3, FS_CardinalityType
<1>2. Facing(u) \subseteq Active
  BY RestingIs DEF Facing, Active, Sound
<1>3. IsFiniteSet(Facing(u)) /\ Cardinality(Facing(u)) \in Nat
  BY <1>2, FS_Subset, FS_CardinalityType DEF Crowd
<1>4. Facing(u) # {} => Cardinality(Facing(u)) >= 1
  <2>1. Cardinality(Facing(u)) = 0 <=> Facing(u) = {}
    BY <1>3, FS_EmptySet
  <2> QED BY <1>3, <2>1
<1>5. Bit(Astray(u)) \in 0 .. 1 /\ Bit(Free(u)) \in 0 .. 1 /\ (Bit(Free(u)) = 1 <=> Free(u))
  BY DEF Bit
<1> DEFINE k == Cardinality(Facing(u))
           f == Bit(Free(u))
<1>6. Owed(u) = IF Facing(u) = {} THEN Bit(Astray(u)) ELSE k - f
  BY DEF Owed
<1>7. k \in Nat /\ f \in 0 .. 1 /\ (f = 1 <=> Free(u)) /\ (Facing(u) # {} => k >= 1)
  BY <1>3, <1>4, <1>5
<1> HIDE DEF k, f
<1>8. IF Facing(u) = {} THEN Owed(u) \in 0 .. 1
      ELSE k >= 1 /\ Owed(u) \in {k - 1, k} /\ (Owed(u) = k - 1 <=> Free(u))
  <2>1. CASE Facing(u) = {}
    BY <1>5, <1>6, <2>1
  <2>2. CASE Facing(u) # {}
    <3>1. Owed(u) = k - f
      BY <1>6, <2>2
    <3>2. Owed(u) \in {k - 1, k} /\ (Owed(u) = k - 1 <=> f = 1)
      BY <1>7, <3>1
    <3> QED BY <1>7, <2>2, <3>2
  <2> QED BY <2>1, <2>2
<1>9. Owed(u) \in Nat
  <2>1. CASE Facing(u) = {}
    BY <1>8, <2>1
  <2>2. CASE Facing(u) # {}
    BY <1>7, <1>8, <2>2
  <2> QED BY <2>1, <2>2
<1>10. faults \in Nat /\ clobbers \in Nat /\ overlaps \in Nat
  BY DEF ChecksTypeOK
<1> QED BY <1>1, <1>2, <1>3, <1>8, <1>9, <1>10 DEF k

\* What is owed after a step that leaves the same evaluations facing the url.
LEMMA OwedByTheSame ==
  ASSUME ChecksTypeOK, Sound, Crowd, NEW u \in Urls, Facing(u)' = Facing(u)
  PROVE  /\ Owed(u)' \in Nat /\ Owed(u)' <= Owed(u) + 1
         /\ /\ Facing(u) = {} => (Astray(u)' => Astray(u))
            /\ Facing(u) # {} => (Free(u) => Free(u)')
            => Owed(u)' <= Owed(u)
<1> DEFINE k == Cardinality(Facing(u))
           f == Bit(Free(u))
           g == Bit(Free(u))'
           a == Bit(Astray(u))
           b == Bit(Astray(u))'
<1>1. /\ Owed(u) = IF Facing(u) = {} THEN a ELSE k - f
      /\ Owed(u)' = IF Facing(u) = {} THEN b ELSE k - g
  BY DEF Owed
<1>2. k \in Nat /\ (Facing(u) # {} => k >= 1)
  BY Amounts
<1>3. /\ a \in 0 .. 1 /\ b \in 0 .. 1 /\ f \in 0 .. 1 /\ g \in 0 .. 1
      /\ (Astray(u)' => Astray(u)) => b <= a
      /\ (Free(u) => Free(u)') => f <= g
  BY DEF Bit
<1> HIDE DEF k, f, g, a, b
<1>4. CASE Facing(u) = {}
  <2>1. Owed(u)' = b /\ Owed(u) = a
    BY <1>1, <1>4
  <2>2. b \in Nat /\ b <= a + 1
    BY <1>3
  <2> QED BY <1>3, <1>4, <2>1, <2>2
<1>5. CASE Facing(u) # {}
  <2>1. Owed(u)' = k - g /\ Owed(u) = k - f
    BY <1>1, <1>5
  <2>2. k - g \in Nat /\ k - g <= (k - f) + 1
    BY <1>2, <1>3, <1>5
  <2>3. f <= g => k - g <= k - f
    BY <1>2, <1>3
  <2> QED BY <1>3, <1>5, <2>1, <2>2, <2>3
<1> QED BY <1>4, <1>5

\* What is owed once an evaluation no longer faces the url.
LEMMA OwedByOneLess ==
  ASSUME ChecksTypeOK, Sound, Crowd, NEW u \in Urls, NEW e \in Evaluators,
         e \in Facing(u), Facing(u)' = Facing(u) \ {e}
  PROVE  /\ Owed(u)' \in Nat /\ Owed(u)' <= Owed(u) + 1
         /\ Facing(u)' # {} => Owed(u)' <= Owed(u) /\ (~Free(u) => Owed(u)' + 1 <= Owed(u))
         /\ Facing(u)' = {} => /\ Owed(u)' \in 0 .. 1 /\ (~Astray(u)' => Owed(u)' = 0)
                               /\ (~Free(u) => Owed(u) = 1)
<1> DEFINE k == Cardinality(Facing(u))
           f == Bit(Free(u))
           g == Bit(Free(u))'
           b == Bit(Astray(u))'
<1>1. k \in Nat /\ k >= 1 /\ IsFiniteSet(Facing(u))
  BY Amounts
<1>2. Cardinality(Facing(u) \ {e}) = k - 1 /\ IsFiniteSet(Facing(u) \ {e})
  BY <1>1, FS_RemoveElement
<1>3. /\ Owed(u) = k - f
      /\ Facing(u)' # {} => Owed(u)' = (k - 1) - g
      /\ Facing(u)' = {} => Owed(u)' = b
  BY <1>2 DEF Owed
<1>4. /\ b \in 0 .. 1 /\ f \in 0 .. 1 /\ g \in 0 .. 1
      /\ (~Astray(u)' => b = 0) /\ (~Free(u) => f = 0)
  BY DEF Bit
<1>5. k - 1 = 0 <=> Facing(u)' = {}
  BY <1>2, FS_EmptySet
<1> HIDE DEF k, f, g, b
<1>6. CASE Facing(u)' = {}
  <2>1. Owed(u)' = b /\ Owed(u) = 1 - f
    BY <1>1, <1>3, <1>5, <1>6
  <2> QED BY <1>4, <1>6, <2>1
<1>7. CASE Facing(u)' # {}
  <2>1. Owed(u)' = (k - 1) - g /\ Owed(u) = k - f /\ k >= 2
    BY <1>1, <1>3, <1>5, <1>7
  <2>2. /\ (k - 1) - g \in Nat /\ (k - 1) - g <= k - f
        /\ f = 0 => ((k - 1) - g) + 1 <= k - f
    BY <1>1, <1>4, <2>1
  <2>3. (k - 1) - g <= (k - f) + 1
    BY <1>1, <1>4
  <2> QED BY <1>4, <1>7, <2>1, <2>2, <2>3
<1> QED BY <1>6, <1>7

\* A page more repeats one at most, and only the last.
LEMMA OnePageMore ==
  ASSUME ChecksTypeOK, Sound, Crowd, NEW u \in Urls, NEW level \in Levels,
         pages'[u] = Append(pages[u], level)
  PROVE  /\ LastLevel(u)' = level /\ pages'[u] # <<>>
         /\ Cardinality(Repeats(u)') \in Nat
         /\ \/ Cardinality(Repeats(u)') <= Cardinality(Repeats(u))
            \/ /\ Cardinality(Repeats(u)') <= Cardinality(Repeats(u)) + 1
               /\ pages[u] # <<>> /\ LastLevel(u) = level
<1> DEFINE p == pages[u]
           k == Len(pages[u])
<1>1. p \in Seq(Levels) /\ k \in Nat /\ IsFiniteSet(Repeats(u)) /\ Cardinality(Repeats(u)) \in Nat
  BY Amounts DEF ChecksTypeOK
<1>2. /\ Len(Append(p, level)) = k + 1 /\ Append(p, level)[k + 1] = level
      /\ \A i \in 1 .. k : Append(p, level)[i] = p[i]
  BY <1>1
<1>3. LastLevel(u)' = level /\ pages'[u] # <<>>
  BY <1>1, <1>2 DEF LastLevel
<1>4. Repeats(u)' = {i \in 1 .. k : Append(p, level)[i] = Append(p, level)[i + 1]}
  BY <1>1, <1>2 DEF Repeats
<1>5. Repeats(u) = {i \in 1 .. (k - 1) : p[i] = p[i + 1]}
  BY DEF Repeats
<1>6. \A i \in Repeats(u)' : i \in Repeats(u) \/ i = k
  BY <1>1, <1>2, <1>4, <1>5
<1>7. k \in Repeats(u)' => p # <<>> /\ p[k] = level
  <2>1. ASSUME k \in Repeats(u)' PROVE k \in 1 .. k /\ Append(p, level)[k] = Append(p, level)[k + 1]
    BY <1>4, <2>1
  <2>2. ASSUME k \in 1 .. k PROVE p # <<>>
    BY <1>1, <2>2
  <2> QED BY <1>2, <2>1, <2>2
<1>8. CASE k \in Repeats(u)'
  <2>1. /\ IsFiniteSet(Repeats(u) \cup {k})
        /\ Cardinality(Repeats(u) \cup {k})
             \in {Cardinality(Repeats(u)), Cardinality(Repeats(u)) + 1}
    <3>1. /\ IsFiniteSet(Repeats(u) \cup {k})
          /\ Cardinality(Repeats(u) \cup {k})
               = IF k \in Repeats(u) THEN Cardinality(Repeats(u)) ELSE Cardinality(Repeats(u)) + 1
      BY <1>1, FS_AddElement
    <3> HIDE DEF k
    <3> QED BY <3>1
  <2>2. Repeats(u)' \in SUBSET (Repeats(u) \cup {k})
    BY <1>6
  <2>3. /\ IsFiniteSet(Repeats(u)') /\ Cardinality(Repeats(u)') <= Cardinality(Repeats(u) \cup {k})
        /\ Cardinality(Repeats(u)') \in Nat
    BY <2>1, <2>2, FS_Subset, FS_CardinalityType
  <2>4. Cardinality(Repeats(u)') <= Cardinality(Repeats(u)) + 1
    BY <1>1, <2>1, <2>3
  <2> QED BY <1>3, <1>7, <1>8, <2>3, <2>4 DEF LastLevel
<1>9. CASE k \notin Repeats(u)'
  <2>1. Repeats(u)' \in SUBSET Repeats(u)
    BY <1>6, <1>9
  <2>2. IsFiniteSet(Repeats(u)') /\ Cardinality(Repeats(u)') <= Cardinality(Repeats(u))
    BY <1>1, <2>1, FS_Subset
  <2> QED BY <1>3, <2>2, FS_CardinalityType
<1> QED BY <1>8, <1>9

\* A step that moves nothing of the url owes nothing more.
LEMMA UnmovedPaid ==
  ASSUME ChecksTypeOK, Sound, Crowd, NEW u \in Urls, Paid(u), pages'[u] = pages[u],
         faults' = faults, clobbers' = clobbers, overlaps' = overlaps,
         stored'.targets = stored.targets, wanted' = wanted,
         stored'.state[u].status = stored.state[u].status,
         \A e \in Evaluators : /\ ev'[e].pc = ev[e].pc /\ ev'[e].stale = ev[e].stale
                               /\ u \in ev'[e].todo <=> u \in ev[e].todo
                               /\ ev'[e].state[u].status = ev[e].state[u].status
  PROVE  Paid(u)'
<1>1. Repeats(u)' = Repeats(u) /\ LastLevel(u)' = LastLevel(u)
  BY DEF Repeats, LastLevel
<1>2. Facing(u)' = Facing(u) /\ Past(u)' = Past(u)
  BY DEF Facing, Past, Active
<1>3. \A e \in Evaluators : Good(ev[e].state[u], u)' <=> Good(ev[e].state[u], u)
  BY <1>1 DEF Good
<1>4. Good(stored.state[u], u)' <=> Good(stored.state[u], u)
  BY <1>1 DEF Good
<1>5. \A e \in Past(u) : e \in Evaluators
  BY DEF Past, Active
<1>6. Settled(u)' <=> Settled(u)
  BY <1>2, <1>3, <1>4, <1>5 DEF Settled, Listed
<1>7. (Astray(u)' <=> Astray(u)) /\ (Free(u)' <=> Free(u))
  BY <1>2, <1>3, <1>5, <1>6 DEF Astray, Free, Facing
<1>8. Owed(u)' <= Owed(u) /\ Owed(u)' \in Nat
  BY <1>2, <1>7, OwedByTheSame
<1> QED BY <1>1, <1>8, Amounts DEF Paid

\* The route's write.
LEMMA EditWritePaid ==
  ASSUME ChecksTypeOK, Sound, Crowd, Current, EditWrite, NEW u \in Urls, Paid(u)
  PROVE  Paid(u)'
<1>1. /\ UNCHANGED <<counters, overlaps>> /\ editor.pc = "write"
      /\ stored'.targets = editor.targets /\ stored'.state = editor.state
      /\ clobbers' = IF editor.stale THEN clobbers + 1 ELSE clobbers
      /\ wanted' = editor.targets
      /\ IF u \in editor.targets \ wanted THEN pages'[u] = <<>> ELSE pages'[u] = pages[u]
      /\ \A e \in Evaluators :
           /\ ev'[e].pc = ev[e].pc /\ ev'[e].todo = ev[e].todo /\ ev'[e].state = ev[e].state
           /\ ev[e].pc # "idle" => ev'[e].stale
  BY EditWriteDoes
<1>2. Facing(u)' = Facing(u) /\ Past(u)' = Past(u) /\ faults' = faults /\ overlaps' = overlaps
  BY <1>1 DEF Facing, Past, Active, counters
<1>3. \A e \in Past(u) : ev'[e].stale
  BY <1>1 DEF Past, Active
<1>4. Settled(u)' <=> (u \in editor.targets => Good(stored.state[u], u)')
  BY <1>1, <1>2, <1>3 DEF Settled, Listed
<1>5. CASE u \in editor.targets \ wanted
  <2>1. pages'[u] = <<>> /\ Len(pages'[u]) = 0
    BY <1>1, <1>5
  <2>2. Repeats(u)' = {} /\ Cardinality({}) = 0
    BY <2>1, FS_EmptySet DEF Repeats
  <2>3. Settled(u)' /\ Free(u)' /\ ~Astray(u)'
    BY <1>2, <1>4, <2>1 DEF Good, Free, Astray
  <2>4. Owed(u)' <= overlaps /\ Owed(u)' \in Nat
    <3>1. CASE Facing(u) = {}
      <4>1. Owed(u)' = 0
        BY <1>2, <2>3, <3>1 DEF Owed, Bit
      <4> QED BY <4>1, Amounts
    <3>2. CASE Facing(u) # {}
      <4>1. Owed(u)' = Cardinality(Facing(u)) - 1
        BY <1>2, <2>3, <3>2 DEF Owed, Bit
      <4>2. /\ IsFiniteSet(Active) /\ Cardinality(Active) <= 1 + overlaps
            /\ Cardinality(Active) \in Nat /\ Facing(u) \in SUBSET Active
        BY Amounts, FS_CardinalityType DEF Crowd
      <4>3. Cardinality(Facing(u)) <= Cardinality(Active)
        BY <4>2, FS_Subset
      <4>4. Cardinality(Facing(u)) \in Nat /\ Cardinality(Facing(u)) >= 1 /\ overlaps \in Nat
        BY <3>2, Amounts
      <4> QED BY <4>1, <4>2, <4>3, <4>4
    <3> QED BY <3>1, <3>2
  <2>5. clobbers' \in Nat /\ faults \in Nat /\ overlaps \in Nat
    BY <1>1, Amounts
  <2> QED BY <1>2, <2>2, <2>4, <2>5 DEF Paid
<1>6. CASE u \notin editor.targets \ wanted
  <2>1. pages'[u] = pages[u]
    BY <1>1, <1>6
  <2>2. Repeats(u)' = Repeats(u) /\ LastLevel(u)' = LastLevel(u)
    BY <2>1 DEF Repeats, LastLevel
  <2>3. \A e \in Evaluators : Good(ev[e].state[u], u)' <=> Good(ev[e].state[u], u)
    BY <1>1, <2>1, <2>2 DEF Good
  <2>4. Owed(u)' \in Nat /\ Owed(u)' <= Owed(u) + 1
    BY <1>2, OwedByTheSame
  <2>5. CASE editor.stale
    BY <1>1, <1>2, <2>2, <2>4, <2>5, Amounts DEF Paid
  <2>6. CASE ~editor.stale
    <3>1. Settled(u) => Settled(u)'
      <4>1. SUFFICES ASSUME Settled(u), u \in editor.targets PROVE Good(stored.state[u], u)'
        BY <1>4
      <4>2. Same(editor.state[u], stored.state[u])
        BY <1>1, <2>6, <4>1 DEF Current
      <4>3. Good(stored.state[u], u)
        BY <1>6, <4>1 DEF Settled, Listed
      <4> QED BY <1>1, <2>1, <2>2, <4>2, <4>3 DEF Good, Same
    <3>2. Astray(u)' => Astray(u)
      <4>1. \A e \in Past(u) : e \in Evaluators
        BY DEF Past, Active
      <4> QED BY <1>2, <2>3, <3>1, <4>1 DEF Astray
    <3>3. Free(u) => Free(u)'
      BY <1>2, <2>3, <3>1 DEF Free, Facing
    <3>4. Owed(u)' <= Owed(u)
      BY <1>2, <3>2, <3>3, OwedByTheSame
    <3> QED BY <1>1, <1>2, <2>2, <2>4, <2>6, <3>4, Amounts DEF Paid
  <2> QED BY <2>5, <2>6
<1> QED BY <1>5, <1>6

\* An evaluation that starts.
LEMMA StartPaid ==
  ASSUME ChecksTypeOK, Sound, Crowd, NEW e \in Evaluators, Start(e), NEW u \in Urls, Paid(u)
  PROVE  Paid(u)'
<1>1. /\ UNCHANGED <<stored, wanted, pages, counters, clobbers>>
      /\ ev[e].pc = "idle" /\ ev[e].todo = {}
      /\ \A x \in Evaluators \ {e} : ev'[x] = ev[x]
      /\ ev'[e].pc = "probe" /\ ev'[e].todo \subseteq stored.targets /\ ~ev'[e].stale
      /\ ev'[e].state = stored.state
      /\ IF \A x \in Evaluators : ev[x].pc = "idle" THEN overlaps' = overlaps
         ELSE overlaps' = overlaps + 1
  BY StartDoes
<1>2. Repeats(u)' = Repeats(u) /\ LastLevel(u)' = LastLevel(u) /\ faults' = faults
  BY <1>1 DEF Repeats, LastLevel, counters
<1>3. \A x \in Evaluators \ {e} : Good(ev[x].state[u], u)' <=> Good(ev[x].state[u], u)
  BY <1>1, <1>2 DEF Good
<1>4. /\ Good(stored.state[u], u)' <=> Good(stored.state[u], u)
      /\ Good(ev[e].state[u], u)' <=> Good(stored.state[u], u)
  BY <1>1, <1>2 DEF Good
<1>5. e \notin Facing(u) /\ e \notin Past(u)
  BY <1>1 DEF Facing, Past, Active
<1>6. \A x \in Past(u) : x \in Evaluators \ {e} /\ ev'[x] = ev[x]
  BY <1>1, <1>5 DEF Past, Active
<1>7. CASE u \notin ev'[e].todo
  <2>1. Facing(u)' = Facing(u) /\ Past(u)' = Past(u) \cup {e}
    BY <1>1, <1>7 DEF Facing, Past, Active
  <2>2. Settled(u)' <=> Settled(u)
    BY <1>1, <1>3, <1>4, <1>6, <2>1 DEF Settled, Listed
  <2>3. Astray(u)' => Astray(u)
    BY <1>3, <1>6, <2>1, <2>2 DEF Astray
  <2>4. Free(u) => Free(u)'
    BY <1>3, <1>5, <2>1, <2>2 DEF Free, Facing
  <2>5. Owed(u)' <= Owed(u) /\ Owed(u)' \in Nat
    BY <2>1, <2>3, <2>4, OwedByTheSame
  <2>6. overlaps' >= overlaps /\ overlaps' \in Nat
    BY <1>1, Amounts
  <2> QED BY <1>1, <1>2, <2>5, <2>6, Amounts DEF Paid
<1>8. CASE u \in ev'[e].todo
  <2>1. Facing(u)' = Facing(u) \cup {e} /\ Past(u)' = Past(u) /\ Listed(u) /\ Listed(u)'
    BY <1>1, <1>8 DEF Facing, Past, Active, Listed
  <2>2. Settled(u)' <=> Settled(u)
    BY <1>1, <1>3, <1>4, <1>6, <2>1 DEF Settled
  <2>3. Free(u) => Free(u)'
    BY <1>3, <1>4, <1>5, <2>1, <2>2 DEF Free, Facing, Settled
  <2>4. /\ Cardinality(Facing(u)') = Cardinality(Facing(u)) + 1 /\ Facing(u)' # {}
        /\ Cardinality(Facing(u)) \in Nat
    BY <1>5, <2>1, Amounts, FS_AddElement
  <2>5. /\ Owed(u)' = Cardinality(Facing(u)) + 1 - Bit(Free(u))'
        /\ Bit(Free(u))' \in 0 .. 1 /\ (Free(u)' => Bit(Free(u))' = 1)
    BY <2>4 DEF Owed, Bit
  <2>6. CASE Facing(u) = {}
    <3>1. Owed(u)' = 1 - Bit(Free(u))'
      <4>1. Cardinality(Facing(u)) = 0
        BY <2>6, FS_EmptySet
      <4> QED BY <2>4, <2>5, <4>1
    <3>2. CASE Settled(u)
      <4>1. Free(u)'
        <5>1. Free(u)
          BY <2>6, <3>2 DEF Free
        <5> QED BY <2>3, <5>1
      <4>2. Owed(u)' = 0
        <5>1. Bit(Free(u))' = 1
          BY <4>1 DEF Bit
        <5> QED BY <3>1, <5>1
      <4>3. overlaps' >= overlaps /\ overlaps' \in Nat
        BY <1>1, Amounts
      <4> QED BY <1>1, <1>2, <4>2, <4>3, Amounts DEF Paid
    <3>3. CASE ~Settled(u)
      <4>1. Owed(u)' \in 0 .. 1
        BY <2>5, <3>1
      <4>2. CASE \A x \in Evaluators : ev[x].pc = "idle"
        <5>1. Past(u) = {}
          BY <4>2 DEF Past, Active
        <5>2. Owed(u) = 1
          BY <2>6, <3>3, <5>1 DEF Owed, Astray, Bit
        <5>3. overlaps' = overlaps
          BY <1>1, <4>2
        <5> QED BY <1>1, <1>2, <4>1, <5>2, <5>3, Amounts DEF Paid
      <4>3. CASE ~\A x \in Evaluators : ev[x].pc = "idle"
        <5>1. overlaps' = overlaps + 1
          BY <1>1, <4>3
        <5> QED BY <1>1, <1>2, <4>1, <5>1, Amounts DEF Paid
      <4> QED BY <4>2, <4>3
    <3> QED BY <3>2, <3>3
  <2>7. CASE Facing(u) # {}
    <3>1. overlaps' = overlaps + 1
      <4>1. ~\A x \in Evaluators : ev[x].pc = "idle"
        BY <2>7, RestingIs DEF Facing, Sound
      <4> QED BY <1>1, <4>1
    <3>2. Owed(u)' <= Owed(u) + 1 /\ Owed(u)' \in Nat
      <4>1. Owed(u) = Cardinality(Facing(u)) - Bit(Free(u))
        BY <2>7 DEF Owed
      <4>2. Bit(Free(u)) \in 0 .. 1 /\ Bit(Free(u)) <= Bit(Free(u))'
        BY <2>3 DEF Bit
      <4> QED BY <2>4, <2>5, <4>1, <4>2
    <3> QED BY <1>1, <1>2, <3>1, <3>2, Amounts DEF Paid
  <2> QED BY <2>6, <2>7
<1> QED BY <1>7, <1>8

\* What a probe makes of the state it finds: one in order stays so, a page that
\* repeats the last was sent from a state out of order.
LEMMA ProbeGood ==
  ASSUME ChecksTypeOK, NEW e \in Evaluators, NEW u \in Urls, NEW raw \in {"up", "down"},
         Probed(e, u, raw)
  PROVE  /\ Level(raw) \in Levels
         /\ PagesFor(ev[e].state[u], raw) =>
              /\ pages'[u] = Append(pages[u], Level(raw))
              /\ ev'[e].state[u].status = raw /\ ev[e].state[u].status # "unknown"
              /\ Good(ev[e].state[u], u) /\ pages[u] # <<>> => LastLevel(u) # Level(raw)
         /\ ~PagesFor(ev[e].state[u], raw) =>
              /\ pages'[u] = pages[u]
              /\ Good(ev[e].state[u], u) => Good(ev[e].state[u], u)'
<1> DEFINE s == ev[e].state[u]
<1>1. s \in UrlState
  BY DEF ChecksTypeOK, Holder
<1>2. /\ Confirmed(s, raw) \in {raw, s.status}
      /\ Confirmed(s, raw) \in {"up", "down"}
  BY <1>1, ChecksAssumption, OutcomeIs DEF Confirmed, UrlState
<1>3. ev'[e].state[u].status = Confirmed(s, raw)
      /\ pages'[u] = IF PagesFor(s, raw) THEN Append(pages[u], Level(raw)) ELSE pages[u]
  BY DEF Probed
<1>4. s.status \in {"unknown", "up", "down"}
  BY <1>1 DEF UrlState
<1>5. Level(raw) \in Levels
  BY DEF Level, Levels
<1>6. CASE PagesFor(s, raw)
  <2>1. s.status # "unknown" /\ Confirmed(s, raw) = raw /\ raw # s.status
    BY <1>2, <1>6 DEF PagesFor
  <2>2. Level(s.status) # Level(raw)
    BY <1>4, <2>1 DEF Level
  <2>3. Good(s, u) /\ pages[u] # <<>> => LastLevel(u) # Level(raw)
    BY <2>2 DEF Good
  <2> QED BY <1>3, <1>5, <1>6, <2>1, <2>3
<1>7. CASE ~PagesFor(s, raw)
  <2>1. s.status = "unknown" \/ Confirmed(s, raw) = s.status
    BY <1>7 DEF PagesFor
  <2>2. pages'[u] = pages[u]
    BY <1>3, <1>7
  <2>3. ASSUME Good(s, u) PROVE Good(ev[e].state[u], u)'
    <3>1. pages'[u] # <<>> => s.status # "unknown" /\ Level(s.status) = LastLevel(u)
      BY <2>2, <2>3 DEF Good
    <3>2. LastLevel(u)' = LastLevel(u)
      BY <2>2 DEF LastLevel
    <3> QED BY <1>3, <2>1, <3>1, <3>2 DEF Good
  <2> QED BY <1>5, <1>7, <2>2, <2>3
<1> QED BY <1>6, <1>7

LEMMA ProbePaid ==
  ASSUME ChecksTypeOK, Sound, Crowd, NEW e \in Evaluators, NEW v \in Urls, Probe(e, v),
         NEW u \in Urls, Paid(u)
  PROVE  Paid(u)'
<1>1. /\ UNCHANGED <<stored, wanted, faults, clobbers, overlaps>>
      /\ ev[e].pc = "probe" /\ v \in ev[e].todo
      /\ \A x \in Evaluators \ {e} : ev'[x] = ev[x]
      /\ ev'[e].pc = "probe" /\ ev'[e].todo = ev[e].todo \ {v} /\ ev'[e].stale = ev[e].stale
      /\ \E raw \in {"up", "down"} : Probed(e, v, raw)
  BY ProbeDoes
<1>2. CASE u # v
  <2>1. pages'[u] = pages[u] /\ ev'[e].state[u] = ev[e].state[u]
    BY <1>1, <1>2 DEF Probed
  <2>2. \A x \in Evaluators : /\ ev'[x].pc = ev[x].pc /\ ev'[x].stale = ev[x].stale
                              /\ u \in ev'[x].todo <=> u \in ev[x].todo
                              /\ ev'[x].state[u].status = ev[x].state[u].status
    BY <1>1, <1>2, <2>1
  <2> QED BY <1>1, <2>1, <2>2, UnmovedPaid
<1>3. CASE u = v
  <2> DEFINE s == ev[e].state[u]
  <2>1. PICK raw \in {"up", "down"} : Probed(e, u, raw)
    BY <1>1, <1>3
  <2>2. /\ Facing(u)' = Facing(u) \ {e} /\ e \in Facing(u)
        /\ Past(u)' = Past(u) \cup {e} /\ e \notin Past(u)
    BY <1>1, <1>3 DEF Facing, Past, Active
  <2>3. Free(u) => Good(s, u)
    BY <2>2 DEF Free
  <2>4. CASE PagesFor(s, raw)
    <3>1. /\ pages'[u] = Append(pages[u], Level(raw)) /\ Level(raw) \in Levels
          /\ ev'[e].state[u].status = raw
          /\ Good(s, u) /\ pages[u] # <<>> => LastLevel(u) # Level(raw)
      BY <2>1, <2>4, ProbeGood
    <3>2. /\ LastLevel(u)' = Level(raw) /\ Cardinality(Repeats(u)') \in Nat
          /\ \/ Cardinality(Repeats(u)') <= Cardinality(Repeats(u))
             \/ /\ Cardinality(Repeats(u)') <= Cardinality(Repeats(u)) + 1
                /\ pages[u] # <<>> /\ LastLevel(u) = Level(raw)
      BY <3>1, OnePageMore
    <3>3. Good(ev[e].state[u], u)'
      BY <3>1, <3>2 DEF Good
    <3>4. ~Astray(u)'
      BY <2>2, <3>3 DEF Astray
    <3>5. /\ Cardinality(Repeats(u)') <= Cardinality(Repeats(u))
             \/ /\ Cardinality(Repeats(u)') <= Cardinality(Repeats(u)) + 1
                /\ ~Free(u)
      BY <2>3, <3>1, <3>2
    <3>6. Owed(u)' \in Nat /\ Owed(u)' <= Owed(u) /\ (~Free(u) => Owed(u)' + 1 <= Owed(u))
      <4>1. /\ Owed(u)' \in Nat
            /\ Facing(u)' # {} => Owed(u)' <= Owed(u) /\ (~Free(u) => Owed(u)' + 1 <= Owed(u))
            /\ Facing(u)' = {} => Owed(u)' = 0 /\ (~Free(u) => Owed(u) = 1)
        BY <2>2, <3>4, OwedByOneLess
      <4>2. Owed(u) \in Nat
        BY Amounts
      <4>3. CASE Facing(u)' = {}
        <5>1. Owed(u)' = 0 /\ (~Free(u) => Owed(u) = 1)
          BY <4>1, <4>3
        <5>2. Owed(u) = 1 => Owed(u)' + 1 <= Owed(u)
          BY <5>1
        <5>3. Owed(u)' <= Owed(u)
          BY <4>2, <5>1
        <5> QED BY <4>1, <5>1, <5>2, <5>3
      <4>4. CASE Facing(u)' # {}
        BY <4>1, <4>4
      <4> QED BY <4>3, <4>4
    <3>7. Cardinality(Repeats(u)') + Owed(u)' <= Cardinality(Repeats(u)) + Owed(u)
      <4>1. Cardinality(Repeats(u)) \in Nat /\ Owed(u) \in Nat
        BY Amounts
      <4>2. CASE Cardinality(Repeats(u)') <= Cardinality(Repeats(u))
        BY <3>2, <3>6, <4>1, <4>2
      <4>3. CASE Cardinality(Repeats(u)') <= Cardinality(Repeats(u)) + 1 /\ ~Free(u)
        <5>1. Owed(u)' + 1 <= Owed(u)
          BY <3>6, <4>3
        <5> QED BY <3>2, <3>6, <4>1, <4>3, <5>1
      <4> QED BY <3>5, <4>2, <4>3
    <3> QED BY <1>1, <3>2, <3>6, <3>7, Amounts DEF Paid
  <2>5. CASE ~PagesFor(s, raw)
    <3>1. pages'[u] = pages[u] /\ (Good(s, u) => Good(ev[e].state[u], u)')
      BY <2>1, <2>5, ProbeGood
    <3>2. Repeats(u)' = Repeats(u) /\ LastLevel(u)' = LastLevel(u)
      BY <3>1 DEF Repeats, LastLevel
    <3>3. Free(u) => ~Astray(u)'
      BY <2>2, <2>3, <3>1 DEF Astray
    <3>4. Owed(u)' \in Nat /\ Owed(u)' <= Owed(u)
      <4>1. /\ Owed(u)' \in Nat
            /\ Facing(u)' # {} => Owed(u)' <= Owed(u)
            /\ Facing(u)' = {} => /\ Owed(u)' \in 0 .. 1 /\ (~Astray(u)' => Owed(u)' = 0)
                                  /\ (~Free(u) => Owed(u) = 1)
        BY <2>2, OwedByOneLess
      <4>2. Owed(u) \in Nat
        BY Amounts
      <4>3. CASE Facing(u)' = {} /\ Free(u)
        <5>1. Owed(u)' = 0
          BY <3>3, <4>1, <4>3
        <5> QED BY <4>2, <5>1
      <4>4. CASE Facing(u)' = {} /\ ~Free(u)
        <5>1. Owed(u) = 1 /\ Owed(u)' \in 0 .. 1
          BY <4>1, <4>4
        <5> QED BY <5>1
      <4>5. CASE Facing(u)' # {}
        BY <4>1, <4>5
      <4> QED BY <4>3, <4>4, <4>5
    <3> QED BY <1>1, <3>2, <3>4, Amounts DEF Paid
  <2> QED BY <2>4, <2>5
<1> QED BY <1>2, <1>3

\* An evaluation that writes the row.
LEMMA SavePaid ==
  ASSUME ChecksTypeOK, Sound, Crowd, Current, NEW e \in Evaluators, Save(e), NEW u \in Urls, Paid(u)
  PROVE  Paid(u)'
<1>1. /\ UNCHANGED <<wanted, pages, counters, overlaps>>
      /\ ev[e].pc = "probe" /\ ev[e].todo = {} /\ ev'[e].pc = "idle" /\ ev'[e].todo = {}
      /\ stored'.targets = ev[e].targets /\ stored'.state = ev[e].state
      /\ clobbers' = IF ev[e].stale THEN clobbers + 1 ELSE clobbers
      /\ \A x \in Evaluators \ {e} :
           /\ ev'[x].pc = ev[x].pc /\ ev'[x].todo = ev[x].todo /\ ev'[x].state = ev[x].state
           /\ ev[x].pc # "idle" => ev'[x].stale
  BY SaveDoes
<1>2. Repeats(u)' = Repeats(u) /\ LastLevel(u)' = LastLevel(u) /\ faults' = faults
  BY <1>1 DEF Repeats, LastLevel, counters
<1>3. /\ Facing(u)' = Facing(u) /\ e \notin Facing(u)
      /\ Past(u)' = Past(u) \ {e} /\ e \in Past(u)
  BY <1>1 DEF Facing, Past, Active
<1>4. Owed(u)' \in Nat /\ Owed(u)' <= Owed(u) + 1
  BY <1>3, OwedByTheSame
<1>5. CASE ev[e].stale
  BY <1>1, <1>2, <1>4, <1>5, Amounts DEF Paid
<1>6. CASE ~ev[e].stale
  <2>1. Listed(u)' <=> Listed(u)
    <3>1. stored'.targets = stored.targets
      BY <1>1, <1>6 DEF Current, Active
    <3> QED BY <1>1, <3>1 DEF Listed
  <2>2. \A x \in Past(u) \ {e} : x \in Evaluators /\ ev'[x].stale /\ ev'[x].state = ev[x].state
    BY <1>1 DEF Past, Active
  <2>3. /\ Good(stored.state[u], u)' <=> Good(ev[e].state[u], u)
        /\ \A x \in Evaluators \ {e} : Good(ev[x].state[u], u)' <=> Good(ev[x].state[u], u)
    BY <1>1, <1>2 DEF Good
  <2>4. Settled(u) => Settled(u)'
    BY <1>3, <1>6, <2>1, <2>2, <2>3 DEF Settled
  <2>5. Astray(u)' => Astray(u)
    <3>1. SUFFICES ASSUME Astray(u)' PROVE Astray(u)
      OBVIOUS
    <3>2. ~Settled(u)' /\ ~Settled(u)
      BY <2>4, <3>1 DEF Astray
    <3>3. ~Good(ev[e].state[u], u)
      BY <1>3, <2>2, <2>3, <3>2 DEF Settled
    <3>4. \A x \in Past(u) \ {e} : ~Good(ev[x].state[u], u)
      BY <1>3, <2>2, <2>3, <3>1 DEF Astray
    <3> QED BY <3>2, <3>3, <3>4 DEF Astray
  <2>6. Free(u) => Free(u)'
    BY <1>3, <2>3, <2>4 DEF Free, Facing
  <2>7. Owed(u)' <= Owed(u)
    BY <1>3, <2>5, <2>6, OwedByTheSame
  <2> QED BY <1>1, <1>2, <1>4, <1>6, <2>7, Amounts DEF Paid
<1> QED BY <1>5, <1>6

\* An evaluation that is lost.
LEMMA FailPaid ==
  ASSUME ChecksTypeOK, Sound, Crowd, NEW e \in Evaluators, Fail(e), NEW u \in Urls, Paid(u)
  PROVE  Paid(u)'
<1>1. /\ UNCHANGED <<stored, wanted, pages, clobbers, overlaps>> /\ faults' = faults + 1
      /\ ev[e].pc = "probe" /\ ev'[e].pc = "idle" /\ ev'[e].todo = {}
      /\ \A x \in Evaluators \ {e} : ev'[x] = ev[x]
  BY FailDoes
<1>2. Repeats(u)' = Repeats(u)
  BY <1>1 DEF Repeats
<1>3. Facing(u)' = Facing(u) \ {e}
  BY <1>1 DEF Facing
<1>4. Owed(u)' \in Nat /\ Owed(u)' <= Owed(u) + 1
  <2>1. CASE e \in Facing(u)
    BY <1>3, <2>1, OwedByOneLess
  <2>2. CASE e \notin Facing(u)
    <3>1. Facing(u)' = Facing(u)
      BY <1>3, <2>2
    <3> QED BY <3>1, OwedByTheSame
  <2> QED BY <2>1, <2>2
<1> QED BY <1>1, <1>2, <1>4, Amounts DEF Paid

LEMMA PaidStep ==
  ASSUME ChecksTypeOK, Sound, Crowd, Current, [ChecksNext]_checksVars, NEW u \in Urls, Paid(u)
  PROVE  Paid(u)'
<1>1. CASE Tick
  <2>1. /\ UNCHANGED <<wanted, pages, counters, clobbers, overlaps>>
        /\ stored'.targets = stored.targets
        /\ stored'.state[u].status = stored.state[u].status
        /\ \A e \in Evaluators : /\ ev'[e].pc = ev[e].pc /\ ev'[e].stale = ev[e].stale
                                 /\ ev'[e].todo = ev[e].todo
                                 /\ ev'[e].state[u].status = ev[e].state[u].status
    BY <1>1, TickDoes DEF Same
  <2> QED BY <2>1, UnmovedPaid DEF counters
<1>2. CASE \/ UNCHANGED checksVars \/ \E v \in Urls : SiteFlips(v)
           \/ \E t \in SUBSET Urls : EditRead(t) \/ EditReadFails(t)
  <2>1. UNCHANGED <<stored, ev, wanted, pages, faults, clobbers, overlaps>>
    BY <1>2 DEF checksVars, counters, SiteFlips, EditRead, EditReadFails
  <2> QED BY <2>1, UnmovedPaid
<1>3. ASSUME NEW e \in Evaluators, Start(e) \/ Save(e) \/ Fail(e) PROVE Paid(u)'
  BY <1>3, StartPaid, SavePaid, FailPaid
<1>4. ASSUME NEW e \in Evaluators, NEW v \in Urls, Probe(e, v) PROVE Paid(u)'
  BY <1>4, ProbePaid
<1> QED BY <1>1, <1>2, <1>3, <1>4, EditWritePaid DEF ChecksNext, Proceed

LEMMA ChecksInitInv == ChecksInit => ChecksInv /\ Backing /\ Baselines
<1> SUFFICES ASSUME ChecksInit PROVE ChecksInv /\ Backing /\ Baselines
  OBVIOUS
<1>1. /\ Threshold \in Nat /\ Interval \in Nat /\ Unknown \in UrlState
      /\ Unknown.status = "unknown" /\ Unknown.raw = "none" /\ Unknown.streak = 0
  BY ChecksAssumption DEF Unknown, UrlState
<1>2. ChecksTypeOK
  <2>1. <<>> \in Seq(Levels) /\ 0 \in 0 .. Threshold /\ 0 \in 0 .. 2
    BY <1>1
  <2>2. stored \in [targets : SUBSET Urls, state : [Urls -> UrlState]]
    BY <1>1 DEF ChecksInit
  <2> QED BY <2>1, <2>2, RestingIs DEF ChecksInit, ChecksTypeOK
<1>3. Sound
  BY RestingIs DEF ChecksInit, Sound
<1>4. Active = {} /\ \A u \in Urls : Facing(u) = {}
  BY RestingIs DEF ChecksInit, Active, Facing
<1>5. Crowd
  BY <1>4, FS_EmptySet DEF Crowd, ChecksInit
<1>6. Current
  BY <1>4, RestingIs DEF Current, ChecksInit
<1>7. ASSUME NEW u \in Urls PROVE Paid(u)
  <2>1. Settled(u)
    BY <1>4 DEF Settled, Good, Past, ChecksInit
  <2>2. Owed(u) = 0
    BY <1>4, <2>1 DEF Owed, Astray, Bit
  <2>3. pages[u] = <<>> /\ Len(pages[u]) = 0
    BY DEF ChecksInit
  <2>4. Repeats(u) = {} /\ Cardinality({}) = 0
    BY <2>3, FS_EmptySet DEF Repeats
  <2> QED BY <2>2, <2>4 DEF Paid, ChecksInit
<1>8. Backing
  BY <1>1, <1>4 DEF Backing, Backed, Same, ChecksInit
<1>9. Baselines
  BY <1>4, RestingIs DEF Baselines, ChecksInit
<1> QED BY <1>2, <1>3, <1>5, <1>6, <1>7, <1>8, <1>9 DEF ChecksInv

LEMMA ChecksStep == ChecksInv /\ [ChecksNext]_checksVars => ChecksInv'
<1> SUFFICES ASSUME ChecksInv, [ChecksNext]_checksVars PROVE ChecksInv'
  OBVIOUS
<1>1. ChecksTypeOK /\ Sound /\ Crowd /\ Current /\ \A u \in Urls : Paid(u)
  BY DEF ChecksInv
<1>2. ChecksTypeOK' /\ Sound'
  BY <1>1, TypesStep
<1>3. Crowd' /\ Current'
  BY <1>1, CrowdStep, CurrentStep
<1>4. \A u \in Urls : Paid(u)'
  BY <1>1, PaidStep
<1> QED BY <1>2, <1>3, <1>4 DEF ChecksInv

\* What is repeated has been paid for: every url's pages that say again what the
\* page before said number no more than the failures, the writes that undid
\* another and the evaluations that started while another was in progress.
THEOREM LostWritesPayForRepeats == ChecksSpec => []RepeatsOnlyFromLostWrites
<1>1. ChecksInv => RepeatsOnlyFromLostWrites
  <2> SUFFICES ASSUME ChecksInv, NEW u \in Urls
               PROVE  Cardinality(Repeats(u)) <= faults + clobbers + overlaps
    BY DEF RepeatsOnlyFromLostWrites
  <2> QED BY Amounts DEF ChecksInv, Paid
<1> QED BY <1>1, ChecksInitInv, ChecksStep, PTL DEF ChecksSpec

-----------------------------------------------------------------------------
(* Pages that are earned *)

LEMMA Ranges ==
  ASSUME ChecksTypeOK, NEW e \in Evaluators, NEW u \in Urls
  PROVE  /\ observed[u] \in 0 .. 2 /\ downs[u] \in 0 .. Threshold
         /\ ev[e].state[u] \in UrlState
         /\ ev[e].state[u].status \in {"unknown", "up", "down"}
         /\ ev[e].state[u].streak \in 0 .. Threshold
         /\ Threshold \in Nat \ {0}
<1>1. observed[u] \in 0 .. 2 /\ downs[u] \in 0 .. Threshold /\ ev[e] \in Holder
  BY DEF ChecksTypeOK
<1>2. ev[e].state[u] \in UrlState
  BY <1>1 DEF Holder
<1>3. \A s \in UrlState : s.status \in {"unknown", "up", "down"} /\ s.streak \in 0 .. Threshold
  BY DEF UrlState
<1> QED BY <1>1, <1>2, <1>3, ChecksAssumption

LEMMA BackingStep == ChecksInv /\ Backing /\ [ChecksNext]_checksVars => Backing'
<1> SUFFICES ASSUME ChecksInv, Backing, [ChecksNext]_checksVars, Quiet' PROVE Backing'
  BY DEF Backing
<1>0. /\ ChecksTypeOK /\ Sound /\ Crowd /\ Current
      /\ faults \in Nat /\ clobbers \in Nat /\ overlaps \in Nat
  BY DEF ChecksInv, ChecksTypeOK
<1> DEFINE Held ==
      /\ stored.targets = wanted
      /\ \A u \in Urls \ stored.targets : Same(stored.state[u], Unknown)
      /\ Active = {} => \A u \in Urls : Backed(stored.state[u], u)
      /\ \A e \in Active : ~ev[e].stale => \A u \in Urls : Backed(ev[e].state[u], u)
<1>1. Quiet => Held
  BY DEF Backing
<1>2. Held' => Backing'
  BY DEF Backing
<1>3. CASE \/ UNCHANGED checksVars \/ \E v \in Urls : SiteFlips(v)
           \/ \E t \in SUBSET Urls : EditRead(t) \/ EditReadFails(t)
  <2>1. UNCHANGED <<stored, ev, wanted, downs, observed, faults, clobbers, overlaps>>
    BY <1>3 DEF checksVars, counters, SiteFlips, EditRead, EditReadFails
  <2> QED BY <1>1, <1>2, <2>1 DEF Quiet, Active, Backed
<1>4. CASE Tick
  <2>1. /\ UNCHANGED <<wanted, downs, observed, faults, clobbers, overlaps>>
        /\ stored'.targets = stored.targets
        /\ \A u \in Urls : Same(stored'.state[u], stored.state[u])
        /\ \A e \in Evaluators :
             /\ ev'[e].pc = ev[e].pc /\ ev'[e].stale = ev[e].stale
             /\ \A u \in Urls : Same(ev'[e].state[u], ev[e].state[u])
    BY <1>0, <1>4, TickDoes DEF counters
  <2>2. Held /\ Active' = Active
    BY <1>1, <2>1 DEF Quiet, Active
  <2>3. /\ stored'.targets = wanted'
        /\ \A u \in Urls \ stored'.targets : Same(stored'.state[u], Unknown)
    BY <2>1, <2>2 DEF Same
  <2>4. Active' = {} => \A u \in Urls : Backed(stored.state[u], u)'
    BY <2>1, <2>2 DEF Same, Backed
  <2>5. ASSUME NEW e \in Evaluators, e \in Active', ~ev'[e].stale, NEW u \in Urls
        PROVE  Backed(ev[e].state[u], u)'
    <3>1. Backed(ev[e].state[u], u) /\ Same(ev'[e].state[u], ev[e].state[u])
      BY <2>1, <2>2, <2>5
    <3> QED BY <2>1, <3>1 DEF Same, Backed
  <2> QED BY <1>2, <2>3, <2>4, <2>5 DEF Active
<1>5. CASE EditWrite
  <2>1. /\ UNCHANGED <<counters, overlaps>> /\ editor.pc = "write"
        /\ stored'.targets = editor.targets /\ stored'.state = editor.state
        /\ clobbers' = IF editor.stale THEN clobbers + 1 ELSE clobbers
        /\ wanted' = editor.targets
        /\ \A u \in Urls :
             IF u \in editor.targets \ wanted THEN downs'[u] = 0 /\ observed'[u] = 0
             ELSE downs'[u] = downs[u] /\ observed'[u] = observed[u]
        /\ \A e \in Evaluators : /\ ev'[e].pc = ev[e].pc
                                 /\ ev[e].pc # "idle" => ev'[e].stale
    BY <1>0, <1>5, EditWriteDoes
  <2>2. ~editor.stale /\ Held /\ Active' = Active
    BY <1>0, <1>1, <2>1 DEF Quiet, counters, Active
  <2>3. \A u \in Urls : IF u \in editor.targets THEN Same(editor.state[u], stored.state[u])
                        ELSE Same(editor.state[u], Unknown)
    BY <1>0, <2>1, <2>2 DEF Current
  <2>4. ASSUME Active' = {}, NEW u \in Urls PROVE Backed(stored.state[u], u)'
    <3>1. Unknown.status = "unknown" /\ Unknown.raw = "none"
      BY DEF Unknown
    <3>2. CASE u \in editor.targets \cap wanted
      <4>1. Backed(stored.state[u], u) /\ downs'[u] = downs[u] /\ observed'[u] = observed[u]
        BY <2>1, <2>2, <2>4, <3>2
      <4> QED BY <2>1, <2>3, <3>2, <4>1 DEF Same, Backed
    <3>3. CASE u \notin editor.targets \cap wanted
      <4>1. Same(editor.state[u], Unknown)
        BY <2>2, <2>3, <3>3 DEF Same
      <4> QED BY <2>1, <3>1, <4>1 DEF Same, Backed
    <3> QED BY <3>2, <3>3
  <2> QED BY <1>2, <2>1, <2>3, <2>4 DEF Active
<1>6. ASSUME NEW e \in Evaluators, Start(e) PROVE Backing'
  <2>1. /\ UNCHANGED <<stored, wanted, downs, observed, counters, clobbers>>
        /\ \A x \in Evaluators \ {e} : ev'[x] = ev[x]
        /\ ev'[e].pc = "probe" /\ ev'[e].state = stored.state
        /\ IF \A x \in Evaluators : ev[x].pc = "idle" THEN overlaps' = overlaps
           ELSE overlaps' = overlaps + 1
    BY <1>0, <1>6, StartDoes
  <2>2. \A x \in Evaluators : ev[x].pc = "idle"
    BY <1>0, <2>1 DEF Quiet
  <2>3. Held /\ Active = {}
    BY <1>1, <2>1, <2>2 DEF Quiet, counters, Active
  <2>4. \A x \in Active' : x = e
    BY <2>1, <2>2 DEF Active
  <2>5. e \in Active' /\ \A u \in Urls : Backed(ev[e].state[u], u)'
    BY <2>1, <2>3 DEF Active, Backed
  <2> QED BY <1>2, <2>1, <2>3, <2>4, <2>5
<1>7. ASSUME NEW e \in Evaluators, NEW v \in Urls, Probe(e, v) PROVE Backing'
  <2>1. /\ UNCHANGED <<stored, wanted, faults, clobbers, overlaps>>
        /\ ev[e].pc = "probe" /\ ev'[e].pc = "probe" /\ ev'[e].stale = ev[e].stale
        /\ \A x \in Evaluators \ {e} : ev'[x] = ev[x]
        /\ \E raw \in {"up", "down"} : Probed(e, v, raw)
    BY <1>0, <1>7, ProbeDoes
  <2>2. PICK raw \in {"up", "down"} : Probed(e, v, raw)
    BY <2>1
  <2>3. Held /\ overlaps = 0 /\ e \in Active
    BY <1>1, <2>1 DEF Quiet, Active
  <2>4. Active' = Active /\ \A x \in Active : x = e
    BY <1>0, <2>1, <2>3, Alone DEF Active
  <2>5. ASSUME ~ev[e].stale, NEW u \in Urls PROVE Backed(ev[e].state[u], u)'
    <3>1. Backed(ev[e].state[u], u)
      BY <2>3, <2>5
    <3>2. CASE u # v
      BY <2>2, <3>1, <3>2 DEF Probed, Backed
    <3>3. CASE u = v
      <4>1. /\ observed[u] \in 0 .. 2 /\ downs[u] \in 0 .. Threshold
            /\ ev[e].state[u].streak \in 0 .. Threshold
            /\ Threshold \in Nat \ {0}
        BY <1>0, Ranges
      <4>2. observed'[u] = Lesser(observed[u] + 1, 2)
        BY <2>2, <3>3 DEF Probed
      <4>3. observed'[u] > 0
        BY <4>1, <4>2 DEF Lesser
      <4>4. ev'[e].state[u].raw = raw /\ ev'[e].state[u].streak = Streak(ev[e].state[u], raw)
        BY <2>2, <3>3 DEF Probed
      <4>5. ASSUME raw = "down" PROVE ev'[e].state[u].streak <= downs'[u]
        <5>1. downs'[u] = Lesser(downs[u] + 1, Threshold)
          BY <2>2, <3>3, <4>5 DEF Probed
        <5>2. CASE ev[e].state[u].raw = raw
          <6>1. ev[e].state[u].streak <= downs[u]
            BY <3>1, <4>5, <5>2 DEF Backed
          <6>2. ev'[e].state[u].streak = Lesser(ev[e].state[u].streak + 1, Threshold)
            BY <4>4, <5>2 DEF Streak
          <6> QED BY <4>1, <5>1, <6>1, <6>2 DEF Lesser
        <5>3. CASE ev[e].state[u].raw # raw
          <6>1. ev'[e].state[u].streak = 1
            BY <4>4, <5>3 DEF Streak
          <6> QED BY <4>1, <5>1, <6>1 DEF Lesser
        <5> QED BY <5>2, <5>3
      <4> QED BY <4>3, <4>4, <4>5 DEF Backed
    <3> QED BY <3>2, <3>3
  <2> QED BY <1>2, <2>1, <2>3, <2>4, <2>5
<1>8. ASSUME NEW e \in Evaluators, Save(e) PROVE Backing'
  <2>1. /\ UNCHANGED <<wanted, downs, observed, counters, overlaps>>
        /\ ev[e].pc = "probe" /\ ev[e].todo = {} /\ ev'[e].pc = "idle"
        /\ stored'.targets = ev[e].targets /\ stored'.state = ev[e].state
        /\ clobbers' = IF ev[e].stale THEN clobbers + 1 ELSE clobbers
        /\ \A x \in Evaluators \ {e} :
             /\ ev'[x].pc = ev[x].pc
             /\ ev[x].pc # "idle" => ev'[x].stale
    BY <1>0, <1>8, SaveDoes
  <2>2. ~ev[e].stale /\ Held /\ e \in Active
    BY <1>0, <1>1, <2>1 DEF Quiet, counters, Active
  <2>3. /\ ev[e].targets = stored.targets
        /\ \A u \in Urls \ stored.targets : Same(ev[e].state[u], stored.state[u])
    BY <1>0, <2>2 DEF Current
  <2>4. \A u \in Urls : Backed(stored.state[u], u)'
    BY <2>1, <2>2 DEF Backed
  <2>5. \A x \in Active' : ev'[x].stale
    BY <2>1 DEF Active
  <2>6. \A u \in Urls \ stored'.targets : Same(stored'.state[u], Unknown)
    BY <2>1, <2>2, <2>3 DEF Same
  <2> QED BY <1>2, <2>1, <2>2, <2>3, <2>4, <2>5, <2>6
<1>9. ASSUME NEW e \in Evaluators, Fail(e) PROVE FALSE
  BY <1>0, <1>9, FailDoes DEF Quiet
<1> QED BY <1>3, <1>4, <1>5, <1>6, <1>7, <1>8, <1>9 DEF ChecksNext, Proceed

\* While nothing has been lost and what is written is as it was read, a page is
\* of a target with a baseline, and an alert of one that Threshold probes in a
\* row have found down.
THEOREM ChecksEarnPages == ChecksSpec => PagesEarned
<1>1. ASSUME ChecksInv, Backing, [ChecksNext]_checksVars, NEW u \in Urls,
             Len(pages'[u]) > Len(pages[u]), Quiet, \A e \in Evaluators : ~ev[e].stale
      PROVE  /\ observed'[u] > 1
             /\ pages'[u][Len(pages'[u])] = "alert" => downs'[u] = Threshold
  <2>0. ChecksTypeOK /\ Sound /\ Crowd /\ pages[u] \in Seq(Levels)
    BY <1>1 DEF ChecksInv, ChecksTypeOK
  <2>1. \E e \in Evaluators : \E v \in Urls : Probe(e, v)
    <3>1. ASSUME pages' = pages PROVE FALSE
      BY <1>1, <2>0, <3>1
    <3>2. ASSUME EditWrite PROVE FALSE
      <4>1. pages'[u] = <<>> \/ pages'[u] = pages[u]
        BY <2>0, <3>2, EditWriteDoes
      <4> QED BY <1>1, <2>0, <4>1
    <3>3. CASE UNCHANGED checksVars \/ Tick \/ \E v \in Urls : SiteFlips(v)
      BY <3>1, <3>3 DEF checksVars, Tick, SiteFlips
    <3>4. CASE \/ \E t \in SUBSET Urls : EditRead(t) \/ EditReadFails(t)
               \/ \E e \in Evaluators : Start(e) \/ Save(e) \/ Fail(e)
      BY <3>1, <3>4 DEF EditRead, EditReadFails, Start, Save, Fail
    <3> QED BY <1>1, <3>2, <3>3, <3>4 DEF ChecksNext, Proceed
  <2>2. PICK e \in Evaluators, v \in Urls : Probe(e, v)
    BY <2>1
  <2>3. PICK raw \in {"up", "down"} : Probed(e, v, raw)
    BY <2>0, <2>2, ProbeDoes
  <2> DEFINE s == ev[e].state[u]
  <2>4. u = v
    <3>1. ASSUME u # v PROVE pages'[u] = pages[u]
      BY <2>3, <3>1 DEF Probed
    <3> QED BY <1>1, <2>0, <3>1
  <2>5. PagesFor(s, raw)
    <3>1. ASSUME ~PagesFor(s, raw) PROVE pages'[u] = pages[u]
      BY <2>3, <2>4, <3>1 DEF Probed
    <3> QED BY <1>1, <2>0, <3>1
  <2>6. pages'[u] = Append(pages[u], Level(raw))
    BY <2>3, <2>4, <2>5 DEF Probed
  <2>7. pages'[u][Len(pages'[u])] = Level(raw)
    <3>1. Level(raw) \in Levels
      BY DEF Level, Levels
    <3> QED BY <2>0, <2>6, <3>1
  <2>8. e \in Active /\ ~ev[e].stale
    BY <1>1, <2>2 DEF Probe, Active
  <2>9. Backed(s, u)
    BY <1>1, <2>8 DEF Backing
  <2>10. /\ observed[u] \in 0 .. 2 /\ downs[u] \in 0 .. Threshold /\ s.streak \in 0 .. Threshold
         /\ Threshold \in Nat \ {0}
    BY <2>0, Ranges
  <2>11. observed'[u] > 1
    <3>1. observed[u] > 0 /\ observed'[u] = Lesser(observed[u] + 1, 2)
      BY <2>3, <2>4, <2>5, <2>9 DEF Backed, PagesFor, Probed
    <3> QED BY <2>10, <3>1 DEF Lesser
  <2>12. ASSUME Level(raw) = "alert" PROVE downs'[u] = Threshold
    <3>1. raw = "down"
      BY <2>12 DEF Level
    <3>2. downs'[u] = Lesser(downs[u] + 1, Threshold)
      BY <2>3, <2>4, <3>1 DEF Probed
    <3>3. Streak(s, raw) >= Threshold
      BY <2>5, <3>1 DEF PagesFor, Confirmed, Need
    <3>4. CASE s.raw = raw
      <4>1. s.streak <= downs[u] /\ Lesser(s.streak + 1, Threshold) >= Threshold
        BY <2>9, <3>1, <3>3, <3>4 DEF Backed, Streak
      <4> QED BY <2>10, <3>2, <4>1 DEF Lesser
    <3>5. CASE s.raw # raw
      <4>1. 1 >= Threshold
        BY <3>3, <3>5 DEF Streak
      <4> QED BY <2>10, <3>2, <4>1 DEF Lesser
    <3> QED BY <3>4, <3>5
  <2> QED BY <2>7, <2>11, <2>12
<1>2. ChecksInv /\ Backing /\ [ChecksNext]_checksVars =>
        [\A u \in Urls :
          /\ Len(pages'[u]) > Len(pages[u])
          /\ faults = 0 /\ clobbers = 0 /\ overlaps = 0 /\ \A e \in Evaluators : ~ev[e].stale
          => /\ observed'[u] > 1
             /\ pages'[u][Len(pages'[u])] = "alert" => downs'[u] = Threshold]_checksVars
  BY <1>1 DEF Quiet
<1> QED BY <1>2, ChecksInitInv, ChecksStep, BackingStep, PTL DEF ChecksSpec, PagesEarned

-----------------------------------------------------------------------------
(* The pager *)

LEMMA BaselinesStep == ChecksInv /\ Baselines /\ [ChecksNext]_checksVars => Baselines'
<1> SUFFICES ASSUME ChecksInv, Baselines, [ChecksNext]_checksVars, Undisturbed' PROVE Baselines'
  BY DEF Baselines
<1>0. /\ ChecksTypeOK /\ Sound /\ Crowd /\ edits \in Nat /\ faults \in Nat /\ overlaps \in Nat
  BY DEF ChecksInv, ChecksTypeOK
<1> DEFINE Held ==
      /\ editor.pc = "idle"
      /\ \A e \in Active : ~ev[e].stale
      /\ \A u \in Urls : pages[u] # <<>> =>
           /\ Active = {} => stored.state[u].status # "unknown"
           /\ \A e \in Active : ev[e].state[u].status # "unknown"
<1>1. Undisturbed => Held
  BY DEF Baselines
<1>2. Held' => Baselines'
  BY DEF Baselines
<1>3. CASE UNCHANGED checksVars \/ \E v \in Urls : SiteFlips(v)
  <2>1. UNCHANGED <<stored, ev, editor, pages, edits, faults, overlaps>>
    BY <1>3 DEF checksVars, counters, SiteFlips
  <2> QED BY <1>1, <1>2, <2>1 DEF Undisturbed, Active
<1>4. CASE Tick
  <2>1. /\ UNCHANGED <<pages, edits, faults, overlaps>> /\ editor'.pc = editor.pc
        /\ \A u \in Urls : stored'.state[u].status = stored.state[u].status
        /\ \A e \in Evaluators :
             /\ ev'[e].pc = ev[e].pc /\ ev'[e].stale = ev[e].stale
             /\ \A u \in Urls : ev'[e].state[u].status = ev[e].state[u].status
    BY <1>0, <1>4, TickDoes DEF counters, Same
  <2>2. Held /\ Active' = Active /\ Active \subseteq Evaluators
    BY <1>1, <2>1 DEF Undisturbed, Active
  <2> QED BY <1>2, <2>1, <2>2
<1>5. ASSUME NEW t \in SUBSET Urls, EditRead(t) \/ EditReadFails(t) PROVE FALSE
  BY <1>0, <1>5, EditReadDoes, EditReadFailsDoes DEF Undisturbed
<1>6. ASSUME EditWrite PROVE FALSE
  <2>1. editor.pc = "write" /\ UNCHANGED <<counters, overlaps>>
    BY <1>0, <1>6, EditWriteDoes
  <2> QED BY <1>1, <2>1 DEF Undisturbed, counters
<1>7. ASSUME NEW e \in Evaluators, Start(e) PROVE Baselines'
  <2>1. /\ UNCHANGED <<stored, editor, pages, counters>>
        /\ \A x \in Evaluators \ {e} : ev'[x] = ev[x]
        /\ ev'[e].pc = "probe" /\ ~ev'[e].stale /\ ev'[e].state = stored.state
        /\ IF \A x \in Evaluators : ev[x].pc = "idle" THEN overlaps' = overlaps
           ELSE overlaps' = overlaps + 1
    BY <1>0, <1>7, StartDoes
  <2>2. (\A x \in Evaluators : ev[x].pc = "idle") /\ edits' = edits /\ faults' = faults
    BY <1>0, <2>1 DEF Undisturbed, counters
  <2>3. Held /\ Active = {} /\ Active' = {e}
    BY <1>1, <2>1, <2>2 DEF Undisturbed, Active
  <2> QED BY <1>2, <2>1, <2>3
<1>8. ASSUME NEW e \in Evaluators, NEW v \in Urls, Probe(e, v) PROVE Baselines'
  <2>1. /\ UNCHANGED <<stored, editor, edits, faults, overlaps>>
        /\ ev[e].pc = "probe" /\ ev'[e].pc = "probe" /\ ev'[e].stale = ev[e].stale
        /\ \A x \in Evaluators \ {e} : ev'[x] = ev[x]
        /\ \E raw \in {"up", "down"} : Probed(e, v, raw)
    BY <1>0, <1>8, ProbeDoes
  <2>2. PICK raw \in {"up", "down"} : Probed(e, v, raw)
    BY <2>1
  <2>3. Held /\ overlaps = 0 /\ e \in Active /\ Active' = Active
    BY <1>0, <1>1, <2>1 DEF Undisturbed, Active
  <2>4. \A x \in Active : x = e
    BY <1>0, <2>3, Alone
  <2>5. ASSUME NEW u \in Urls, pages'[u] # <<>> PROVE ev'[e].state[u].status # "unknown"
    <3>1. CASE u = v
      <4>1. ev'[e].state[u].status = Confirmed(ev[e].state[u], raw)
        BY <2>2, <3>1 DEF Probed
      <4>2. ev[e].state[u] \in UrlState
        BY <1>0, Ranges
      <4> QED BY <4>1, <4>2, ChecksAssumption, OutcomeIs DEF Confirmed, UrlState
    <3>2. CASE u # v
      BY <2>2, <2>3, <2>5, <3>2 DEF Probed
    <3> QED BY <3>1, <3>2
  <2> QED BY <1>2, <2>1, <2>3, <2>4, <2>5
<1>9. ASSUME NEW e \in Evaluators, Save(e) PROVE Baselines'
  <2>1. /\ UNCHANGED <<pages, counters, overlaps>> /\ editor'.pc = editor.pc
        /\ ev[e].pc = "probe" /\ ev'[e].pc = "idle" /\ stored'.state = ev[e].state
        /\ \A x \in Evaluators \ {e} : ev'[x].pc = ev[x].pc
    BY <1>0, <1>9, SaveDoes
  <2>2. Held /\ overlaps = 0 /\ e \in Active
    BY <1>0, <1>1, <2>1 DEF Undisturbed, counters, Active
  <2>3. \A x \in Active : x = e
    BY <1>0, <2>2, Alone
  <2>4. Active' = {}
    BY <2>1, <2>3 DEF Active
  <2> QED BY <1>2, <2>1, <2>2, <2>4
<1>10. ASSUME NEW e \in Evaluators, Fail(e) PROVE FALSE
  BY <1>0, <1>10, FailDoes DEF Undisturbed
<1> QED BY <1>3, <1>4, <1>5, <1>6, <1>7, <1>8, <1>9, <1>10 DEF ChecksNext, Proceed

\* What the pager sees of one url.
AlertedAt(u) ==
  /\ Undisturbed
  /\ IF Active = {} THEN stored.state[u].status = "down"
     ELSE \E e \in Active : ev[e].state[u].status = "down"
PagesAt(u) == IF Undisturbed THEN pages[u] ELSE <<>>

UrlByUrl ==
  /\ Alerted = [u \in Urls |-> AlertedAt(u)]
  /\ PagesSeen = [u \in Urls |-> PagesAt(u)]

LEMMA Views == Sound => UrlByUrl
<1> SUFFICES ASSUME Sound PROVE UrlByUrl
  OBVIOUS
<1>1. {e \in Evaluators : ev[e].pc = "probe"} = Active
  BY DEF Sound, Active
<1> QED BY <1>1 DEF UrlByUrl, Alerted, AlertedAt, PagesSeen, PagesAt

LEMMA NothingSeen ==
  ASSUME Sound, Sound', \A u \in Urls : AlertedAt(u)' = AlertedAt(u) /\ PagesAt(u)' = PagesAt(u)
  PROVE  UNCHANGED <<Alerted, PagesSeen>>
<1>1. UrlByUrl /\ UrlByUrl'
  BY Views, PTL
<1> QED BY <1>1 DEF UrlByUrl

\* Urls without pages afterwards, the others as they were.
LEMMA ForgottenSeen ==
  ASSUME Sound, Sound', NEW q \in SUBSET Urls,
         \A u \in q : PagesAt(u)' = <<>>,
         \A u \in Urls \ q : AlertedAt(u)' = AlertedAt(u) /\ PagesAt(u)' = PagesAt(u)
  PROVE  P!Next
<1>1. UrlByUrl /\ UrlByUrl'
  BY Views, PTL
<1>2. \A u \in Urls : AlertedAt(u)' \in BOOLEAN
  BY DEF AlertedAt
<1>3. /\ Alerted' = [u \in Urls |-> AlertedAt(u)'] /\ PagesSeen' = [u \in Urls |-> PagesAt(u)']
      /\ Alerted = [u \in Urls |-> AlertedAt(u)] /\ PagesSeen = [u \in Urls |-> PagesAt(u)]
  BY <1>1 DEF UrlByUrl
<1>4. PagesSeen' = [u \in Urls |-> IF u \in q THEN <<>> ELSE PagesSeen[u]]
  BY <1>3
<1>5. Alerted' \in [Urls -> BOOLEAN] /\ \A u \in Urls \ q : Alerted'[u] = Alerted[u]
  BY <1>2, <1>3
<1>6. P!Forget(q)
  BY <1>4, <1>5 DEF P!Forget
<1> QED BY <1>6 DEF P!Next

\* One url's page.
LEMMA PageSeen ==
  ASSUME Sound, Sound', NEW u \in Urls,
         \A w \in Urls \ {u} : AlertedAt(w)' = AlertedAt(w) /\ PagesAt(w)' = PagesAt(w),
         \/ ~AlertedAt(u) /\ AlertedAt(u)' /\ PagesAt(u)' = Append(PagesAt(u), "alert")
         \/ AlertedAt(u) /\ ~AlertedAt(u)' /\ PagesAt(u)' = Append(PagesAt(u), "recovery")
  PROVE  P!Next
<1>1. UrlByUrl /\ UrlByUrl'
  BY Views, PTL
<1>2. /\ Alerted' = [w \in Urls |-> AlertedAt(w)'] /\ PagesSeen' = [w \in Urls |-> PagesAt(w)']
      /\ Alerted = [w \in Urls |-> AlertedAt(w)] /\ PagesSeen = [w \in Urls |-> PagesAt(w)]
  BY <1>1 DEF UrlByUrl
<1>3. AlertedAt(u)' \in BOOLEAN /\ AlertedAt(u) \in BOOLEAN
  BY DEF AlertedAt
<1>4. ASSUME NEW b \in BOOLEAN, AlertedAt(u)' = b,
             NEW level, PagesAt(u)' = Append(PagesAt(u), level)
      PROVE  /\ Alerted' = [Alerted EXCEPT ![u] = b]
             /\ PagesSeen' = [PagesSeen EXCEPT ![u] = Append(PagesSeen[u], level)]
  BY <1>2, <1>4
<1>5. CASE ~AlertedAt(u) /\ AlertedAt(u)' /\ PagesAt(u)' = Append(PagesAt(u), "alert")
  <2>1. AlertedAt(u)' = TRUE /\ ~Alerted[u]
    BY <1>2, <1>3, <1>5
  <2>2. /\ Alerted' = [Alerted EXCEPT ![u] = TRUE]
        /\ PagesSeen' = [PagesSeen EXCEPT ![u] = Append(PagesSeen[u], "alert")]
    BY <1>4, <1>5, <2>1
  <2>3. P!Raise(u)
    BY <2>1, <2>2 DEF P!Raise, P!Page
  <2> QED BY <2>3 DEF P!Next
<1>6. CASE AlertedAt(u) /\ ~AlertedAt(u)' /\ PagesAt(u)' = Append(PagesAt(u), "recovery")
  <2>1. AlertedAt(u)' = FALSE /\ Alerted[u]
    BY <1>2, <1>3, <1>6
  <2>2. /\ Alerted' = [Alerted EXCEPT ![u] = FALSE]
        /\ PagesSeen' = [PagesSeen EXCEPT ![u] = Append(PagesSeen[u], "recovery")]
    BY <1>4, <1>6, <2>1
  <2>3. P!Clear(u)
    BY <2>1, <2>2 DEF P!Clear, P!Page
  <2> QED BY <2>3 DEF P!Next
<1> QED BY <1>5, <1>6

\* A probe is one page, a silent baseline, or nothing for the pager.
LEMMA ProbeSeen ==
  ASSUME ChecksTypeOK, Sound, Sound', Crowd, Baselines, Undisturbed,
         NEW e \in Evaluators, NEW u \in Urls, Probe(e, u)
  PROVE  P!Next \/ UNCHANGED <<Alerted, PagesSeen>>
<1> DEFINE s == ev[e].state[u]
<1>1. /\ UNCHANGED <<stored, edits, faults, overlaps>>
      /\ ev[e].pc = "probe" /\ ev'[e].pc = "probe"
      /\ \A x \in Evaluators \ {e} : ev'[x] = ev[x]
      /\ \E raw \in {"up", "down"} : Probed(e, u, raw)
  BY ProbeDoes
<1>2. PICK raw \in {"up", "down"} : Probed(e, u, raw)
  BY <1>1
<1>3. /\ overlaps \in Nat /\ edits \in Nat /\ faults \in Nat /\ s \in UrlState
      /\ s.status \in {"unknown", "up", "down"}
  BY Ranges DEF ChecksTypeOK
<1>4. Undisturbed' /\ overlaps = 0
  BY <1>1, <1>3 DEF Undisturbed
<1>5. e \in Active /\ Active' = Active
  BY <1>1 DEF Active
<1>6. Active = {e} /\ Active' = {e}
  BY <1>4, <1>5, Alone
<1>7. \A w \in Urls : /\ AlertedAt(w) <=> ev[e].state[w].status = "down"
                      /\ AlertedAt(w)' <=> ev'[e].state[w].status = "down"
                      /\ PagesAt(w) = pages[w] /\ PagesAt(w)' = pages'[w]
                      /\ AlertedAt(w) \in BOOLEAN /\ AlertedAt(w)' \in BOOLEAN
  BY <1>4, <1>6 DEF AlertedAt, PagesAt
<1>8. \A w \in Urls \ {u} : AlertedAt(w)' = AlertedAt(w) /\ PagesAt(w)' = PagesAt(w)
  BY <1>2, <1>7 DEF Probed
<1>9. CASE PagesFor(s, raw)
  <2>1. /\ pages'[u] = Append(pages[u], Level(raw)) /\ ev'[e].state[u].status = raw
        /\ s.status # "unknown"
    BY <1>2, <1>9, ProbeGood
  <2>2. s.status # raw
    BY <1>2, <1>9, <2>1 DEF PagesFor, Probed
  <2>3. \/ raw = "down" /\ s.status = "up" /\ Level(raw) = "alert"
        \/ raw = "up" /\ s.status = "down" /\ Level(raw) = "recovery"
    BY <1>3, <2>1, <2>2 DEF Level
  <2>4. \/ ~AlertedAt(u) /\ AlertedAt(u)' /\ PagesAt(u)' = Append(PagesAt(u), "alert")
        \/ AlertedAt(u) /\ ~AlertedAt(u)' /\ PagesAt(u)' = Append(PagesAt(u), "recovery")
    BY <1>7, <2>1, <2>3
  <2>5. P!Next
    BY <1>8, <2>4, PageSeen
  <2> QED BY <2>5
<1>10. CASE ~PagesFor(s, raw) /\ s.status = "unknown"
  <2>1. pages'[u] = pages[u] /\ pages[u] = <<>>
    BY <1>2, <1>6, <1>10, ProbeGood DEF Baselines
  <2>2. {u} \in SUBSET Urls /\ \A x \in {u} : PagesAt(x)' = <<>>
    BY <1>7, <2>1
  <2>3. P!Next
    BY <1>8, <2>2, ForgottenSeen
  <2> QED BY <2>3
<1>11. CASE ~PagesFor(s, raw) /\ s.status # "unknown"
  <2>1. pages'[u] = pages[u] /\ ev'[e].state[u].status = s.status
    BY <1>2, <1>11, ProbeGood DEF PagesFor, Probed
  <2>2. AlertedAt(u)' = AlertedAt(u) /\ PagesAt(u)' = PagesAt(u)
    BY <1>7, <2>1
  <2> QED BY <1>8, <2>2, NothingSeen
<1> QED BY <1>9, <1>10, <1>11

LEMMA PagerStep ==
  ChecksInv /\ ChecksInv' /\ Baselines /\ [ChecksNext]_checksVars
    => [P!Next]_<<Alerted, PagesSeen>>
<1> SUFFICES ASSUME ChecksInv, ChecksInv', Baselines, [ChecksNext]_checksVars
             PROVE  P!Next \/ UNCHANGED <<Alerted, PagesSeen>>
  OBVIOUS
<1>0. /\ ChecksTypeOK /\ Sound /\ Sound' /\ Crowd
      /\ edits \in Nat /\ faults \in Nat /\ overlaps \in Nat
  BY DEF ChecksInv, ChecksTypeOK
<1>1. CASE ~Undisturbed'
  <2>1. Urls \in SUBSET Urls /\ \A u \in Urls : PagesAt(u)' = <<>>
    BY <1>1 DEF PagesAt
  <2>2. P!Next
    BY <1>0, <2>1, ForgottenSeen
  <2> QED BY <2>2
<1>2. CASE Undisturbed'
  <2>1. CASE UNCHANGED checksVars \/ \E v \in Urls : SiteFlips(v)
    <3>1. UNCHANGED <<stored, ev, pages, edits, faults, overlaps>>
      BY <2>1 DEF checksVars, counters, SiteFlips
    <3> QED BY <3>1 DEF Alerted, PagesSeen, Undisturbed
  <2>2. CASE Tick
    <3>1. /\ UNCHANGED <<pages, edits, faults, overlaps>>
          /\ \A u \in Urls : stored'.state[u].status = stored.state[u].status
          /\ \A e \in Evaluators :
               /\ ev'[e].pc = ev[e].pc
               /\ \A u \in Urls : ev'[e].state[u].status = ev[e].state[u].status
      BY <1>0, <2>2, TickDoes DEF counters, Same
    <3>2. Active' = Active /\ Active \subseteq Evaluators /\ (Undisturbed' <=> Undisturbed)
      BY <3>1 DEF Active, Undisturbed
    <3>3. \A u \in Urls : AlertedAt(u)' = AlertedAt(u) /\ PagesAt(u)' = PagesAt(u)
      BY <3>1, <3>2 DEF AlertedAt, PagesAt
    <3> QED BY <1>0, <3>3, NothingSeen
  <2>3. ASSUME NEW t \in SUBSET Urls, EditRead(t) \/ EditReadFails(t) PROVE FALSE
    BY <1>0, <1>2, <2>3, EditReadDoes, EditReadFailsDoes DEF Undisturbed
  <2>4. ASSUME EditWrite PROVE FALSE
    <3>1. editor.pc = "write" /\ UNCHANGED <<counters, overlaps>>
      BY <1>0, <2>4, EditWriteDoes
    <3> QED BY <1>2, <3>1 DEF Baselines, Undisturbed, counters
  <2>5. ASSUME NEW e \in Evaluators, Start(e) PROVE UNCHANGED <<Alerted, PagesSeen>>
    <3>1. /\ UNCHANGED <<stored, pages, counters>>
          /\ \A x \in Evaluators \ {e} : ev'[x] = ev[x]
          /\ ev'[e].pc = "probe" /\ ev'[e].state = stored.state
          /\ IF \A x \in Evaluators : ev[x].pc = "idle" THEN overlaps' = overlaps
             ELSE overlaps' = overlaps + 1
      BY <1>0, <2>5, StartDoes
    <3>2. (\A x \in Evaluators : ev[x].pc = "idle") /\ edits' = edits /\ faults' = faults
      BY <1>0, <1>2, <3>1 DEF Undisturbed, counters
    <3>3. Active = {} /\ Active' = {e} /\ Undisturbed
      BY <1>2, <3>1, <3>2 DEF Undisturbed, Active
    <3>4. \A u \in Urls : AlertedAt(u)' = AlertedAt(u) /\ PagesAt(u)' = PagesAt(u)
      BY <1>2, <3>1, <3>3 DEF AlertedAt, PagesAt
    <3> QED BY <1>0, <3>4, NothingSeen
  <2>6. ASSUME NEW e \in Evaluators, NEW v \in Urls, Probe(e, v)
        PROVE  P!Next \/ UNCHANGED <<Alerted, PagesSeen>>
    <3>1. Undisturbed
      <4>1. UNCHANGED <<edits, faults, overlaps>>
        BY <1>0, <2>6, ProbeDoes
      <4> QED BY <1>2, <4>1 DEF Undisturbed
    <3> QED BY <1>0, <2>6, <3>1, ProbeSeen
  <2>7. ASSUME NEW e \in Evaluators, Save(e) PROVE UNCHANGED <<Alerted, PagesSeen>>
    <3>1. /\ UNCHANGED <<pages, counters, overlaps>>
          /\ ev[e].pc = "probe" /\ ev'[e].pc = "idle" /\ stored'.state = ev[e].state
          /\ \A x \in Evaluators \ {e} : ev'[x].pc = ev[x].pc
      BY <1>0, <2>7, SaveDoes
    <3>2. Undisturbed /\ overlaps = 0 /\ e \in Active
      BY <1>0, <1>2, <3>1 DEF Undisturbed, counters, Active
    <3>3. \A x \in Active : x = e
      BY <1>0, <3>2, Alone
    <3>4. Active = {e} /\ Active' = {}
      BY <3>1, <3>2, <3>3 DEF Active
    <3>5. \A u \in Urls : AlertedAt(u)' = AlertedAt(u) /\ PagesAt(u)' = PagesAt(u)
      BY <1>2, <3>1, <3>2, <3>4 DEF AlertedAt, PagesAt
    <3> QED BY <1>0, <3>5, NothingSeen
  <2>8. ASSUME NEW e \in Evaluators, Fail(e) PROVE FALSE
    BY <1>0, <1>2, <2>8, FailDoes DEF Undisturbed
  <2> QED BY <2>1, <2>2, <2>3, <2>4, <2>5, <2>6, <2>7, <2>8 DEF ChecksNext, Proceed
<1> QED BY <1>1, <1>2

LEMMA PagerInit == ChecksInit => P!Init
<1> SUFFICES ASSUME ChecksInit PROVE P!Init
  OBVIOUS
<1>1. Sound /\ UrlByUrl
  BY ChecksInitInv, Views DEF ChecksInv
<1>2. ASSUME NEW u \in Urls PROVE AlertedAt(u) = FALSE /\ PagesAt(u) = <<>>
  <2>1. Active = {} /\ stored.state[u].status = "unknown" /\ pages[u] = <<>>
    BY RestingIs DEF ChecksInit, Active, Unknown
  <2> QED BY <2>1 DEF AlertedAt, PagesAt
<1> QED BY <1>1, <1>2 DEF UrlByUrl, P!Init

\* Until the first edit, failure or overlap evaluateHttpChecks implements the
\* pager: it alerts of what it has not alerted of, and recovers what it has.
THEOREM ChecksPage == ChecksSpec => ImplementsPager
<1> QED BY ChecksInitInv, ChecksStep, BaselinesStep, PagerInit, PagerStep, PTL
        DEF ChecksSpec, P!Spec, ImplementsPager
=============================================================================
