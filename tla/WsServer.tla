----------------------------- MODULE WsServer -----------------------------
(***************************************************************************)
(* The custom server's websocket endpoint: an upgrade passes the caps,     *)
(* looks its token up (in a cache of a minute, else in the database, an    *)
(* await during which anything can happen), and becomes a connection that  *)
(* is counted, tracked under its token, kept alive by pings, and sends     *)
(* report frames that are persisted concurrently.  The admin revokes a     *)
(* token in the database and then tells the server, which drops the cache  *)
(* entry and terminates the connections it tracks.                         *)
(*                                                                         *)
(* A refused upgrade leaves nothing behind and is not a step; refusals by  *)
(* the handshake rate and the Origin check are among them.                 *)
(***************************************************************************)
EXTENDS Integers, FiniteSets

CONSTANTS
  Sockets,      \* client sockets, each used again after it is gone
  Tokens, TokenOf,
  Ips, IpOf,
  MaxTotal, MaxPerIp,   \* WS_MAX_CONN_TOTAL, WS_MAX_CONN_PER_IP
  MaxRate,              \* WS_MSG_RATE_PER_SEC
  MaxInflight,          \* WS_MAX_INFLIGHT
  MaxUpgrades, MaxFrames   \* bounds on what the clients do

ASSUME ConstantsAssumption ==
  /\ TokenOf \in [Sockets -> Tokens] /\ IpOf \in [Sockets -> Ips]
  /\ MaxTotal \in Nat \ {0} /\ MaxPerIp \in Nat \ {0}
  /\ MaxRate \in Nat \ {0} /\ MaxInflight \in Nat \ {0}
  /\ MaxUpgrades \in Nat /\ MaxFrames \in Nat

VARIABLES
  sock,        \* per socket: where it is and its connection's locals
  total,       \* wsConnTotal
  perIp,       \* wsConnPerIp, 0 when there is no entry
  byToken,     \* wsByToken
  tokenCache,  \* per token: "yes", "no", or "none" when there is no entry
  registered,  \* tokens in the database
  notified,    \* tokens whose revocation the server has been told
  crossed,     \* tokens revoked while an upgrade was looking them up
  upgrades, frames

vars == <<sock, total, perIp, byToken, tokenCache, registered, notified, crossed,
          upgrades, frames>>

\* peer: the client answers; alive: the flag of the heartbeat; found: what the
\* lookup found.
Unconnected == [pc |-> "none", found |-> FALSE, peer |-> TRUE, alive |-> TRUE, count |-> 0,
                inflight |-> 0]

Init ==
  /\ sock = [s \in Sockets |-> Unconnected]
  /\ total = 0
  /\ perIp = [i \in Ips |-> 0]
  /\ byToken = [t \in Tokens |-> {}]
  /\ tokenCache = [t \in Tokens |-> "none"]
  /\ registered = Tokens
  /\ notified = {}
  /\ crossed = {}
  /\ upgrades = 0 /\ frames = 0

-----------------------------------------------------------------------------
(* Upgrades *)

UnderCaps(s) == total < MaxTotal /\ perIp[IpOf[s]] < MaxPerIp

\* The "connection" handler.
Connection(s) ==
  /\ sock' = [sock EXCEPT ![s] = [Unconnected EXCEPT !.pc = "open", !.peer = sock[s].peer]]
  /\ total' = total + 1
  /\ perIp' = [perIp EXCEPT ![IpOf[s]] = @ + 1]
  /\ byToken' = [byToken EXCEPT ![TokenOf[s]] = @ \cup {s}]

\* The caps and a cached answer are checked and acted on in one go.
UpgradeCached(s) ==
  /\ upgrades < MaxUpgrades
  /\ sock[s].pc = "none"
  /\ UnderCaps(s)
  /\ tokenCache[TokenOf[s]] = "yes"
  /\ Connection(s)
  /\ upgrades' = upgrades + 1
  /\ UNCHANGED <<tokenCache, registered, notified, crossed, frames>>

\* Otherwise the database is asked, after the caps were checked.
UpgradeLookup(s) ==
  /\ upgrades < MaxUpgrades
  /\ sock[s].pc = "none"
  /\ UnderCaps(s)
  /\ tokenCache[TokenOf[s]] = "none"
  /\ sock' = [sock EXCEPT ![s].pc = "lookup"]
  /\ upgrades' = upgrades + 1
  /\ UNCHANGED <<total, perIp, byToken, tokenCache, registered, notified, crossed, frames>>

\* The query runs; one that throws counts as not found.
Lookup(s) ==
  /\ sock[s].pc = "lookup"
  /\ \E ok \in {FALSE, TokenOf[s] \in registered} :
       sock' = [sock EXCEPT ![s].pc = "answered", ![s].found = ok]
  /\ UNCHANGED <<total, perIp, byToken, tokenCache, registered, notified, crossed,
                 upgrades, frames>>

\* Its answer arrives: cached, and the upgrade completed or refused.  A client
\* that has gone meanwhile may get a connection all the same, half open.
Answer(s) ==
  /\ sock[s].pc = "answered"
  /\ tokenCache' = [tokenCache EXCEPT ![TokenOf[s]] = IF sock[s].found THEN "yes" ELSE "no"]
  /\ \/ sock[s].found /\ Connection(s)
     \/ /\ ~(sock[s].found /\ sock[s].peer)
        /\ sock' = [sock EXCEPT ![s] = Unconnected]
        /\ UNCHANGED <<total, perIp, byToken>>
  /\ UNCHANGED <<registered, notified, crossed, upgrades, frames>>

CacheExpires(t) ==
  /\ tokenCache[t] # "none"
  /\ tokenCache' = [tokenCache EXCEPT ![t] = "none"]
  /\ UNCHANGED <<sock, total, perIp, byToken, registered, notified, crossed, upgrades, frames>>

-----------------------------------------------------------------------------
(* A connection *)

Live == {s \in Sockets : sock[s].pc \in {"open", "closing", "dead"}}

\* The client stops answering, without closing.
PeerVanishes(s) ==
  /\ sock[s].peer
  /\ sock[s].pc # "none"
  /\ sock' = [sock EXCEPT ![s].peer = FALSE]
  /\ UNCHANGED <<total, perIp, byToken, tokenCache, registered, notified, crossed,
                 upgrades, frames>>

HeartbeatPingOnly(s) ==
  /\ sock[s].pc \in {"open", "closing"}
  /\ sock[s].alive
  /\ sock' = [sock EXCEPT ![s].alive = FALSE]
  /\ UNCHANGED <<total, perIp, byToken, tokenCache, registered, notified, crossed,
                 upgrades, frames>>

\* Every WS_HEARTBEAT_MS: terminate when the last ping had no pong, else ping.
Heartbeat(s) ==
  /\ sock[s].pc \in {"open", "closing"}
  /\ sock' = IF sock[s].alive THEN [sock EXCEPT ![s].alive = FALSE]
             ELSE [sock EXCEPT ![s].pc = "dead"]
  /\ UNCHANGED <<total, perIp, byToken, tokenCache, registered, notified, crossed,
                 upgrades, frames>>

Pong(s) ==
  /\ sock[s].pc \in {"open", "closing"}
  /\ sock[s].peer /\ ~sock[s].alive
  /\ sock' = [sock EXCEPT ![s].alive = TRUE]
  /\ UNCHANGED <<total, perIp, byToken, tokenCache, registered, notified, crossed,
                 upgrades, frames>>

Accepts(q) == q.inflight < MaxInflight

\* A frame: over the rate it starts the close, over the in-flight cap or not a
\* valid report it is dropped, else it is handed to persist.
Frame(s) ==
  LET q == sock[s] IN
  /\ frames < MaxFrames
  /\ q.pc \in {"open", "closing"} /\ q.peer
  /\ \/ q.count >= MaxRate /\ sock' = [sock EXCEPT ![s].pc = "closing"]
     \/ q.count < MaxRate /\ sock' = [sock EXCEPT ![s].count = @ + 1]
     \/ /\ q.count < MaxRate /\ Accepts(q)
        /\ sock' = [sock EXCEPT ![s] = [q EXCEPT !.count = q.count + 1,
                                                 !.inflight = q.inflight + 1]]
  /\ frames' = frames + 1
  /\ UNCHANGED <<total, perIp, byToken, tokenCache, registered, notified, crossed, upgrades>>

\* A second has passed: the window starts again.
NewWindow(s) ==
  /\ sock[s].count > 0
  /\ sock' = [sock EXCEPT ![s].count = 0]
  /\ UNCHANGED <<total, perIp, byToken, tokenCache, registered, notified, crossed,
                 upgrades, frames>>

\* persist returns or throws.
PersistDone(s) ==
  /\ sock[s].inflight > 0
  /\ sock' = [sock EXCEPT ![s].inflight = @ - 1]
  /\ UNCHANGED <<total, perIp, byToken, tokenCache, registered, notified, crossed,
                 upgrades, frames>>

CleanupKeepingIp(s) ==
  /\ total' = total - 1
  /\ UNCHANGED perIp
  /\ byToken' = [byToken EXCEPT ![TokenOf[s]] = @ \ {s}]

\* Uncount and untrack; the token may have been untracked by its revocation.
Cleanup(s) ==
  /\ total' = total - 1
  /\ perIp' = [perIp EXCEPT ![IpOf[s]] = @ - 1]
  /\ byToken' = [byToken EXCEPT ![TokenOf[s]] = @ \ {s}]

\* The "close" event: the client closed, or the server's close or terminate is
\* through.  The next connection of this client is a new one.
CloseEvent(s) ==
  /\ s \in Live
  /\ sock[s].peer \/ sock[s].pc = "dead"
  /\ Cleanup(s)
  /\ sock' = [sock EXCEPT ![s] = Unconnected]
  /\ UNCHANGED <<tokenCache, registered, notified, crossed, upgrades, frames>>

-----------------------------------------------------------------------------
(* The admin *)

\* deleteNodeToken, rotateTokenForNode: first the database ...
RevokeInDb(t) ==
  /\ t \in registered
  /\ registered' = registered \ {t}
  /\ UNCHANGED <<sock, total, perIp, byToken, tokenCache, notified, crossed, upgrades, frames>>

TerminatedClosing(t) ==
  [s \in Sockets |-> IF s \in byToken[t] THEN [sock[s] EXCEPT !.pc = "closing"] ELSE sock[s]]

Terminated(t) ==
  [s \in Sockets |-> IF s \in byToken[t] THEN [sock[s] EXCEPT !.pc = "dead"] ELSE sock[s]]

\* ... then the listener: evict the cache entry, terminate what is tracked.
Notify(t) ==
  /\ t \notin registered \cup notified
  /\ notified' = notified \cup {t}
  /\ tokenCache' = [tokenCache EXCEPT ![t] = "none"]
  /\ sock' = Terminated(t)
  /\ byToken' = [byToken EXCEPT ![t] = {}]
  /\ crossed' = IF \E s \in Sockets : /\ TokenOf[s] = t
                                      /\ sock[s].pc = "answered" /\ sock[s].found
                THEN crossed \cup {t} ELSE crossed
  /\ UNCHANGED <<total, perIp, registered, upgrades, frames>>

Next ==
  \/ \E s \in Sockets :
       \/ UpgradeCached(s) \/ UpgradeLookup(s) \/ Lookup(s) \/ Answer(s)
       \/ PeerVanishes(s) \/ Heartbeat(s) \/ Pong(s) \/ Frame(s) \/ NewWindow(s)
       \/ PersistDone(s) \/ CloseEvent(s)
  \/ \E t \in Tokens : CacheExpires(t) \/ RevokeInDb(t) \/ Notify(t)

Spec == Init /\ [][Next]_vars

\* Timers fire, a terminated socket emits its close event, the token lookup
\* returns (its pool gives up after five seconds).
Fairness ==
  \A s \in Sockets : /\ WF_vars(Lookup(s) \/ Answer(s)) /\ WF_vars(Heartbeat(s))
                     /\ WF_vars(sock[s].pc = "dead" /\ CloseEvent(s))

FairSpec == Spec /\ Fairness

-----------------------------------------------------------------------------
Socket == [pc : {"none", "lookup", "answered", "open", "closing", "dead"}, found : BOOLEAN,
           peer : BOOLEAN, alive : BOOLEAN, count : 0..MaxRate, inflight : 0..MaxInflight]

\* The type invariant of the sockets and of the server's maps.
TypeOK ==
  /\ sock \in [Sockets -> Socket]
  /\ total \in Nat /\ perIp \in [Ips -> Nat]
  /\ byToken \in [Tokens -> SUBSET Sockets]
  /\ tokenCache \in [Tokens -> {"yes", "no", "none"}]
  /\ registered \subseteq Tokens /\ notified \subseteq Tokens /\ crossed \subseteq Tokens
  /\ upgrades \in Nat /\ frames \in Nat

\* The server's books: the counters the caps are checked against are those of
\* the connections that exist, each counted once and uncounted once, however it
\* ends; and every connection that can still report is tracked under its token
\* (wsByToken), where nothing that is gone stays, with no more frames being
\* persisted than the cap allows.
CountersExact ==
  /\ total = Cardinality(Live)
  /\ \A i \in Ips : perIp[i] = Cardinality({s \in Live : IpOf[s] = i})
  /\ \A s \in Sockets : sock[s].pc \in {"open", "closing"} => s \in byToken[TokenOf[s]]
  /\ \A t \in Tokens : byToken[t] \subseteq {s \in Live : TokenOf[s] = t}
  /\ \A s \in Sockets : sock[s].inflight \in 0 .. MaxInflight

Serving(t) == {s \in Sockets : TokenOf[s] = t /\ sock[s].pc \in {"open", "closing"}}

\* Once the server has been told of a revocation, the token has no connection
\* and no cached acceptance, unless a lookup had found it and was on its way.
RevokedStaysOut ==
  \A t \in notified \ crossed : Serving(t) = {} /\ tokenCache[t] # "yes"

\* A connection whose client is gone without closing is terminated and
\* uncounted in the end (the heartbeat).
HalfOpenReaped == \A s \in Sockets : (~sock[s].peer) ~> (sock[s].pc = "none")
=============================================================================
