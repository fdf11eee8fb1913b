--------------------------- MODULE Requests_proof ---------------------------
(* What holds of every request: of what the reports may store, of what those *)
(* who look are shown, of the targets of a probe and of where notifications  *)
(* go; of the ids, the rates and the labels that go with them.               *)
EXTENDS Reads, Intake, Probes, Notify, OpaqueId, RateLimit, NodeLabels, Credentials, Charts, ServerLists,
        Settings, FiniteSetTheorems, TLAPS

-----------------------------------------------------------------------------
(* Reports *)

\* However wild the numbers of a report, what is stored of an accepted one is
\* in range: percentages to 100, counters what their column holds, the
\* temperature to 150, and no more of a resource used than the host says it has.
THEOREM StoredInRange ==
  ASSUME IntakeAssumption, NEW body \in Bodies, ~Refused(body)
  PROVE  LET m == StoredMetrics(body)
         IN  /\ \A k \in Percents : m[k] \in 0 .. 100
             /\ \A k \in Counts : m[k] \in 0 .. Safe
             /\ m["cpuTemp"] \in 0 .. 150
             /\ \A k \in DOMAIN TotalOf :
                  body.host[TotalOf[k]] # Absent => m[k] <= body.host[TotalOf[k]]
<1> DEFINE r == RouteMetrics(body.host, body.metrics)
           m == StoredMetrics(body)
<1>1. /\ body.host \in [Texts \cup Totals -> Value] /\ body.metrics \in [Metrics -> Value]
      /\ ~HostRefused(body.host) /\ ~MetricsRefused(body.metrics)
  BY DEF Bodies, Refused
<1>2. \A k \in Metrics : m[k] = Number(r[k])
  BY DEF StoredMetrics, DbMetrics
<1>3. ASSUME NEW k \in Percents PROVE m[k] \in 0 .. 100
  <2>1. k \in Metrics /\ r[k] = Least(body.metrics[k], 100) /\ body.metrics[k] \in Nat
    BY <1>1 DEF Metrics, RouteMetrics, MetricsRefused, IsNonNegFinite
  <2> QED BY <1>2, <2>1, SMT DEF Least, Number
<1>4. ASSUME NEW k \in Counts
      PROVE  /\ m[k] \in 0 .. Safe
             /\ k \in DOMAIN TotalOf /\ body.host[TotalOf[k]] # Absent
                  => m[k] <= body.host[TotalOf[k]]
  <2>1. k \in Metrics /\ k \notin Percents /\ k # "cpuTemp"
    BY DEF Metrics, IntakeAssumption
  <2>2. r[k] = IF body.metrics[k] = Absent THEN 0
               ELSE Bounded(body.host, k, Least(body.metrics[k], Safe))
    BY <2>1 DEF RouteMetrics
  <2>3. body.metrics[k] = Absent \/ body.metrics[k] \in Nat
    BY <1>1 DEF MetricsRefused, IsNonNegFinite
  <2>4. k \in DOMAIN TotalOf => body.host[TotalOf[k]] = Absent \/ body.host[TotalOf[k]] \in Nat
    BY <1>1 DEF HostRefused, IsNonNegFinite, IntakeAssumption
  <2>5. Safe \in Nat /\ Absent \notin Nat
    BY DEF IntakeAssumption
  <2>6. CASE body.metrics[k] = Absent
    BY <1>2, <2>1, <2>2, <2>4, <2>5, <2>6, SMT DEF Number
  <2>7. CASE body.metrics[k] \in Nat
    <3> DEFINE v == Least(body.metrics[k], Safe)
    <3>1. v \in 0 .. Safe
      BY <2>5, <2>7, SMT DEF Least
    <3>2. r[k] = Bounded(body.host, k, v)
      BY <2>2, <2>5, <2>7
    <3> HIDE DEF v
    <3> QED BY <1>2, <2>1, <2>4, <2>5, <3>1, <3>2, SMT DEF Bounded, Least, Number, IsNonNegFinite
  <2> QED BY <2>3, <2>6, <2>7
<1>5. m["cpuTemp"] \in 0 .. 150
  <2>1. /\ "cpuTemp" \in Metrics /\ "cpuTemp" \notin Percents
        /\ r["cpuTemp"] = IF body.metrics["cpuTemp"] = Absent THEN Absent
                          ELSE Least(body.metrics["cpuTemp"], 150)
        /\ body.metrics["cpuTemp"] = Absent \/ body.metrics["cpuTemp"] \in Nat
    BY <1>1 DEF Metrics, RouteMetrics, MetricsRefused, IsNonNegFinite, IntakeAssumption
  <2> QED BY <1>2, <2>1, SMT DEF Least, Number, IntakeAssumption
<1>6. \A k \in DOMAIN TotalOf : k \in Counts
  BY DEF IntakeAssumption
<1> QED BY <1>3, <1>4, <1>5, <1>6

\* The two checks agree but for two numbers: of what the route lets through,
\* saveReport drops bootTimeMs and uptimeSec, cuts no text, changes no other
\* number, and no counter either.
THEOREM NothingIsCut ==
  ASSUME IntakeAssumption, NEW body \in Bodies, ~Refused(body)
  PROVE  /\ DOMAIN StoredHost(body) = Texts \cup (Totals \ RouteOnly)
         /\ \A k \in Texts \cup (Totals \ RouteOnly) :
              body.host[k] # Absent => StoredHost(body)[k] = body.host[k]
         /\ \A k \in Counts : Counter(StoredMetrics(body)[k]) = StoredMetrics(body)[k]
<1>1. /\ body.host \in [Texts \cup Totals -> Value]
      /\ ~HostRefused(body.host)
  BY DEF Bodies, Refused
<1>2. ASSUME NEW k \in Texts \cup (Totals \ RouteOnly), body.host[k] # Absent
      PROVE  StoredHost(body)[k] = body.host[k]
  <2>1. StoredHost(body)[k] = IF k \in Texts THEN Least(Number(body.host[k]), MaxLen[k])
                              ELSE Number(body.host[k])
    BY DEF StoredHost, DbHost
  <2>2. body.host[k] \in Nat /\ (k \in Texts => body.host[k] <= MaxLen[k] /\ MaxLen[k] \in Nat)
    BY <1>1, <1>2 DEF HostRefused, IsNonNegFinite, IntakeAssumption
  <2> QED BY <2>1, <2>2, SMT DEF Least, Number
<1>3. ASSUME NEW k \in Counts PROVE Counter(StoredMetrics(body)[k]) = StoredMetrics(body)[k]
  <2>1. StoredMetrics(body)[k] \in 0 .. Safe
    BY StoredInRange
  <2> QED BY <2>1, SMT DEF Counter, Least, IntakeAssumption
<1>4. DOMAIN StoredHost(body) = Texts \cup (Totals \ RouteOnly)
  BY DEF StoredHost, DbHost
<1> QED BY <1>2, <1>3, <1>4

-----------------------------------------------------------------------------
(* Those who look *)

\* What a guest is answered does not depend on a hostname, an address or a
\* temperature: fleets that differ in nothing else look the same.
THEOREM GuestsSeeNoAddress ==
  ASSUME ReadsAssumption, NEW D \in SUBSET Hosts, NEW F, NEW G,
         DOMAIN F = D, DOMAIN G = D, \A n \in D : SameInPublic(F[n], G[n]),
         NEW public, NEW spare, NEW now
  PROVE  NodesAnswer(FALSE, public, spare, F, now) = NodesAnswer(FALSE, public, spare, G, now)
<1>1. ASSUME NEW n \in D PROVE PublicNode(View(n, F[n], now)) = PublicNode(View(n, G[n], now))
  <2> DEFINE v == View(n, F[n], now)
             w == View(n, G[n], now)
  <2>1. DOMAIN v = DOMAIN w
    BY DEF View
  <2>2. SameInPublic(F[n], G[n])
    OBVIOUS
  <2>3. /\ v.opaqueId = w.opaqueId
        /\ \A f \in DOMAIN v : f \notin {"id", "cpuTemp", "hostname", "ip"} => v[f] = w[f]
    BY <2>2, SMT DEF View, SameInPublic
  <2> HIDE DEF v, w
  <2>4. PublicNode(v) = PublicNode(w)
    BY <2>1, <2>3 DEF PublicNode
  <2> QED BY <2>4 DEF v, w
<1>2. PublicNodes(ListNodes(F, now)) = {PublicNode(View(n, F[n], now)) : n \in D}
  BY DEF PublicNodes, ListNodes
<1>3. PublicNodes(ListNodes(G, now)) = {PublicNode(View(n, G[n], now)) : n \in D}
  BY DEF PublicNodes, ListNodes
<1>4. PublicNodes(ListNodes(F, now)) = PublicNodes(ListNodes(G, now))
  BY <1>1, <1>2, <1>3
<1> QED BY <1>4 DEF NodesAnswer

\* A guest never names a node by its hostname, and is served the window it
\* asked for or told that it may not have it; nobody is served more than the
\* tables keep, or more points than the limit of their kind.
THEOREM HistoryIsGated ==
  ASSUME ReadsAssumption, NEW user \in BOOLEAN, NEW public \in BOOLEAN, NEW spare \in BOOLEAN,
         NEW id, NEW window \in Int, NEW limit \in Int,
         HistoryStatus(user, public, spare, id, window) = 200
  PROVE  /\ ~user => public /\ id \in Decimal /\ HistoryWindow(user, window) <= GuestWindow
         /\ window > 0 /\ window <= MaxWindow => HistoryWindow(user, window) = window
         /\ HistoryWindow(user, window) \in 1 .. MaxWindow
         /\ HistoryLimit(user, limit) <= IF user THEN MaxLimit ELSE GuestLimit
<1>1. GuestWindow \in Nat \ {0} /\ MaxWindow \in Nat \ {0} /\ GuestWindow <= MaxWindow
      /\ GuestLimit \in Nat \ {0} /\ MaxLimit \in Nat \ {0}
  BY DEF ReadsAssumption
<1>2. ~user => public /\ id \in Decimal /\ AskedWindow(window) <= GuestWindow
  BY <1>1, SMT DEF HistoryStatus, AskedWindow, Larger
<1>3. HistoryLimit(user, limit) <= IF user THEN MaxLimit ELSE GuestLimit
  BY <1>1, SMT DEF HistoryLimit, AskedLimit, Smaller
<1> QED BY <1>1, <1>2, <1>3, SMT DEF HistoryWindow, AskedWindow, Larger, Smaller

\* An administrator names a node by its hostname, a guest by its opaque id,
\* and both are led to it, as long as no hostname consists of digits only.
THEOREM IdsResolve ==
  ASSUME ReadsAssumption, NEW F, DOMAIN F \subseteq Hosts, NEW n \in DOMAIN F, n \notin Decimal
  PROVE  /\ ResolveInternalNodeId(n, F) = n
         /\ ResolveInternalNodeId(Opaque[n], F) = n
<1>1. Opaque[n] \in Decimal
  BY DEF ReadsAssumption
<1>2. \A m \in DOMAIN F : Opaque[m] = Opaque[n] => m = n
  BY DEF ReadsAssumption
<1> QED BY <1>1, <1>2 DEF ResolveInternalNodeId

-----------------------------------------------------------------------------
(* Slices *)

\* Division on the naturals, as the multiples of the divisor see it.
LEMMA DivisionBounds ==
  ASSUME NEW a \in Nat, NEW b \in Nat \ {0}
  PROVE  a \div b \in Nat /\ b * (a \div b) <= a /\ a < b * (a \div b) + b
  BY SMT

LEMMA DivisionIsMonotone ==
  ASSUME NEW a \in Nat, NEW b \in Nat, NEW c \in Nat \ {0}, a <= b
  PROVE  a \div c <= b \div c
  BY SMT

\* The slices asked for cover the window.
LEMMA SlicesCover ==
  ASSUME ReadsAssumption, NEW window \in Nat, NEW limit \in Nat \ {0}
  PROVE  LET width == BucketMs(window, limit)
         IN  width \in Nat \ {0} /\ window <= width * limit
<1> DEFINE width == BucketMs(window, limit)
           w == IF window < 1 THEN 1 ELSE window
           q == (w + limit - 1) \div limit
<1>1. w \in Nat /\ w + limit - 1 \in Nat /\ window <= w
  BY SMT
<1>2. q \in Nat /\ w + limit - 1 < limit * q + limit
  BY <1>1, DivisionBounds
<1>3. width = Larger(MinInterval, q)
  BY SMT DEF BucketMs, Ceiling, Larger
<1>4. width \in Nat \ {0} /\ q <= width
  BY <1>2, <1>3, SMT DEF Larger, ReadsAssumption
<1>5. limit * q <= width * limit
  BY <1>2, <1>4, SMT
<1> HIDE DEF w, q, width
<1>6. limit * q \in Nat /\ width * limit \in Nat
  BY <1>2, <1>4, SMT
<1>7. window <= width * limit
  BY <1>1, <1>2, <1>5, <1>6, SMT
<1> QED BY <1>4, <1>7 DEF width

\* Samples up to now fall into one slice more than were asked for, at most.
LEMMA SlicesFit ==
  ASSUME ReadsAssumption, NEW window \in Nat, NEW limit \in Nat \ {0}, NEW now \in Nat,
         window <= now, NEW times \in SUBSET (0 .. now)
  PROVE  LET width == BucketMs(window, limit)
             first == (now - window) \div width
         IN  first \in Nat /\ Slices(times, now - window, width) \subseteq first .. first + limit
<1> DEFINE width == BucketMs(window, limit)
           start == now - window
           first == start \div width
<1>1. width \in Nat \ {0} /\ window <= width * limit
  BY SlicesCover
<1>2. start \in Nat /\ now = start + window
  BY SMT
<1> HIDE DEF width, start
<1>3. first \in Nat /\ start < width * first + width
  BY <1>1, <1>2, DivisionBounds
<1>4. ASSUME NEW t \in times, t >= start PROVE t \div width \in first .. first + limit
  <2> DEFINE s == t \div width
  <2>1. t \in Nat /\ t <= now
    BY SMT
  <2>2. s \in Nat /\ width * s <= t /\ first <= s
    BY <1>1, <1>2, <1>4, <2>1, DivisionBounds, DivisionIsMonotone
  <2>3. width * s < width * first + width + width * limit
    <3>1. width * s \in Nat /\ width * first \in Nat /\ width * limit \in Nat
      BY <1>1, <1>3, <2>2, SMT
    <3> QED BY <1>1, <1>2, <1>3, <2>1, <2>2, <3>1, SMT
  <2>4. width * first + width + width * limit = width * (first + 1 + limit)
    BY <1>1, <1>3, SMT
  <2>5. s < first + 1 + limit
    <3> SUFFICES ASSUME s >= first + 1 + limit PROVE FALSE
      BY <1>3, <2>2, SMT
    <3>1. width * s >= width * (first + 1 + limit)
      BY <1>1, <1>3, <2>2, SMT
    <3> QED BY <1>1, <1>3, <2>2, <2>3, <2>4, <3>1, SMT
  <2> QED BY <1>3, <2>2, <2>5, SMT
<1> QED BY <1>3, <1>4 DEF Slices, width, start

\* getHistory may leave out a slice: never more than one, and it is the newest.
THEOREM OnlyTheNewestIsCut ==
  ASSUME ReadsAssumption, NEW window \in Nat, NEW limit \in Nat \ {0}, NEW now \in Nat,
         window <= now, NEW times \in SUBSET (0 .. now)
  PROVE  LET all == Slices(times, now - window, BucketMs(window, limit))
         IN  \A s \in all \ GetHistory(times, now, window, limit) : \A r \in all : r <= s
<1> DEFINE width == BucketMs(window, limit)
           first == (now - window) \div width
           all == Slices(times, now - window, width)
<1>1. first \in Nat /\ all \subseteq first .. first + limit
  BY SlicesFit
<1> HIDE DEF all, first
<1>2. ASSUME NEW s \in all, s # first + limit PROVE Cardinality({r \in all : r < s}) < limit
  <2>1. s \in first .. first + limit - 1
    BY <1>1, <1>2, SMT
  <2>2. {r \in all : r < s} \subseteq first .. s - 1
    <3> SUFFICES ASSUME NEW r \in all, r < s PROVE r \in first .. s - 1
      OBVIOUS
    <3>1. r \in first .. first + limit
      BY <1>1
    <3> QED BY <1>1, <2>1, <3>1, SMT
  <2>3. IsFiniteSet(first .. s - 1) /\ Cardinality(first .. s - 1) = IF first <= s - 1 THEN s - 1 - first + 1 ELSE 0
    BY <1>1, <2>1, FS_Interval, SMT
  <2>4. Cardinality({r \in all : r < s}) <= Cardinality(first .. s - 1)
        /\ Cardinality({r \in all : r < s}) \in Nat
    BY <2>2, <2>3, FS_Subset, FS_CardinalityType
  <2> QED BY <1>1, <2>1, <2>3, <2>4, SMT
<1>3. ASSUME NEW s \in all, s \notin GetHistory(times, now, window, limit)
      PROVE  s = first + limit
  BY <1>2, <1>3 DEF GetHistory, all, width
<1> QED BY <1>1, <1>3, SMT DEF all, width

\* The latency history always has the newest slice.
THEOREM LatencyHasTheNewest ==
  ASSUME ReadsAssumption, NEW window \in Nat, NEW limit \in Nat \ {0}, NEW now \in Nat,
         NEW times \in SUBSET Nat
  PROVE  LET all == Slices(times, now - window, BucketMs(window, limit))
         IN  \A s \in all : (\A r \in all : ~(r > s)) =>
               s \in LatencyHistoryForNode(times, now, window, limit)
<1> DEFINE all == Slices(times, now - window, BucketMs(window, limit))
<1>1. ASSUME NEW s \in all, \A r \in all : ~(r > s)
      PROVE  s \in LatencyHistoryForNode(times, now, window, limit)
  <2>1. {r \in all : r > s} = {}
    BY <1>1
  <2>2. Cardinality({}) = 0
    BY FS_EmptySet
  <2>3. Cardinality({r \in all : r > s}) < limit
    BY <2>1, <2>2, SMT
  <2> QED BY <2>3 DEF LatencyHistoryForNode
<1> QED BY <1>1

\* The two latency feeds agree on who probes what: the result the dashboard
\* shows for a node is among what its detail page shows, under a task it has now.
THEOREM FeedsAgree ==
  ASSUME NEW tasks, NEW samples, NEW F, NEW s \in LatestPingResults(tasks, samples, F)
  PROVE  /\ s.task \in PingTasksForNode(tasks, s.node) /\ s.node \in DOMAIN F
         /\ s \in LatencyByTask(tasks, samples, s.node)[s.task]
  BY DEF LatestPingResults, PingTasksForNode, LatencyByTask

-----------------------------------------------------------------------------
(* Probes and notifications *)

\* What the master accepts, the node probes: two checks written in two
\* languages, of the text and of the addresses, do not contradict each other
\* while the operator has given no list, and the host, when it is a name,
\* stands for public addresses at the node; only a host in brackets without a
\* port is read by the one and not by the other.
THEOREM AcceptedIsProbed ==
  ASSUME ProbesAssumption, NEW target \in Targets, NEW type \in Types, NEW private \in BOOLEAN,
         NEW internal \in BOOLEAN, ~internal,
         NEW dns \in [HostNames -> SUBSET Addresses],
         HostRead(target, type), Named(target), ValidatePingTarget(target, type, internal),
         target.host \in HostNames => dns[target.host] # {} /\ dns[target.host] \subseteq Unicast
  PROVE  ValidateTask(target, type, dns, [hosts |-> {}, nets |-> {}], private)
<1>1. AddressesOf(target, dns) # {} /\ AddressesOf(target, dns) \subseteq Unicast
  <2>1. target.host \in Addresses => target.host \in Unicast
    BY DEF ValidatePingTarget
  <2>2. target.host \in HostNames \cup Addresses
    BY DEF Targets, ProbeHosts
  <2> QED BY <2>1, <2>2 DEF AddressesOf, ProbesAssumption
<1>2. Unicast \subseteq Addresses \ Guarded
  BY DEF ProbesAssumption
<1>3. AllIn(target, dns, Addresses \ Guarded)
  BY <1>1, <1>2 DEF AllIn
<1>4. LET list == [hosts |-> {}, nets |-> {}] IN list.hosts = {} /\ list.nets = {}
  OBVIOUS
<1> QED BY <1>3, <1>4 DEF ValidateTask

\* A configuration the page could save is used as it was saved, whatever the
\* environment says: a notification goes to every channel it has, and to none
\* when it is switched off (while a name stands for the addresses it stood for
\* when it was saved).
THEOREM SavedIsUsed ==
  ASSUME NotifyAssumption, NEW body \in Configs, ~PostRefused(body), NEW env
  PROVE  LET read == [found |-> TRUE, saved |-> Posted(body)]
         IN  /\ Notified(env, read) = IF body.enabled THEN Channels(body) ELSE {}
             /\ ShownConfig(env, read) = LoadConfig(env, read)
<1> DEFINE saved == Posted(body)
           read == [found |-> TRUE, saved |-> saved]
<1>1. /\ saved \in Configs /\ DOMAIN saved = DOMAIN body
      /\ saved.enabled = body.enabled /\ saved.token = body.token /\ saved.chat = body.chat
      /\ saved.webhook = body.webhook
      /\ saved.endpoint = IF body.endpoint = None THEN TelegramApi ELSE body.endpoint
  BY DEF Posted, Configs, NotifyAssumption
<1>2. read.found /\ read.saved = saved
  OBVIOUS
<1> HIDE DEF read, saved
<1>3. Merged(DefaultNotifyConfig(env), saved) = saved
  <2>1. saved = [f \in DOMAIN saved |-> saved[f]]
    BY <1>1 DEF Configs
  <2>2. DOMAIN DefaultNotifyConfig(env) = {"enabled", "token", "chat", "endpoint", "webhook"}
    BY DEF DefaultNotifyConfig
  <2>3. DOMAIN body = {"enabled", "token", "chat", "endpoint", "webhook"}
    BY DEF Configs
  <2> QED BY <1>1, <2>1, <2>2, <2>3 DEF Merged
<1>4. LoadConfig(env, read) = saved /\ ShownConfig(env, read) = saved
  BY <1>2, <1>3 DEF LoadConfig, ShownConfig
<1>5. Channels(saved) = Channels(body)
  BY <1>1 DEF Channels
<1>6. \A c \in Channels(saved) : AssertPublicUrl(UrlOf(saved, c))
  <2>1. body.webhook # None => AssertPublicUrl(body.webhook)
    BY DEF PostRefused
  <2>2. AssertPublicUrl(saved.endpoint) /\ saved.endpoint # None
    BY <1>1 DEF PostRefused, saved, AssertPublicUrl, NotifyAssumption
  <2>3. "webhook" \in Channels(saved) => saved.webhook # None
    BY DEF Channels
  <2> QED BY <1>1, <2>1, <2>2, <2>3 DEF UrlOf
<1>7. Sent(saved) = Channels(saved)
  BY <1>6 DEF Sent
<1> QED BY <1>1, <1>4, <1>5, <1>7 DEF Notified, read, saved

-----------------------------------------------------------------------------
(* Opaque ids *)

Halves == Digit \X Digit

\* Reducing a sum of two digits takes at most one radix away.
LEMMA SmallMod ==
  ASSUME NEW x \in Nat, x < 2 * Radix
  PROVE  x % Radix = IF x < Radix THEN x ELSE x - Radix
<1>. USE RadixAssumption
<1>1. CASE x < Radix BY <1>1, SMTT(20)
<1>2. CASE x >= Radix
  <2>. DEFINE y == x - Radix
  <2>1. y \in Nat /\ y < Radix BY <1>2
  <2>2. x % Radix = y BY <1>2, <2>1, SMTT(20)
  <2>. QED BY <1>2, <2>2
<1>. QED BY <1>1, <1>2

\* One round keeps the halves digits, and the reverse round undoes it.
LEMMA RoundInverts ==
  ASSUME NEW f \in RoundFunctions, NEW i \in 0 .. 7, NEW p \in Halves
  PROVE  /\ Scramble(f, i, p) \in Halves
         /\ Unscramble(f, i, Scramble(f, i, p)) = p
<1>. DEFINE a == p[1]  b == p[2]  k == f[i][b]
<1>. USE RadixAssumption
<1>1. a \in Digit /\ b \in Digit /\ p = <<a, b>> BY DEF Halves
<1>2. k \in Digit BY <1>1 DEF RoundFunctions
<1>. HIDE DEF a, b, k
<1>3. (a + k) % Radix = IF a + k < Radix THEN a + k ELSE a + k - Radix
  BY <1>1, <1>2, SmallMod DEF Digit
<1>. DEFINE s == (a + k) % Radix
<1>4. s \in Digit BY <1>1, <1>2, <1>3 DEF Digit
<1>. HIDE DEF s
<1>5. (s - k + Radix) % Radix
        = IF s - k + Radix < Radix THEN s - k + Radix ELSE s - k
  <2>1. s - k + Radix \in Nat /\ s - k + Radix < 2 * Radix
    BY <1>2, <1>4 DEF Digit
  <2>. DEFINE x == s - k + Radix
  <2>2. x % Radix = IF x < Radix THEN x ELSE x - Radix BY <2>1, SmallMod
  <2>3. x - Radix = s - k BY <1>2, <1>4 DEF Digit
  <2>. QED BY <2>2, <2>3
<1>6. (s - k + Radix) % Radix = a
  BY <1>1, <1>2, <1>3, <1>4, <1>5 DEF Digit, s
<1>7. Scramble(f, i, p) = <<b, s>> BY DEF Scramble, a, b, k, s
<1>8. Unscramble(f, i, <<b, s>>) = <<(s - k + Radix) % Radix, b>>
  BY DEF Unscramble, k
<1>. QED BY <1>1, <1>4, <1>6, <1>7, <1>8 DEF Halves

\* The eight rounds keep the halves digits, and the reverse eight undo them.
LEMMA RoundsInvert ==
  ASSUME NEW f \in RoundFunctions, NEW p \in Halves
  PROVE  Forward(f, p) \in Halves /\ Backward(f, Forward(f, p)) = p
<1>. DEFINE h1 == Scramble(f, 0, p)   h2 == Scramble(f, 1, h1)
            h3 == Scramble(f, 2, h2)  h4 == Scramble(f, 3, h3)
            h5 == Scramble(f, 4, h4)  h6 == Scramble(f, 5, h5)
            h7 == Scramble(f, 6, h6)  h8 == Scramble(f, 7, h7)
<1>0. Forward(f, p) = h8 BY DEF Forward
<1>1. h1 \in Halves /\ Unscramble(f, 0, h1) = p BY RoundInverts
<1>. HIDE DEF h1
<1>2. h2 \in Halves /\ Unscramble(f, 1, h2) = h1 BY <1>1, RoundInverts
<1>. HIDE DEF h2
<1>3. h3 \in Halves /\ Unscramble(f, 2, h3) = h2 BY <1>2, RoundInverts
<1>. HIDE DEF h3
<1>4. h4 \in Halves /\ Unscramble(f, 3, h4) = h3 BY <1>3, RoundInverts
<1>. HIDE DEF h4
<1>5. h5 \in Halves /\ Unscramble(f, 4, h5) = h4 BY <1>4, RoundInverts
<1>. HIDE DEF h5
<1>6. h6 \in Halves /\ Unscramble(f, 5, h6) = h5 BY <1>5, RoundInverts
<1>. HIDE DEF h6
<1>7. h7 \in Halves /\ Unscramble(f, 6, h7) = h6 BY <1>6, RoundInverts
<1>. HIDE DEF h7
<1>8. h8 \in Halves /\ Unscramble(f, 7, h8) = h7 BY <1>7, RoundInverts
<1>. HIDE DEF h8
<1>9. Backward(f, h8) = p
  BY <1>1, <1>2, <1>3, <1>4, <1>5, <1>6, <1>7, <1>8 DEF Backward
<1>. QED BY <1>0, <1>8, <1>9

\* An id below the domain splits into two digits that join to it again, and
\* two digits join to an id that splits into them.
LEMMA SplitJoins ==
  ASSUME NEW x \in Ids
  PROVE  Split(x) \in Halves /\ Joined(Split(x)) = x
<1>. USE RadixAssumption
<1>1. x \in Nat /\ x < Radix * Radix
  <2>1. Radix * Radix \in Nat BY SMTT(20)
  <2>. QED BY <2>1 DEF Ids, Domain
<1>2. x % Radix \in Digit BY <1>1 DEF Digit
<1>3. x \div Radix \in Nat /\ x = (x \div Radix) * Radix + (x % Radix)
  BY <1>1, SMTT(20)
<1>4. x \div Radix < Radix
  <2>. DEFINE q == x \div Radix
  <2>1. q \in Nat /\ q * Radix <= x BY <1>2, <1>3 DEF Digit
  <2>2. SUFFICES ASSUME q >= Radix PROVE FALSE BY <2>1
  <2>. HIDE DEF q
  <2>3. q * Radix >= Radix * Radix BY <2>1, <2>2, SMTT(20)
  <2>. QED BY <1>1, <2>1, <2>3, SMTT(20)
<1>. QED BY <1>2, <1>3, <1>4 DEF Split, Joined, Halves, Digit

LEMMA JoinSplits ==
  ASSUME NEW p \in Halves
  PROVE  Joined(p) \in Ids /\ Split(Joined(p)) = p
<1>. DEFINE a == p[1]  b == p[2]
<1>. USE RadixAssumption
<1>1. /\ a \in Nat /\ a < Radix /\ b \in Nat /\ b < Radix
      /\ p = <<a, b>>
  BY DEF Halves, Digit
<1>. HIDE DEF a, b
<1>2. a * Radix \in Nat /\ (a + 1) * Radix = a * Radix + Radix
  BY <1>1, SMTT(20)
<1>3. (a + 1) * Radix <= Radix * Radix
  <2>1. a + 1 \in Nat /\ a + 1 <= Radix BY <1>1
  <2>. QED BY <2>1, SMTT(20)
<1>. DEFINE x == a * Radix + b
<1>4. x \in Nat /\ x < Radix * Radix
  <2>1. Radix * Radix \in Nat BY SMTT(20)
  <2>2. (a + 1) * Radix \in Nat BY <1>2
  <2>. QED BY <1>1, <1>2, <1>3, <2>1, <2>2
<1>5. Joined(p) = x BY <1>1 DEF Joined, a, b
<1>6. x \div Radix = a /\ x % Radix = b BY <1>1, <1>2, SMTT(30)
<1>7. Radix * Radix \in Nat BY SMTT(20)
<1>8. x \in Ids
  <2>. HIDE DEF x
  <2>. QED BY <1>4, <1>7 DEF Ids, Domain
<1>. QED BY <1>1, <1>5, <1>6, <1>8 DEF Split

\* Every id handed out is in range and decodes to the node it was made for:
\* encodeNodeId is injective and decodeNodeId its inverse, whatever the keyed
\* round function and the radix are (opaqueid.ts, encodeNodeId, decodeNodeId).
THEOREM IdsRoundTrip == \A f \in RoundFunctions : RoundTrips(f)
<1>. SUFFICES ASSUME NEW f \in RoundFunctions, NEW seq \in Ids
              PROVE  /\ EncodeNodeId(f, seq) \in Ids
                     /\ DecodeNodeId(f, EncodeNodeId(f, seq)) = seq
  BY DEF RoundTrips
<1>. USE RadixAssumption
<1>1. seq % Domain = seq
  <2>1. Domain \in Nat \ {0} BY SMTT(20) DEF Domain
  <2>2. seq \in Nat /\ seq < Domain BY <2>1 DEF Ids
  <2>. QED BY <2>1, <2>2, SMTT(20)
<1>. DEFINE s == Split(seq)  p == Forward(f, s)
<1>2. s \in Halves /\ Joined(s) = seq BY SplitJoins
<1>. HIDE DEF s
<1>3. p \in Halves /\ Backward(f, p) = s BY <1>2, RoundsInvert
<1>. HIDE DEF p
<1>4. Joined(p) \in Ids /\ Split(Joined(p)) = p BY <1>3, JoinSplits
<1>5. EncodeNodeId(f, seq) = Joined(p) BY <1>1 DEF EncodeNodeId, p, s
<1>6. DecodeNodeId(f, Joined(p)) = seq
  BY <1>2, <1>3, <1>4 DEF DecodeNodeId
<1>. QED BY <1>4, <1>5, <1>6

-----------------------------------------------------------------------------
(* The token buckets *)

Spent(k) == granted[k] * Unit + bucket[k].tokens

\* A bucket of the cache has paid for every request counted: what was taken
\* and what is left came from one filling and the refill up to its last use.
\* One not used since the count began, or not made yet, let nothing through.
Paid(k) ==
  IF bucket[k].here /\ since[k] <= bucket[k].ts
    THEN Spent(k) <= Full + (bucket[k].ts - since[k]) * Rate
    ELSE granted[k] = 0

BucketInv ==
  /\ BucketsTypeOK
  /\ \A k \in Keys : since[k] <= clock /\ (bucket[k].here => bucket[k].ts <= clock)
  /\ \A k \in Keys : k \notin evicted => Paid(k)

\* Refill over two stretches of time adds up.
LEMMA RefillAdds ==
  ASSUME RateAssumption, NEW a \in Nat, NEW b \in Nat, NEW c \in Nat
  PROVE  /\ (b - a) * Rate + (c - b) * Rate = (c - a) * Rate
         /\ a <= b => (b - a) * Rate \in Nat
  BY SMT DEF RateAssumption

LEMMA FullIsNat == ASSUME RateAssumption PROVE Full \in Nat
  BY SMT DEF RateAssumption, Full

\* The bucket a request finds holds at most one filling, and what it has given
\* with what is left in it is paid for by the refill up to now.
LEMMA RefilledIsPaid ==
  ASSUME RateAssumption, BucketInv, NEW k \in Keys
  PROVE  LET tokens == Refilled(Get(k))
         IN  /\ tokens \in 0 .. Full
             /\ k \notin evicted => granted[k] * Unit + tokens <= Full + (clock - since[k]) * Rate
<1> DEFINE b == bucket[k]
           g == granted[k] * Unit
           tokens == Refilled(Get(k))
<1>1. /\ clock \in Nat /\ since[k] \in Nat /\ granted[k] \in Nat /\ since[k] <= clock
      /\ b.here \in BOOLEAN /\ b.tokens \in 0 .. Full /\ b.ts \in Nat
      /\ b.here => b.ts <= clock
  BY SMT DEF BucketInv, BucketsTypeOK
<1>2. Full \in Nat /\ Unit \in Nat /\ Rate \in Nat /\ g \in Nat
  BY <1>1, FullIsNat, SMT DEF RateAssumption
<1>3. (clock - since[k]) * Rate \in Nat
  BY <1>1, RefillAdds
<1>4. CASE ~b.here
  <2>1. tokens = Full
    BY <1>4, SMT DEF Refilled, Get, NoBucket
  <2>2. k \notin evicted => g = 0
    BY <1>1, <1>2, <1>4, SMT DEF BucketInv, Paid
  <2> QED BY <1>2, <1>3, <2>1, <2>2, SMT
<1>5. CASE b.here /\ clock - b.ts > IdleTtl
  <2>1. tokens = Full
    BY <1>1, <1>5, SMT DEF Refilled, Get, NoBucket, RateAssumption
  <2>2. Full <= (clock - b.ts) * Rate
    BY <1>1, <1>5, SMT DEF RateAssumption, Full
  <2>3. ASSUME k \notin evicted PROVE g + Full <= Full + (clock - since[k]) * Rate
    <3>1. CASE since[k] <= b.ts
      <4>1. g + b.tokens <= Full + (b.ts - since[k]) * Rate
        BY <1>5, <2>3, <3>1, SMT DEF BucketInv, Paid, Spent
      <4>2. (b.ts - since[k]) * Rate + (clock - b.ts) * Rate = (clock - since[k]) * Rate
        BY <1>1, RefillAdds, ZenonT(60)
      <4>3. (b.ts - since[k]) * Rate \in Int /\ (clock - b.ts) * Rate \in Int
        BY <1>1, <1>2, SMT
      <4> HIDE DEF g
      <4> QED BY <1>1, <1>2, <1>3, <2>2, <4>1, <4>2, <4>3, SMT
    <3>2. CASE ~(since[k] <= b.ts)
      BY <1>1, <1>2, <1>3, <2>3, <3>2, SMT DEF BucketInv, Paid
    <3> QED BY <3>1, <3>2
  <2> QED BY <1>2, <2>1, <2>3, SMT
<1>6. CASE b.here /\ ~(clock - b.ts > IdleTtl)
  <2> DEFINE refill == (clock - b.ts) * Rate
  <2>1. tokens = Capped(b.tokens + refill)
    BY <1>1, <1>6, SMT DEF Refilled, Get, RateAssumption
  <2>2. refill \in Nat
    BY <1>1, <1>6, RefillAdds
  <2>3. tokens \in 0 .. Full /\ tokens <= b.tokens + refill
    BY <1>1, <1>2, <2>1, <2>2, SMT DEF Capped
  <2>4. ASSUME k \notin evicted PROVE g + tokens <= Full + (clock - since[k]) * Rate
    <3>1. CASE since[k] <= b.ts
      <4>1. g + b.tokens <= Full + (b.ts - since[k]) * Rate
        BY <1>6, <2>4, <3>1, SMT DEF BucketInv, Paid, Spent
      <4>2. (b.ts - since[k]) * Rate + refill = (clock - since[k]) * Rate
        BY <1>1, RefillAdds, ZenonT(60)
      <4>3. (b.ts - since[k]) * Rate \in Int
        BY <1>1, <1>2, SMT
      <4> HIDE DEF g, tokens, refill
      <4> QED BY <1>1, <1>2, <1>3, <2>2, <2>3, <4>1, <4>2, <4>3, SMT
    <3>2. CASE ~(since[k] <= b.ts)
      <4>1. g = 0
        BY <1>1, <1>2, <2>4, <3>2, SMT DEF BucketInv, Paid
      <4> HIDE DEF g, tokens
      <4> QED BY <1>2, <1>3, <2>3, <4>1, SMT
    <3> QED BY <3>1, <3>2
  <2> QED BY <2>3, <2>4
<1> QED BY <1>1, <1>4, <1>5, <1>6

LEMMA InitBuckets == ASSUME RateAssumption PROVE BucketsInit => BucketInv
  BY FullIsNat, SMT DEF RateAssumption, BucketsInit, BucketInv, Paid, BucketsTypeOK, NoBucket

LEMMA NextBuckets == ASSUME RateAssumption, BucketInv, [BucketsNext]_bucketVars PROVE BucketInv'
<1>0. /\ BucketsTypeOK /\ Full \in Nat /\ Unit \in Nat \ {0} /\ Rate \in Nat
  BY FullIsNat DEF BucketInv, RateAssumption
<1>1. CASE Tick
  BY <1>0, <1>1, SMT DEF BucketInv, Paid, Spent, BucketsTypeOK, Tick
<1>2. ASSUME NEW k \in Keys, TakeToken(k) PROVE BucketInv'
  <2> DEFINE tokens == Refilled(Get(k))
             ok == tokens >= Unit
  <2>1. /\ tokens \in 0 .. Full
        /\ k \notin evicted => granted[k] * Unit + tokens <= Full + (clock - since[k]) * Rate
    BY RefilledIsPaid
  <2>2. /\ bucket' = [bucket EXCEPT ![k] =
             [here |-> TRUE, tokens |-> IF ok THEN tokens - Unit ELSE tokens, ts |-> clock]]
        /\ granted' = [granted EXCEPT ![k] = IF ok THEN granted[k] + 1 ELSE granted[k]]
        /\ clock' = clock /\ since' = since /\ evicted' = evicted
    BY <1>2 DEF TakeToken
  <2> HIDE DEF tokens
  <2>3. BucketsTypeOK'
    BY <1>0, <2>1, <2>2, SMT DEF BucketsTypeOK
  <2>4. \A x \in Keys : since'[x] <= clock' /\ (bucket'[x].here => bucket'[x].ts <= clock')
    BY <1>0, <2>2, SMT DEF BucketInv, BucketsTypeOK
  <2>5. ASSUME NEW x \in Keys, x \notin evicted' PROVE Paid(x)'
    <3>1. CASE x = k
      <4>1. /\ bucket'[k] = [here |-> TRUE, tokens |-> IF ok THEN tokens - Unit ELSE tokens, ts |-> clock]
            /\ granted'[k] = IF ok THEN granted[k] + 1 ELSE granted[k]
            /\ granted[k] \in Nat /\ since[k] <= clock
        BY <1>0, <2>2 DEF BucketsTypeOK, BucketInv
      <4>2. granted'[k] * Unit + bucket'[k].tokens = granted[k] * Unit + tokens
        <5>1. (granted[k] + 1) * Unit = granted[k] * Unit + Unit /\ granted[k] * Unit \in Nat
          BY <1>0, <4>1, SMT
        <5> QED BY <1>0, <2>1, <4>1, <5>1, SMT
      <4>3. bucket'[k].here /\ bucket'[k].ts = clock /\ since'[k] <= bucket'[k].ts
        BY <2>2, <4>1
      <4>4. Spent(k)' <= Full + (bucket'[k].ts - since'[k]) * Rate
        BY <2>1, <2>2, <2>5, <3>1, <4>2, <4>3 DEF Spent
      <4> QED BY <3>1, <4>3, <4>4 DEF Paid, Full
    <3>2. CASE x # k
      <4>1. bucket'[x] = bucket[x] /\ granted'[x] = granted[x] /\ since'[x] = since[x]
        BY <1>0, <2>2, <3>2 DEF BucketsTypeOK
      <4>2. Paid(x)
        BY <2>2, <2>5 DEF BucketInv
      <4> QED BY <4>1, <4>2 DEF Paid, Spent, Full
    <3> QED BY <3>1, <3>2
  <2> QED BY <2>3, <2>4, <2>5 DEF BucketInv
<1>3. ASSUME NEW k \in Keys, Evict(k) PROVE BucketInv'
  BY <1>0, <1>3, SMT DEF BucketInv, Paid, Spent, BucketsTypeOK, Evict, NoBucket
<1>4. ASSUME NEW k \in Keys, Watch(k) PROVE BucketInv'
  <2>1. BucketsTypeOK'
    BY <1>0, <1>4, SMT DEF BucketsTypeOK, Watch
  <2>2. \A x \in Keys : since'[x] <= clock' /\ (bucket'[x].here => bucket'[x].ts <= clock')
    BY <1>0, <1>4, SMT DEF BucketInv, BucketsTypeOK, Watch
  <2>3. ASSUME NEW x \in Keys, x \notin evicted' PROVE Paid(x)'
    <3>1. CASE x = k
      <4>1. since'[k] = clock /\ granted'[k] = 0 /\ bucket'[k] = bucket[k]
        BY <1>0, <1>4 DEF BucketsTypeOK, Watch
      <4>2. bucket[k].tokens \in 0 .. Full /\ bucket[k].ts \in Nat /\ clock \in Nat
            /\ (bucket[k].here => bucket[k].ts <= clock)
        BY <1>0 DEF BucketInv, BucketsTypeOK
      <4> QED BY <1>0, <3>1, <4>1, <4>2, SMT DEF Paid, Spent, Full
    <3>2. CASE x # k
      <4>1. bucket'[x] = bucket[x] /\ granted'[x] = granted[x] /\ since'[x] = since[x] /\ x \notin evicted
        BY <1>0, <1>4, <2>3, <3>2 DEF BucketsTypeOK, Watch
      <4> QED BY <4>1 DEF BucketInv, Paid, Spent, Full
    <3> QED BY <3>1, <3>2
  <2> QED BY <2>1, <2>2, <2>3 DEF BucketInv
<1>5. CASE UNCHANGED bucketVars
  BY <1>5 DEF BucketInv, Paid, Spent, BucketsTypeOK, bucketVars, Full
<1> QED BY <1>1, <1>2, <1>3, <1>4, <1>5 DEF BucketsNext

LEMMA BucketInvBounds == ASSUME RateAssumption, BucketInv PROVE GrantsBounded
<1> SUFFICES ASSUME NEW k \in Keys, k \notin evicted
             PROVE  granted[k] * Unit <= Full + (clock - since[k]) * Rate
  BY DEF GrantsBounded
<1> DEFINE tokens == Refilled(Get(k))
<1>1. tokens \in 0 .. Full /\ granted[k] * Unit + tokens <= Full + (clock - since[k]) * Rate
  BY RefilledIsPaid
<1>2. granted[k] * Unit \in Int /\ (clock - since[k]) * Rate \in Int /\ Full \in Nat
  BY FullIsNat, SMT DEF BucketInv, BucketsTypeOK, RateAssumption
<1> HIDE DEF tokens
<1> QED BY <1>1, <1>2, SMT

\* takeToken lets a key through at most Capacity times plus the refill of the
\* time that passed, in every window of every run, for every capacity and rate.
THEOREM GrantsAreBounded == ASSUME RateAssumption PROVE BucketsSpec => []GrantsBounded
<1>1. BucketsInit => BucketInv BY InitBuckets
<1>2. BucketInv /\ [BucketsNext]_bucketVars => BucketInv' BY NextBuckets
<1>3. BucketInv => GrantsBounded BY BucketInvBounds
<1> QED BY <1>1, <1>2, <1>3, PTL DEF BucketsSpec

-----------------------------------------------------------------------------
(* The labels of a node *)

\* What the lookups in progress and the cache hold is true of their address.
HeldIsTrue ==
  /\ \A ip \in Ips : cache[ip].country \in {NoCountry, Where[ip]}
  /\ \A x \in Handlers :
       /\ h[x].pc # "free" => h[x].node \in Nodes
       /\ h[x].pc = "lookup" => h[x].ip \in Ips
       /\ h[x].pc # "free" /\ h[x].ip # NoIp => h[x].ip \in reported[h[x].node]
       /\ h[x].country # NoCountry =>
            h[x].pc # "free" /\ h[x].ip \in Ips /\ Where[h[x].ip] = h[x].country

LabelsInv == LabelsTypeOK /\ HeldIsTrue /\ ChoiceStands /\ CountryHasSource

LEMMA Nones ==
  /\ NoIp \in AnyIp /\ NoCountry \in AnyCountry /\ NoName \in AnyName
  /\ NoRow \in Row /\ Free \in Handler
<1>1. NoIp \in AnyIp /\ NoCountry \in AnyCountry /\ NoName \in AnyName
  BY DEF AnyIp, AnyCountry, AnyName
<1> QED BY <1>1 DEF Row, NoRow, Handler, Free

LEMMA WhereType == ASSUME LabelsAssumption, NEW ip \in Ips PROVE Where[ip] \in AnyCountry
  BY DEF LabelsAssumption, AnyCountry

\* What the steps do to a row and to a handler.
LEMMA RowUpdates ==
  ASSUME NEW r \in Row
  PROVE  /\ \A name \in AnyName : [r EXCEPT !.name = name] \in Row
         /\ \A order \in Nat : [r EXCEPT !.order = order] \in Row
         /\ \A c \in AnyCountry, b \in BOOLEAN : [r EXCEPT !.country = c, !.manual = b] \in Row
  BY DEF Row

LEMMA HandlerUpdates ==
  ASSUME NEW r \in Handler
  PROVE  /\ \A pc \in {"lookup", "save"} : [r EXCEPT !.pc = pc] \in Handler
         /\ \A c \in AnyCountry : [r EXCEPT !.pc = "save", !.country = c] \in Handler
  BY DEF Handler

LEMMA NewHandler ==
  ASSUME NEW n \in Nodes, NEW ip \in AnyIp
  PROVE  [pc |-> "net", node |-> n, ip |-> ip, country |-> NoCountry] \in Handler
  BY Nones DEF Handler

LEMMA LabelledRow ==
  ASSUME NEW r \in Row, NEW ip \in AnyIp, NEW c \in AnyCountry,
         NEW order \in Nat
  PROVE  LET new == Labelled(r, ip, c, order)
         IN  /\ new \in Row
             /\ new.here /\ new.manual = r.manual
             /\ new.ip = IF ip = NoIp THEN r.ip ELSE ip
             /\ new.country = IF r.manual \/ c = NoCountry THEN r.country ELSE c
<1> DEFINE i == IF ip = NoIp THEN r.ip ELSE ip
           k == IF r.manual \/ c = NoCountry THEN r.country ELSE c
           new == [r EXCEPT !.here = TRUE, !.ip = i, !.order = order, !.country = k]
<1>1. i \in AnyIp /\ k \in AnyCountry
  BY DEF Row
<1>2. Labelled(r, ip, c, order) = new
  BY DEF Labelled, Known
<1> HIDE DEF i, k
<1>3. new \in Row /\ new.here /\ new.manual = r.manual /\ new.ip = i /\ new.country = k
  BY <1>1 DEF Row
<1> QED BY <1>2, <1>3 DEF i, k

LEMMA InitLabels == ASSUME LabelsAssumption, LabelsInit PROVE LabelsInv
<1>1. LabelsTypeOK
  BY Nones DEF LabelsInit, LabelsTypeOK, Unasked
<1>2. HeldIsTrue
  BY DEF LabelsInit, HeldIsTrue, Free, Unasked
<1>3. ChoiceStands /\ CountryHasSource
  BY DEF LabelsInit, ChoiceStands, CountryHasSource, NoRow
<1> QED BY <1>1, <1>2, <1>3 DEF LabelsInv

\* A report begins.
LEMMA ClientIpLabels ==
  ASSUME LabelsAssumption, LabelsInv, NEW x \in Handlers, NEW n \in Nodes,
         NEW ip \in AnyIp, ClientIp(x, n, ip)
  PROVE  LabelsInv'
<1>1. LabelsTypeOK /\ HeldIsTrue /\ ChoiceStands /\ CountryHasSource
  BY DEF LabelsInv
<1>2. h' \in [Handlers -> Handler] /\ reported' \in [Nodes -> SUBSET Ips]
      /\ UNCHANGED <<row, cache, chosen>>
  <2>1. [pc |-> "net", node |-> n, ip |-> ip, country |-> NoCountry] \in Handler
    BY NewHandler
  <2>2. h' \in [Handlers -> Handler]
    BY <1>1, <2>1 DEF LabelsTypeOK, ClientIp
  <2>3. (IF ip = NoIp THEN reported[n] ELSE reported[n] \cup {ip}) \in SUBSET Ips
    BY <1>1 DEF LabelsTypeOK, AnyIp
  <2>4. reported' \in [Nodes -> SUBSET Ips]
    BY <1>1, <2>3 DEF LabelsTypeOK, ClientIp
  <2> QED BY <2>2, <2>4 DEF ClientIp
<1>3. \A m \in Nodes : reported[m] \subseteq reported'[m]
  BY <1>1 DEF LabelsTypeOK, ClientIp
<1>4. LabelsTypeOK'
  BY <1>1, <1>2 DEF LabelsTypeOK
<1>5. HeldIsTrue'
  <2>1. ip # NoIp => ip \in reported'[n]
    BY <1>1 DEF LabelsTypeOK, ClientIp
  <2>2. h'[x] = [pc |-> "net", node |-> n, ip |-> ip, country |-> NoCountry]
    BY <1>1 DEF LabelsTypeOK, ClientIp
  <2>3. \A y \in Handlers \ {x} : h'[y] = h[y]
    BY <1>1 DEF LabelsTypeOK, ClientIp
  <2> QED BY <1>1, <1>2, <1>3, <2>1, <2>2, <2>3 DEF HeldIsTrue
<1>6. ChoiceStands' /\ CountryHasSource'
  BY <1>1, <1>2, <1>3 DEF ChoiceStands, CountryHasSource
<1> QED BY <1>4, <1>5, <1>6 DEF LabelsInv

\* It reads the row, asks where its address is, or gives up.
LEMMA HandlerLabels ==
  ASSUME LabelsAssumption, LabelsInv, NEW x \in Handlers,
         GetNodeNet(x) \/ ResolveCountry(x) \/ Abort(x)
  PROVE  LabelsInv'
<1>1. LabelsTypeOK /\ HeldIsTrue /\ ChoiceStands /\ CountryHasSource
  BY DEF LabelsInv
<1>2. UNCHANGED <<row, chosen, reported>>
  BY DEF GetNodeNet, ResolveCountry, Abort
<1>3. ChoiceStands' /\ CountryHasSource'
  BY <1>1, <1>2 DEF ChoiceStands, CountryHasSource
<1>4. CASE GetNodeNet(x)
  <2>1. \E pc \in {"lookup", "save"} :
          /\ h' = [h EXCEPT ![x].pc = pc] /\ h[x].pc = "net" /\ UNCHANGED cache
          /\ pc = "lookup" => h[x].ip # NoIp
    BY <1>4 DEF GetNodeNet, ShouldResolve
  <2>2. PICK pc \in {"lookup", "save"} :
          /\ h' = [h EXCEPT ![x].pc = pc] /\ h[x].pc = "net" /\ UNCHANGED cache
          /\ pc = "lookup" => h[x].ip # NoIp
    BY <2>1
  <2>3. LabelsTypeOK'
    <3>1. h' = [h EXCEPT ![x] = [h[x] EXCEPT !.pc = pc]]
      BY <2>2
    <3>2. [h[x] EXCEPT !.pc = pc] \in Handler
      BY <1>1, HandlerUpdates DEF LabelsTypeOK
    <3>3. h' \in [Handlers -> Handler]
      BY <1>1, <3>1, <3>2 DEF LabelsTypeOK
    <3> QED BY <1>1, <1>2, <2>2, <3>3 DEF LabelsTypeOK
  <2>4. h'[x] = [h[x] EXCEPT !.pc = pc] /\ \A y \in Handlers \ {x} : h'[y] = h[y]
    BY <1>1, <2>2 DEF LabelsTypeOK
  <2>5. HeldIsTrue'
    BY <1>1, <1>2, <2>2, <2>4 DEF HeldIsTrue, LabelsTypeOK
  <2> QED BY <1>3, <2>3, <2>5 DEF LabelsInv
<1>5. CASE ResolveCountry(x)
  <2>1. h[x].pc = "lookup" /\ h[x].ip \in Ips
    BY <1>1, <1>5 DEF ResolveCountry, HeldIsTrue
  <2>2. PICK c \in {NoCountry, Where[h[x].ip]} :
          /\ Resolved(x, c)
          /\ UNCHANGED cache \/ Remember(h[x].ip, c)
    BY <1>1, <1>5, <2>1 DEF ResolveCountry, HeldIsTrue
  <2>3. c \in AnyCountry
    BY <2>1, <2>2, Nones, WhereType
  <2>4. h'[x] = [h[x] EXCEPT !.pc = "save", !.country = c]
        /\ \A y \in Handlers \ {x} : h'[y] = h[y]
    BY <1>1, <2>2 DEF LabelsTypeOK, Resolved
  <2>5. LabelsTypeOK'
    <3>1. [h[x] EXCEPT !.pc = "save", !.country = c] \in Handler
      BY <1>1, <2>3, HandlerUpdates DEF LabelsTypeOK
    <3>2. h' \in [Handlers -> Handler]
      BY <1>1, <2>2, <3>1 DEF LabelsTypeOK, Resolved
    <3>3. cache' \in [Ips -> [known : BOOLEAN, country : AnyCountry]]
      <4>1. [known |-> TRUE, country |-> c] \in [known : BOOLEAN, country : AnyCountry]
        BY <2>3
      <4> QED BY <1>1, <2>1, <2>2, <4>1 DEF LabelsTypeOK, Remember
    <3> QED BY <1>1, <1>2, <3>2, <3>3 DEF LabelsTypeOK
  <2>6. \A ip \in Ips : cache'[ip].country \in {NoCountry, Where[ip]}
    BY <1>1, <2>1, <2>2 DEF LabelsTypeOK, HeldIsTrue, Remember
  <2>7. HeldIsTrue'
    <3>1. h[x] \in Handler
      BY <1>1 DEF LabelsTypeOK
    <3>2. /\ h'[x].pc = "save" /\ h'[x].country = c
          /\ h'[x].node = h[x].node /\ h'[x].ip = h[x].ip
      BY <2>4, <3>1 DEF Handler
    <3>3. c # NoCountry => Where[h[x].ip] = c
      BY <2>2
    <3>4. h[x].ip # NoIp => h[x].ip \in reported[h[x].node]
      BY <1>1, <2>1 DEF HeldIsTrue
    <3>5. h[x].node \in Nodes
      BY <1>1, <2>1 DEF HeldIsTrue
    <3> SUFFICES ASSUME NEW y \in Handlers
                 PROVE  /\ h'[y].pc # "free" => h'[y].node \in Nodes
                        /\ h'[y].pc = "lookup" => h'[y].ip \in Ips
                        /\ h'[y].pc # "free" /\ h'[y].ip # NoIp => h'[y].ip \in reported'[h'[y].node]
                        /\ h'[y].country # NoCountry =>
                             h'[y].pc # "free" /\ h'[y].ip \in Ips /\ Where[h'[y].ip] = h'[y].country
      BY <2>6 DEF HeldIsTrue
    <3>6. CASE y = x
      BY <1>2, <2>1, <3>2, <3>3, <3>4, <3>5, <3>6
    <3>7. CASE y # x
      BY <1>1, <1>2, <2>4, <3>7 DEF HeldIsTrue
    <3> QED BY <3>6, <3>7
  <2> QED BY <1>3, <2>5, <2>7 DEF LabelsInv
<1>6. CASE Abort(x)
  <2>1. LabelsTypeOK'
    BY <1>1, <1>6, Nones DEF LabelsTypeOK, Abort
  <2>2. HeldIsTrue'
    BY <1>1, <1>6 DEF LabelsTypeOK, HeldIsTrue, Abort, Free
  <2> QED BY <1>3, <2>1, <2>2 DEF LabelsInv
<1> QED BY <1>4, <1>5, <1>6

\* It writes the row.
LEMMA SaveReportLabels ==
  ASSUME LabelsAssumption, LabelsInv, NEW x \in Handlers, SaveReport(x)
  PROVE  LabelsInv'
<1> DEFINE n == h[x].node
<1>1. LabelsTypeOK /\ HeldIsTrue /\ ChoiceStands /\ CountryHasSource
  BY DEF LabelsInv
<1>2. n \in Nodes /\ h[x].pc = "save" /\ UNCHANGED <<cache, chosen, reported>>
      /\ h' = [h EXCEPT ![x] = Free]
  BY <1>1 DEF SaveReport, HeldIsTrue
<1>3. PICK order \in Nat :
        row' = [row EXCEPT ![n] = Labelled(row[n], h[x].ip, h[x].country, order)]
  BY DEF SaveReport
<1>4. row[n] \in Row /\ h[x].ip \in AnyIp /\ h[x].country \in AnyCountry
  <2>1. h[x] \in Handler
    BY <1>1 DEF LabelsTypeOK
  <2> QED BY <1>1, <1>2, <2>1 DEF LabelsTypeOK, Handler
<1> DEFINE new == Labelled(row[n], h[x].ip, h[x].country, order)
<1>5. /\ new \in Row
      /\ new.here /\ new.manual = row[n].manual
      /\ new.country = IF row[n].manual \/ h[x].country = NoCountry THEN row[n].country
                       ELSE h[x].country
  BY <1>4, LabelledRow
<1>6. row' = [row EXCEPT ![n] = new]
  BY <1>3
<1> HIDE DEF new, n
<1>7. row'[n] = new /\ \A m \in Nodes \ {n} : row'[m] = row[m]
  BY <1>1, <1>2, <1>6 DEF LabelsTypeOK
<1>8. LabelsTypeOK'
  <2>1. row' \in [Nodes -> Row]
    BY <1>1, <1>2, <1>5, <1>6 DEF LabelsTypeOK
  <2>2. h' \in [Handlers -> Handler]
    BY <1>1, <1>2, Nones DEF LabelsTypeOK
  <2> QED BY <1>1, <1>2, <2>1, <2>2 DEF LabelsTypeOK
<1>9. HeldIsTrue'
  BY <1>1, <1>2 DEF LabelsTypeOK, HeldIsTrue, Free
<1>10. ChoiceStands'
  BY <1>1, <1>2, <1>5, <1>7 DEF ChoiceStands
<1>11. CountryHasSource'
  <2>1. h[x].country # NoCountry =>
          h[x].ip \in reported[n] /\ Where[h[x].ip] = h[x].country
    BY <1>1, <1>2 DEF HeldIsTrue, LabelsAssumption, n
  <2>2. row'[n].country # NoCountry /\ ~row'[n].manual =>
          \E ip \in reported[n] : Where[ip] = row'[n].country
    BY <1>1, <1>2, <1>5, <1>7, <2>1 DEF CountryHasSource
  <2> QED BY <1>1, <1>2, <1>7, <2>2 DEF CountryHasSource
<1> QED BY <1>8, <1>9, <1>10, <1>11 DEF LabelsInv

\* The administrator's requests.
LEMMA AdministeringLabels ==
  ASSUME LabelsAssumption, LabelsInv, NEW n \in Nodes, Administering(n)
  PROVE  LabelsInv'
<1>1. LabelsTypeOK /\ HeldIsTrue /\ ChoiceStands /\ CountryHasSource
  BY DEF LabelsInv
<1>2. UNCHANGED <<cache, h, reported>>
  BY DEF Administering, SetNodeName, SetNodeCountry, DeleteNode
<1>3. HeldIsTrue'
  BY <1>1, <1>2 DEF HeldIsTrue
<1>4. ASSUME NEW name \in AnyName, SetNodeName(n, name)
      PROVE  LabelsInv'
  <2>1. LabelsTypeOK'
    <3> DEFINE given == IF row[n].here THEN name ELSE row[n].name
    <3>1. row[n] \in Row
      BY <1>1 DEF LabelsTypeOK
    <3>2. given \in AnyName
      BY <1>4, <3>1 DEF Row
    <3>3. row' = [row EXCEPT ![n] = [row[n] EXCEPT !.name = given]]
      BY <1>4 DEF SetNodeName
    <3> HIDE DEF given
    <3>4. [row[n] EXCEPT !.name = given] \in Row
      BY <3>1, <3>2, RowUpdates
    <3>5. row' \in [Nodes -> Row]
      BY <1>1, <3>3, <3>4 DEF LabelsTypeOK
    <3> QED BY <1>1, <1>2, <1>4, <3>5 DEF LabelsTypeOK, SetNodeName
  <2>2. \A m \in Nodes : /\ row'[m].here = row[m].here /\ row'[m].manual = row[m].manual
                         /\ row'[m].country = row[m].country
    BY <1>1, <1>4 DEF LabelsTypeOK, SetNodeName
  <2>3. ChoiceStands' /\ CountryHasSource'
    BY <1>1, <1>4, <2>2 DEF ChoiceStands, CountryHasSource, SetNodeName
  <2> QED BY <1>3, <2>1, <2>3 DEF LabelsInv
<1>5. ASSUME NEW c \in AnyCountry, SetNodeCountry(n, c)
      PROVE  LabelsInv'
  <2>1. LabelsTypeOK'
    <3>1. [row[n] EXCEPT !.country = c, !.manual = (c # NoCountry)] \in Row
      <4>1. row[n] \in Row /\ (c # NoCountry) \in BOOLEAN
        BY <1>1 DEF LabelsTypeOK
      <4> QED BY <4>1, RowUpdates
    <3>2. row' \in [Nodes -> Row]
      BY <1>1, <1>5, <3>1 DEF LabelsTypeOK, SetNodeCountry
    <3>3. chosen' \in [Nodes -> AnyCountry]
      BY <1>1, <1>5 DEF LabelsTypeOK, SetNodeCountry
    <3> QED BY <1>1, <1>2, <3>2, <3>3 DEF LabelsTypeOK
  <2>2. /\ row'[n].here /\ row'[n].country = c /\ row'[n].manual = (c # NoCountry)
        /\ chosen'[n] = c
        /\ \A m \in Nodes \ {n} : row'[m] = row[m] /\ chosen'[m] = chosen[m]
    BY <1>1, <1>5 DEF LabelsTypeOK, SetNodeCountry
  <2>3. ChoiceStands'
    BY <1>1, <2>2 DEF ChoiceStands
  <2>4. CountryHasSource'
    BY <1>1, <1>2, <2>2 DEF CountryHasSource
  <2> QED BY <1>3, <2>1, <2>3, <2>4 DEF LabelsInv
<1>6. CASE DeleteNode(n)
  <2>1. LabelsTypeOK'
    BY <1>1, <1>6, Nones DEF LabelsTypeOK, DeleteNode
  <2>2. /\ row'[n].country = NoCountry /\ chosen'[n] = NoCountry
        /\ \A m \in Nodes \ {n} : row'[m] = row[m] /\ chosen'[m] = chosen[m]
    BY <1>1, <1>6 DEF LabelsTypeOK, DeleteNode, NoRow
  <2>3. ChoiceStands'
    BY <1>1, <2>2 DEF ChoiceStands
  <2>4. CountryHasSource'
    BY <1>1, <1>2, <2>2 DEF CountryHasSource
  <2> QED BY <1>3, <2>1, <2>3, <2>4 DEF LabelsInv
<1> QED BY <1>4, <1>5, <1>6 DEF Administering

LEMMA SetNodeOrderLabels ==
  ASSUME LabelsInv, NEW listed \in SUBSET Nodes, NEW places \in [listed -> Nat],
         SetNodeOrder(places)
  PROVE  LabelsInv'
<1>1. LabelsTypeOK /\ HeldIsTrue /\ ChoiceStands /\ CountryHasSource
  BY DEF LabelsInv
<1>2. UNCHANGED <<cache, h, chosen, reported>>
  BY DEF SetNodeOrder
<1>3. \A m \in Nodes :
        row'[m] = IF m \in listed /\ row[m].here THEN [row[m] EXCEPT !.order = places[m]] ELSE row[m]
  BY DEF SetNodeOrder
<1>4. LabelsTypeOK'
  <2>1. \A m \in Nodes : row'[m] \in Row
    <3> SUFFICES ASSUME NEW m \in Nodes PROVE row'[m] \in Row
      OBVIOUS
    <3>1. row[m] \in Row
      BY <1>1 DEF LabelsTypeOK
    <3>2. m \in listed => [row[m] EXCEPT !.order = places[m]] \in Row
      BY <3>1, RowUpdates
    <3> QED BY <1>3, <3>1, <3>2
  <2>2. row' \in [Nodes -> Row]
    BY <2>1 DEF SetNodeOrder
  <2> QED BY <1>1, <1>2, <2>2 DEF LabelsTypeOK
<1>5. \A m \in Nodes : /\ row'[m].here = row[m].here /\ row'[m].manual = row[m].manual
                       /\ row'[m].country = row[m].country
  <2> SUFFICES ASSUME NEW m \in Nodes
               PROVE  /\ row'[m].here = row[m].here /\ row'[m].manual = row[m].manual
                      /\ row'[m].country = row[m].country
    OBVIOUS
  <2>1. row[m] \in Row
    BY <1>1 DEF LabelsTypeOK
  <2>2. \A k : LET r == [row[m] EXCEPT !.order = k]
              IN  r.here = row[m].here /\ r.manual = row[m].manual /\ r.country = row[m].country
    BY <2>1 DEF Row
  <2> QED BY <1>3, <2>2
<1>6. HeldIsTrue' /\ ChoiceStands' /\ CountryHasSource'
  BY <1>1, <1>2, <1>5 DEF HeldIsTrue, ChoiceStands, CountryHasSource
<1> QED BY <1>4, <1>6 DEF LabelsInv

LEMMA ForgetLabels ==
  ASSUME LabelsInv, NEW ip \in Ips, Forget(ip)
  PROVE  LabelsInv'
<1>1. LabelsTypeOK /\ HeldIsTrue /\ ChoiceStands /\ CountryHasSource
  BY DEF LabelsInv
<1>2. LabelsTypeOK'
  BY <1>1, Nones DEF LabelsTypeOK, Forget, Unasked
<1>3. HeldIsTrue'
  BY <1>1 DEF LabelsTypeOK, HeldIsTrue, Forget, Unasked
<1>4. ChoiceStands' /\ CountryHasSource'
  BY <1>1 DEF ChoiceStands, CountryHasSource, Forget
<1> QED BY <1>2, <1>3, <1>4 DEF LabelsInv

LEMMA NextLabels == ASSUME LabelsAssumption, LabelsInv, [LabelsNext]_labelVars PROVE LabelsInv'
<1>1. CASE \E x \in Handlers, n \in Nodes, ip \in AnyIp : ClientIp(x, n, ip)
  BY <1>1, ClientIpLabels
<1>2. CASE \E x \in Handlers : Reporting(x)
  BY <1>2, HandlerLabels, SaveReportLabels DEF Reporting
<1>3. CASE \E n \in Nodes : Administering(n)
  BY <1>3, AdministeringLabels
<1>4. CASE \E listed \in SUBSET Nodes : \E places \in [listed -> Nat] : SetNodeOrder(places)
  BY <1>4, SetNodeOrderLabels
<1>5. CASE \E ip \in Ips : Forget(ip)
  BY <1>5, ForgetLabels
<1>6. CASE UNCHANGED labelVars
  BY <1>6 DEF labelVars, LabelsInv, LabelsTypeOK, HeldIsTrue, ChoiceStands, CountryHasSource
<1> QED BY <1>1, <1>2, <1>3, <1>4, <1>5, <1>6 DEF LabelsNext

\* The country an administrator gave stands whatever lookups were under way,
\* and one nobody gave is that of an address the node reported from.
THEOREM CountriesAreFounded ==
  ASSUME LabelsAssumption
  PROVE  LabelsSpec => [](LabelsTypeOK /\ ChoiceStands /\ CountryHasSource)
<1>1. LabelsInit => LabelsInv
  BY InitLabels
<1>2. LabelsInv /\ [LabelsNext]_labelVars => LabelsInv'
  BY NextLabels
<1>3. LabelsInv => LabelsTypeOK /\ ChoiceStands /\ CountryHasSource
  BY DEF LabelsInv
<1> QED BY <1>1, <1>2, <1>3, PTL DEF LabelsSpec

\* geo.ts means a failed lookup to be tried again; once a node's row has a new
\* address with the country of the old one, no report from that address asks
\* again: neither a report's steps nor a new one change the row's country.
THEOREM OldCountryStays ==
  ASSUME LabelsAssumption, LabelsInv, NEW n \in Nodes, NEW ip \in Ips, NEW country \in Countries,
         LeftOver(n, ip, country), NEW x \in Handlers,
         \/ Reporting(x)
         \/ \E m \in Nodes, i \in AnyIp :
              ClientIp(x, m, i) /\ (m = n => i \in {ip, NoIp})
  PROVE  LeftOver(n, ip, country)'
<1>1. LabelsTypeOK /\ HeldIsTrue /\ country # NoCountry /\ ip # NoIp
  BY DEF LabelsInv, LabelsAssumption
<1>2. /\ row[n].here /\ row[n].ip = ip /\ row[n].country = country
      /\ \A y \in Handlers : h[y].node = n =>
           h[y].ip \in {ip, NoIp} /\ h[y].pc \in {"net", "save"} /\ h[y].country = NoCountry
  BY DEF LeftOver
<1>3. ASSUME h'[x].node = n =>
               h'[x].ip \in {ip, NoIp} /\ h'[x].pc \in {"net", "save"} /\ h'[x].country = NoCountry,
             \A y \in Handlers \ {x} : h'[y] = h[y],
             row'[n].here /\ row'[n].ip = ip /\ row'[n].country = country
      PROVE  LeftOver(n, ip, country)'
  BY <1>2, <1>3 DEF LeftOver
<1>4. CASE GetNodeNet(x)
  <2>1. /\ h[x].pc = "net" /\ UNCHANGED row /\ \A y \in Handlers \ {x} : h'[y] = h[y]
        /\ h'[x].node = h[x].node /\ h'[x].ip = h[x].ip /\ h'[x].country = h[x].country
        /\ h'[x].pc \in {"lookup", "save"}
        /\ ~ShouldResolve(h[x].ip, row[h[x].node].ip, row[h[x].node].country) => h'[x].pc = "save"
    BY <1>1, <1>4 DEF GetNodeNet, LabelsTypeOK
  <2>2. h[x].node = n => ~ShouldResolve(h[x].ip, row[n].ip, row[n].country)
    BY <1>1, <1>2 DEF ShouldResolve
  <2> QED BY <1>2, <1>3, <2>1, <2>2
<1>5. CASE ResolveCountry(x)
  <2>1. /\ h[x].node # n /\ UNCHANGED row /\ \A y \in Handlers \ {x} : h'[y] = h[y]
        /\ h'[x].node = h[x].node
    <3>1. h[x].pc = "lookup" /\ UNCHANGED row /\ \E c : Resolved(x, c)
      BY <1>5 DEF ResolveCountry
    <3>2. PICK c : Resolved(x, c)
      BY <3>1
    <3>3. h[x].node # n
      BY <1>2, <3>1
    <3> QED BY <1>1, <3>1, <3>2, <3>3 DEF Resolved, LabelsTypeOK
  <2> QED BY <1>2, <1>3, <2>1
<1>6. CASE Abort(x)
  <2>1. h'[x].node # n /\ UNCHANGED row /\ \A y \in Handlers \ {x} : h'[y] = h[y]
    BY <1>1, <1>6 DEF Abort, Free, LabelsTypeOK, LabelsAssumption
  <2> QED BY <1>2, <1>3, <2>1
<1>7. CASE SaveReport(x)
  <2>1. h'[x].node # n /\ \A y \in Handlers \ {x} : h'[y] = h[y]
    BY <1>1, <1>7 DEF SaveReport, Free, LabelsTypeOK, LabelsAssumption
  <2>2. h[x].node \in Nodes
    BY <1>1, <1>7 DEF SaveReport, HeldIsTrue
  <2>3. PICK order \in Nat :
          row' = [row EXCEPT ![h[x].node] =
                    Labelled(row[h[x].node], h[x].ip, h[x].country, order)]
    BY <1>7 DEF SaveReport
  <2>4. CASE h[x].node # n
    BY <1>1, <1>2, <1>3, <2>1, <2>3, <2>4 DEF LabelsTypeOK
  <2>5. CASE h[x].node = n
    <3> DEFINE new == Labelled(row[n], h[x].ip, h[x].country, order)
    <3>1. row[n] \in Row /\ h[x].ip \in {ip, NoIp} /\ h[x].country = NoCountry
      BY <1>1, <1>2, <2>5 DEF LabelsTypeOK
    <3>2. new.here /\ new.ip = ip /\ new.country = country
      <4>1. h[x].ip \in AnyIp /\ h[x].country \in AnyCountry
        BY <3>1, Nones DEF AnyIp
      <4>2. /\ new.here /\ new.ip = IF h[x].ip = NoIp THEN row[n].ip ELSE h[x].ip
            /\ new.country = IF row[n].manual \/ h[x].country = NoCountry THEN row[n].country
                             ELSE h[x].country
        BY <3>1, <4>1, LabelledRow
      <4> QED BY <1>1, <1>2, <3>1, <4>2
    <3> HIDE DEF new
    <3>3. row'[n] = new
      BY <1>1, <2>3, <2>5 DEF LabelsTypeOK, new
    <3> QED BY <1>3, <2>1, <3>2, <3>3
  <2> QED BY <2>4, <2>5
<1>8. CASE \E m \in Nodes, i \in AnyIp :
             ClientIp(x, m, i) /\ (m = n => i \in {ip, NoIp})
  <2>1. PICK m \in Nodes, i \in AnyIp :
          ClientIp(x, m, i) /\ (m = n => i \in {ip, NoIp})
    BY <1>8
  <2>2. /\ h'[x] = [pc |-> "net", node |-> m, ip |-> i, country |-> NoCountry]
        /\ UNCHANGED row /\ \A y \in Handlers \ {x} : h'[y] = h[y]
    BY <1>1, <2>1 DEF ClientIp, LabelsTypeOK
  <2> QED BY <1>2, <1>3, <2>1, <2>2
<1> QED BY <1>4, <1>5, <1>6, <1>7, <1>8 DEF Reporting

-----------------------------------------------------------------------------
(* Credentials *)

\* What the three versions left: a row says of one token only, in its digest,
\* its envelope or in the clear, and no two rows are about the same one.
Settled(tab) ==
  /\ \A i \in DOMAIN tab :
       /\ tab[i] \in Rows
       /\ DigestOf(tab[i]) # Null
       /\ tab[i].token # Null => tab[i].token = DigestOf(tab[i])
       /\ tab[i].sealed # Null => tab[i].sealed = tab[i].hash
  /\ \A i, j \in DOMAIN tab : DigestOf(tab[i]) = DigestOf(tab[j]) => i = j

\* In such a table, the rows a token selects are those about it.
LEMMA SelectIsDigest ==
  ASSUME CredentialsAssumption, NEW tab, Settled(tab), NEW t \in Secrets, NEW i \in DOMAIN tab
  PROVE  i \in Select(tab, t) <=> DigestOf(tab[i]) = t
BY DEF Select, Matches, DigestOf, Settled, CredentialsAssumption

LEMMA SettledRow ==
  ASSUME CredentialsAssumption, NEW tab, Settled(tab), NEW i \in DOMAIN tab
  PROVE  DigestOf(tab[i]) \in Secrets
BY DEF Settled, DigestOf, Rows

\* The migration of resolveRowToken changes no answer: whatever the table became
\* since the row was read, afterwards the rows are still in order, every token
\* selects the rows it did, every row keeps its node and what the key opens, and
\* the row read no longer holds its token in the clear.
THEOREM MigrationIsInvisible ==
  ASSUME CredentialsAssumption, NEW tab, Settled(tab), NEW kek \in Nat,
         NEW read \in Rows, Migrates(read, kek), read.token = DigestOf(read)
  PROVE  LET new == Migrated(tab, read, kek)
         IN  /\ Settled(new) /\ DOMAIN new = DOMAIN tab
             /\ \A t \in Secrets : Select(new, t) = Select(tab, t)
             /\ \A i \in DOMAIN tab :
                  /\ new[i].node = tab[i].node
                  /\ ResolveRowToken(tab[i], kek) \in {Null, ResolveRowToken(new[i], kek)}
                  /\ i \in Select(tab, DigestOf(read)) =>
                       new[i].token = Null /\ ResolveRowToken(new[i], kek) = DigestOf(read)
<1> DEFINE new == Migrated(tab, read, kek)
           d == DigestOf(read)
<1>1. d \in Secrets /\ d # Null /\ read.token = d
  BY DEF Migrates, Rows, DigestOf, CredentialsAssumption
<1>2. DOMAIN new = DOMAIN tab
  BY DEF Migrated
<1>3. ASSUME NEW i \in DOMAIN tab
      PROVE  IF DigestOf(tab[i]) = d
             THEN new[i] = [tab[i] EXCEPT !.sealed = d, !.under = kek, !.token = Null, !.hash = d]
             ELSE new[i] = tab[i]
  <2>1. Matches(tab[i], d, d) <=> DigestOf(tab[i]) = d
    BY <1>1, SelectIsDigest DEF Select
  <2>2. new[i] = IF Matches(tab[i], d, d)
                 THEN [tab[i] EXCEPT !.sealed = d, !.under = kek, !.token = Null,
                                     !.hash = IF @ # Null THEN @ ELSE d]
                 ELSE tab[i]
    BY <1>1 DEF Migrated
  <2>3. tab[i] \in Rows /\ (tab[i].hash # Null => DigestOf(tab[i]) = tab[i].hash)
    BY DEF Settled, DigestOf
  <2> QED BY <2>1, <2>2, <2>3
<1> HIDE DEF new, d
<1>4. ASSUME NEW i \in DOMAIN tab
      PROVE  /\ new[i] \in Rows /\ DigestOf(new[i]) = DigestOf(tab[i])
             /\ new[i].token # Null => new[i].token = DigestOf(new[i])
             /\ new[i].sealed # Null => new[i].sealed = new[i].hash
             /\ new[i].node = tab[i].node
             /\ ResolveRowToken(tab[i], kek) \in {Null, ResolveRowToken(new[i], kek)}
             /\ DigestOf(tab[i]) = d => new[i].token = Null /\ ResolveRowToken(new[i], kek) = d
  <2>1. /\ tab[i] \in Rows
        /\ tab[i].token # Null => tab[i].token = DigestOf(tab[i])
        /\ tab[i].sealed # Null => tab[i].sealed = tab[i].hash
    BY DEF Settled
  <2>2. CASE DigestOf(tab[i]) = d
    <3>1. /\ new[i].sealed = d /\ new[i].under = kek /\ new[i].token = Null /\ new[i].hash = d
          /\ new[i].node = tab[i].node /\ new[i] \in Rows
      BY <1>1, <1>3, <2>1, <2>2 DEF Rows
    <3>2. ResolveRowToken(new[i], kek) = d
      BY <1>1, <3>1 DEF ResolveRowToken, FromEnc
    <3>3. ResolveRowToken(tab[i], kek) \in {Null, d}
      BY <1>1, <2>1, <2>2 DEF ResolveRowToken, FromEnc, DigestOf
    <3> QED BY <1>1, <2>2, <3>1, <3>2, <3>3 DEF DigestOf
  <2>3. CASE DigestOf(tab[i]) # d
    BY <1>3, <2>1, <2>3
  <2> QED BY <2>2, <2>3
<1>5. Settled(new)
  BY <1>2, <1>4 DEF Settled
<1>6. ASSUME NEW t \in Secrets PROVE Select(new, t) = Select(tab, t)
  <2>1. \A i \in DOMAIN tab : i \in Select(new, t) <=> i \in Select(tab, t)
    BY <1>2, <1>4, <1>5, SelectIsDigest
  <2> QED BY <1>2, <2>1 DEF Select
<1>7. \A i \in DOMAIN tab : i \in Select(tab, d) => DigestOf(tab[i]) = d
  BY <1>1, SelectIsDigest
<1> QED BY <1>2, <1>4, <1>5, <1>6, <1>7 DEF new, d

\* What the settings show works: a token listed for a node is let in as that
\* node and no other, and one shown as free is not any known node's.
THEOREM ShownTokensWork ==
  ASSUME CredentialsAssumption, NEW tab, Settled(tab), NEW kek \in Nat, NEW known
  PROVE  /\ \A e \in ListNodeTokens(tab, kek) : NodeForToken(tab, e.token) = e.nodeId
         /\ \A t \in UnboundTokens(tab, kek, known) :
              NodeForToken(tab, t) = Null \/ NodeForToken(tab, t) \notin known
<1>1. ASSUME NEW e \in ListNodeTokens(tab, kek)
      PROVE  NodeForToken(tab, e.token) = e.nodeId
  <2>1. PICK i \in DOMAIN tab : /\ ResolveRowToken(tab[i], kek) # Null
                                /\ e = [token |-> ResolveRowToken(tab[i], kek), nodeId |-> tab[i].node]
    BY DEF ListNodeTokens
  <2>2. e.token = DigestOf(tab[i])
    BY <2>1 DEF Settled, ResolveRowToken, FromEnc, DigestOf
  <2>3. e.token \in Secrets /\ e.token # Null
    BY <2>2, SettledRow DEF CredentialsAssumption
  <2>4. \A j \in Select(tab, e.token) : j = i
    <3> TAKE j \in Select(tab, e.token)
    <3>1. j \in DOMAIN tab
      BY DEF Select
    <3> QED BY <2>2, <2>3, <3>1, SelectIsDigest DEF Settled
  <2>5. i \in Select(tab, e.token)
    BY <2>2, <2>3, SelectIsDigest
  <2>6. First(Select(tab, e.token)) = i
    BY <2>4, <2>5 DEF First
  <2> QED BY <2>1, <2>3, <2>5, <2>6 DEF NodeForToken
<1>2. ASSUME NEW t \in UnboundTokens(tab, kek, known)
      PROVE  NodeForToken(tab, t) = Null \/ NodeForToken(tab, t) \notin known
  BY <1>1 DEF UnboundTokens
<1> QED BY <1>1, <1>2

\* The gates agree: a token with a row is let in for exactly the node it is
\* answered tasks for, and without one only as the shared token, which is let
\* in for any host and never taken for a node; nothing and the empty string open
\* nothing, the cron route neither.
THEOREM GatesAgree ==
  ASSUME CredentialsAssumption, NEW tab, Settled(tab), NEW t \in Secrets \cup {Null},
         NEW shared \in Secrets \cup {Null}, NEW host \in Owners
  PROVE  /\ NodeForToken(tab, t) = host => /\ AuthorizeForHost(tab, shared, t, host)
                                           /\ AuthorizeAnyNode(tab, shared, t)
                                           /\ t # Null
         /\ AuthorizeForHost(tab, shared, t, host) =>
              /\ AuthorizeAnyNode(tab, shared, t)
              /\ \/ NodeForToken(tab, t) = host
                 \/ NodeForToken(tab, t) = Null /\ t = shared /\ t # Null
         /\ \A env, runtime \in Secrets \cup {Null} :
              /\ CronValid(env, runtime, [text |-> t]) => t # Null
              /\ ~CronValid(Null, Null, [text |-> t])
BY DEF NodeForToken, AuthorizeForHost, AuthorizeAnyNode, LegacyTokenMatch, CronValid, CronSecret,
       TokenFromHeader, CredentialsAssumption

\* In strict mode a host stays with the shared token it came with: while that is
\* remembered no other is let in as the host, and so, once the shared token was
\* replaced, nobody is, with the new one either, and the memory is not renewed.
THEOREM StrictModeLocksOut ==
  ASSUME CredentialsAssumption, NEW recent \in [Owners -> Secrets \cup {Null}],
         NEW host \in Owners, recent[host] # Null, NEW shared \in Secrets, NEW t \in Secrets
  PROVE  LET after == RecordLegacyBind(recent, TRUE, shared, host, t)
         IN  /\ AuthorizeLegacy(recent, TRUE, shared, host, t) => t = recent[host]
             /\ after[host] = recent[host]
             /\ shared # recent[host] => ~AuthorizeLegacy(recent, TRUE, shared, host, t)
BY DEF AuthorizeLegacy, RecordLegacyBind, LegacyBindRefuses, LegacyTokenMatch

\* Signing in and out over one scheme: what was signed in with is what the next
\* request presents, also after a move to HTTPS unless a session was signed in
\* there before; and signing out leaves nothing to present.  Over HTTP this needs
\* the flag that production sets to be off.
THEOREM CookiesFollowTheUser ==
  ASSUME CredentialsAssumption, NEW jar \in Jars, NEW session \in Secrets,
         NEW https \in BOOLEAN, NEW secure \in BOOLEAN, secure => https
  PROVE  /\ (secure \/ ~https \/ jar[TRUE] = Null) =>
              ReadSessionCookie(Presented(LoggedIn(jar, https, secure, session), https)) = session
         /\ jar[TRUE] = Null =>
              ReadSessionCookie(Presented(LoggedIn(jar, https, secure, session), TRUE)) = session
         /\ ReadSessionCookie(Presented(LoggedOut(jar, https, secure), https)) = Null
<1>1. TRUE # FALSE /\ session # Null /\ jar = [s \in BOOLEAN |-> jar[s]]
  BY DEF CredentialsAssumption, Jars
<1> DEFINE in == LoggedIn(jar, https, secure, session)
           out == LoggedOut(jar, https, secure)
<1>2. in[secure] = session /\ \A s \in BOOLEAN : s # secure => in[s] = jar[s]
  BY <1>1 DEF LoggedIn, Stored
<1>3. out[FALSE] = Null /\ (https => out[TRUE] = Null)
  BY <1>1 DEF LoggedOut, Stored, Jars
<1> HIDE DEF in, out
<1>4. \A s, over \in BOOLEAN :
              /\ Presented(in, over)[s] = IF s => over THEN in[s] ELSE Null
              /\ Presented(out, over)[s] = IF s => over THEN out[s] ELSE Null
  BY DEF Presented
<1>5. ReadSessionCookie(Presented(out, https)) = Null
  BY <1>3, <1>4 DEF ReadSessionCookie
<1>6. CASE secure
  BY <1>1, <1>2, <1>4, <1>5, <1>6 DEF ReadSessionCookie, in, out
<1>7. CASE ~secure
  BY <1>1, <1>2, <1>4, <1>5, <1>7 DEF ReadSessionCookie, in, out
<1> QED BY <1>6, <1>7

\* A hash verifies the password it was made of and no other, in either format,
\* and only the older format asks to be made anew.
THEOREM HashesVerify ==
  ASSUME CredentialsAssumption, NEW password, NEW guess, NEW salt
  PROVE  /\ VerifyPassword(guess, HashPassword(password, salt)) <=> guess = password
         /\ VerifyPassword(guess, LegacyHash(password, salt)) <=> guess = password
         /\ ~NeedsRehash(HashPassword(password, salt)) /\ NeedsRehash(LegacyHash(password, salt))
<1>1. /\ Plenty["now"] \in Nat /\ Plenty["now"] > 0 /\ Plenty["now"] >= Plenty["now"]
      /\ ~(Plenty["now"] < Plenty["now"])
  BY DEF CredentialsAssumption
<1>2. ParseScryptParams(CurrentCost)
  BY <1>1 DEF ParseScryptParams, CurrentCost
<1>3. ~NeedsRehash(HashPassword(password, salt))
  BY <1>1 DEF NeedsRehash, HashPassword, CurrentCost
<1>4. \A c : Derived(password, salt, c) = Derived(guess, salt, c) <=> guess = password
  BY DEF Derived
<1>5. /\ VerifyPassword(guess, HashPassword(password, salt))
           <=> Derived(password, salt, CurrentCost) = Derived(guess, salt, CurrentCost)
      /\ VerifyPassword(guess, LegacyHash(password, salt))
           <=> Derived(password, salt, DefaultCost) = Derived(guess, salt, DefaultCost)
  BY <1>2 DEF VerifyPassword, HashPassword, LegacyHash
<1> QED BY <1>3, <1>4, <1>5 DEF NeedsRehash, LegacyHash

\* No page of another site changes anything but through the calls that carry
\* credentials of their own, nor reads the servers of who is signed in; agents,
\* whose calls say nothing of a site, always come through.
THEOREM OtherSitesChangeNothing ==
  ASSUME NEW call \in Calls
  PROVE  /\ LetBy(call) /\ call.changes /\ call.path \in {"api", "nodes"} =>
              ~FromElsewhere(call) /\ ~OriginMismatch(call)
         /\ LetBy(call) /\ FromElsewhere(call) /\ call.path = "nodes" =>
              ~call.session /\ ~call.changes
         /\ call.path = "node" => LetBy(call)
BY DEF LetBy, Calls, FromElsewhere, OriginMismatch

-----------------------------------------------------------------------------
(* Charts *)

LEMMA ClampBounds ==
  ASSUME NEW v \in Int, NEW hi \in Nat
  PROVE  Clamp(v, 0, hi) \in 0 .. hi /\ (v \in 0 .. hi => Clamp(v, 0, hi) = v)
  BY SMT DEF Clamp

LEMMA HeightInBox ==
  ASSUME NEW v \in Int, NEW max \in Int
  PROVE  InBox(Height(v, max))
<1>1. SafeMax(max) \in Nat /\ SafeMax(max) > 0
  BY SMT DEF SafeMax
<1>2. Clamp(v, 0, SafeMax(max)) \in 0 .. SafeMax(max)
  BY <1>1, ClampBounds
<1> QED BY <1>1, <1>2, SMT DEF Height, Fraction, InBox

LEMMA AtInBox ==
  ASSUME NEW n \in Nat, NEW idx \in 1 .. n
  PROVE  InBox(At(idx, n))
  BY SMT DEF At, Fraction, InBox

\* Rounding to the nearest, as the multiples of the divisor see it.
LEMMA NearestBounds ==
  ASSUME NEW a \in Nat, NEW b \in Nat \ {0}
  PROVE  /\ Nearest(a, b) \in Nat
         /\ (2 * b) * Nearest(a, b) <= 2 * a + b
         /\ 2 * a + b < (2 * b) * Nearest(a, b) + 2 * b
<1>1. 2 * a + b \in Nat /\ 2 * b \in Nat \ {0}
  BY SMT
<1> QED BY <1>1, DivisionBounds DEF Nearest

LEMMA NearestStays ==
  ASSUME NEW a \in Nat, NEW b \in Nat \ {0}, NEW m \in Nat, a <= b * m
  PROVE  Nearest(a, b) <= m
<1> DEFINE r == Nearest(a, b)
           w == 2 * b
<1>1. r \in Nat /\ w * r <= 2 * a + b
  BY NearestBounds
<1>2. w \in Nat \ {0} /\ 2 * a + b < w * m + w
  <2>1. b * m \in Nat /\ w * m = 2 * (b * m)
    BY SMT
  <2> QED BY <2>1, SMT
<1> HIDE DEF r, w
<1>3. w * r < w * (m + 1)
  <2>1. w * r \in Nat /\ w * (m + 1) = w * m + w /\ w * m \in Nat
    BY <1>1, <1>2, SMT
  <2> QED BY <1>1, <1>2, <2>1, SMT
<1>4. r < m + 1
  <2> SUFFICES ASSUME r >= m + 1 PROVE FALSE
    BY <1>1, SMT
  <2>1. w * r >= w * (m + 1)
    BY <1>1, <1>2, SMT
  <2> QED BY <1>1, <1>2, <1>3, <2>1, SMT
<1> QED BY <1>1, <1>4, SMT DEF r

LEMMA NearestSteps ==
  ASSUME NEW a \in Nat, NEW c \in Nat, NEW b \in Nat \ {0}, c >= a + b
  PROVE  Nearest(c, b) > Nearest(a, b)
<1> DEFINE r == Nearest(a, b)
           s == Nearest(c, b)
           w == 2 * b
<1>1. r \in Nat /\ s \in Nat /\ w * r <= 2 * a + b /\ 2 * c + b < w * s + w
  BY NearestBounds
<1>2. w \in Nat \ {0} /\ 2 * c + b >= 2 * a + b + w
  BY SMT
<1> HIDE DEF r, s, w
<1>3. w * r + w < w * s + w
  <2>1. w * r \in Nat /\ w * s \in Nat
    BY <1>1, <1>2, SMT
  <2> QED BY <1>1, <1>2, <2>1, SMT
<1>4. r < s
  <2> SUFFICES ASSUME r >= s PROVE FALSE
    BY <1>1, SMT
  <2>1. w * r >= w * s
    BY <1>1, <1>2, SMT
  <2>2. w * r \in Nat /\ w * s \in Nat
    BY <1>1, <1>2, SMT
  <2> QED BY <1>2, <1>3, <2>1, <2>2, SMT
<1> QED BY <1>4 DEF r, s

\* Whatever the samples and the bound, the line is drawn in the box, from the left
\* edge to the right.
THEOREM LinesStayInside ==
  ASSUME NEW data \in Seq(Int), NEW max \in Int
  PROVE  LET line == PointsFor(data, max)
         IN  \A i \in DOMAIN line :
               /\ InBox(line[i].x) /\ InBox(line[i].y)
               /\ i = 1 => line[i].x.num = 0
               /\ i = Len(line) => line[i].x.num = 100 * line[i].x.den
<1> DEFINE line == PointsFor(data, max)
<1>1. CASE Len(data) = 1
  <2>1. line = <<[x |-> Fraction(0, 1), y |-> Height(data[1], max)],
                 [x |-> Fraction(100, 1), y |-> Height(data[1], max)]>>
    BY <1>1 DEF PointsFor
  <2>2. InBox(Height(data[1], max)) /\ InBox(Fraction(0, 1)) /\ InBox(Fraction(100, 1))
    BY <1>1, HeightInBox, SMT DEF InBox, Fraction
  <2>3. Fraction(0, 1).num = 0 /\ Fraction(100, 1).num = 100 * Fraction(100, 1).den
    BY DEF Fraction
  <2> HIDE DEF line
  <2>4. /\ Len(line) = 2 /\ DOMAIN line = 1 .. 2
        /\ line[1].x = Fraction(0, 1) /\ line[1].y = Height(data[1], max)
        /\ line[2].x = Fraction(100, 1) /\ line[2].y = Height(data[1], max)
    BY <2>1
  <2>5. \A i \in DOMAIN line : i = 1 \/ i = 2
    BY <2>4
  <2> QED BY <2>2, <2>3, <2>4, <2>5 DEF line
<1>2. CASE Len(data) # 1
  <2>1. line = [i \in 1 .. Len(data) |->
                  [x |-> Fraction(100 * (i - 1), Len(data) - 1), y |-> Height(data[i], max)]]
    BY <1>2 DEF PointsFor
  <2>2. Len(data) \in Nat /\ Len(line) = Len(data) /\ DOMAIN line = 1 .. Len(data)
    BY <2>1
  <2> HIDE DEF line
  <2>3. ASSUME NEW i \in DOMAIN line
        PROVE  /\ InBox(line[i].x) /\ InBox(line[i].y)
               /\ i = 1 => line[i].x.num = 0
               /\ i = Len(line) => line[i].x.num = 100 * line[i].x.den
    <3>1. /\ line[i].y = Height(data[i], max) /\ data[i] \in Int
          /\ line[i].x.num = 100 * (i - 1) /\ line[i].x.den = Len(data) - 1
      BY <2>1, <2>2 DEF Fraction
    <3>2. InBox(line[i].y)
      BY <3>1, HeightInBox
    <3>3. i \in 1 .. Len(data)
      BY <2>2
    <3> QED BY <2>2, <3>1, <3>2, <3>3, SMT DEF InBox
  <2> QED BY <2>3 DEF line
<1> QED BY <1>1, <1>2

\* Wherever the pointer is, the sample picked exists, its dot is on the line of
\* the series it was picked from, and those of shorter series are in the box.
THEOREM DotIsOnTheLine ==
  ASSUME NEW data \in Seq(Int), data # <<>>, NEW other \in Seq(Int), NEW max \in Int,
         NEW clientX \in Int, NEW left \in Int, NEW width \in Nat \ {0}
  PROVE  LET n   == Len(data)
             idx == Pick(clientX, left, width, n)
         IN  /\ idx \in 1 .. n
             /\ Dot(data, idx, n, max).y = PointsFor(data, max)[idx].y
             /\ n > 1 => Dot(data, idx, n, max) = PointsFor(data, max)[idx]
             /\ InBox(Dot(other, idx, n, max).x) /\ InBox(Dot(other, idx, n, max).y)
<1> DEFINE n   == Len(data)
           idx == Pick(clientX, left, width, n)
           c   == Clamp(clientX - left, 0, width)
<1>1. n \in Nat /\ n > 0
  BY SMT
<1>2. c \in 0 .. width
  <2>1. clientX - left \in Int /\ width \in Nat
    BY SMT
  <2> QED BY <2>1, ClampBounds
<1>3. idx \in 1 .. n
  <2> HIDE DEF n, c
  <2>1. c * (n - 1) \in Nat /\ c * (n - 1) <= width * (n - 1) /\ n - 1 \in Nat
    BY <1>1, <1>2, SMT
  <2>2. Nearest(c * (n - 1), width) \in Nat /\ Nearest(c * (n - 1), width) <= n - 1
    BY <2>1, NearestBounds, NearestStays
  <2>3. idx = 1 + Nearest(c * (n - 1), width)
    BY DEF Pick, c
  <2> QED BY <1>1, <2>2, <2>3, SMT
<1> HIDE DEF idx
<1>4. Dot(data, idx, n, max).y = Height(data[idx], max)
  BY <1>1, <1>3, SMT DEF Dot, Sampled
<1>5. PointsFor(data, max)[idx].y = Height(data[idx], max)
  BY <1>1, <1>3 DEF PointsFor
<1>6. n > 1 => Dot(data, idx, n, max) = PointsFor(data, max)[idx]
  <2> SUFFICES ASSUME n > 1 PROVE Dot(data, idx, n, max) = PointsFor(data, max)[idx]
    OBVIOUS
  <2>1. Dot(data, idx, n, max) = [x |-> Fraction(100 * (idx - 1), n - 1), y |-> Height(data[idx], max)]
    <3>1. At(idx, n) = Fraction(100 * (idx - 1), n - 1)
      BY DEF At
    <3>2. Sampled(data, idx) = data[idx]
      BY <1>1, <1>3, SMT DEF Sampled
    <3> QED BY <3>1, <3>2 DEF Dot
  <2>2. n # 1
    <3>1. \A k \in Nat : k > 1 => k # 1
      BY SMT
    <3> QED BY <1>1, <3>1
  <2>3. PointsFor(data, max)[idx]
          = [x |-> Fraction(100 * (idx - 1), n - 1), y |-> Height(data[idx], max)]
    BY <1>3, <2>2 DEF PointsFor
  <2> QED BY <2>1, <2>3
<1>7. Sampled(other, idx) \in Int
  BY <1>3 DEF Sampled
<1>8. InBox(Dot(other, idx, n, max).x) /\ InBox(Dot(other, idx, n, max).y)
  BY <1>1, <1>3, <1>7, AtInBox, HeightInBox DEF Dot
<1> QED BY <1>3, <1>4, <1>5, <1>6, <1>8 DEF idx

\* No bar is cut and none is dwarfed: the bound of a half is at least its peak and
\* at most two and a half times it.  Both halves have one scale: a rate is as
\* many per cent above the zero line as it is below.
THEOREM BarsAreWhole ==
  ASSUME NEW upload \in Seq(Nat), NEW download \in Seq(Nat), NEW upPeak \in Nat, NEW downPeak \in Nat,
         Peaks(upload, upPeak), Peaks(download, downPeak), NEW upBase \in Nat, NEW downBase \in Nat,
         Decade(upPeak, upBase), Decade(downPeak, downBase)
  PROVE  LET upMax   == NiceBound(upPeak, upBase)
             downMax == NiceBound(downPeak, downBase)
             middle  == Middle(upMax, downMax)
         IN  /\ upPeak <= upMax /\ 2 * upMax <= 5 * upPeak
             /\ downPeak <= downMax /\ 2 * downMax <= 5 * downPeak
             /\ \A i \in DOMAIN upload : LET y == YUp(upload[i], upMax, downMax)
                                         IN  InBox(y) /\ y.den = middle.den /\ middle.num - y.num = 100 * upload[i]
             /\ \A i \in DOMAIN download : LET y == YDown(download[i], upMax, downMax)
                                           IN  InBox(y) /\ y.den = middle.den /\ y.num - middle.num = 100 * download[i]
<1> DEFINE upMax   == NiceBound(upPeak, upBase)
           downMax == NiceBound(downPeak, downBase)
<1>1. ASSUME NEW p \in Nat, NEW b \in Nat, Decade(p, b), p >= 1
      PROVE  LET m == NiceBound(p, b) IN m \in Nat /\ m > 0 /\ p <= m /\ 2 * m <= 5 * p
  BY <1>1, SMT DEF Decade, NiceBound
<1>2. /\ upMax \in Nat /\ upMax > 0 /\ upPeak <= upMax /\ 2 * upMax <= 5 * upPeak
      /\ downMax \in Nat /\ downMax > 0 /\ downPeak <= downMax /\ 2 * downMax <= 5 * downPeak
  BY <1>1 DEF Peaks
<1> HIDE DEF upMax, downMax
<1>3. ASSUME NEW i \in DOMAIN upload
      PROVE  LET y == YUp(upload[i], upMax, downMax)
             IN  /\ InBox(y) /\ y.den = Middle(upMax, downMax).den
                 /\ Middle(upMax, downMax).num - y.num = 100 * upload[i]
  <2>1. upload[i] \in Nat /\ upload[i] <= upPeak
    BY DEF Peaks
  <2>2. Clamp(upload[i], 0, upMax) = upload[i] /\ upload[i] <= upMax
    BY <1>2, <2>1, SMT DEF Clamp
  <2> QED BY <1>2, <2>1, <2>2, SMTT(60) DEF YUp, Middle, Fraction, InBox
<1>4. ASSUME NEW i \in DOMAIN download
      PROVE  LET y == YDown(download[i], upMax, downMax)
             IN  /\ InBox(y) /\ y.den = Middle(upMax, downMax).den
                 /\ y.num - Middle(upMax, downMax).num = 100 * download[i]
  <2>1. download[i] \in Nat /\ download[i] <= downPeak
    BY DEF Peaks
  <2>2. Clamp(download[i], 0, downMax) = download[i] /\ download[i] <= downMax
    BY <1>2, <2>1, SMT DEF Clamp
  <2> QED BY <1>2, <2>1, <2>2, SMTT(60) DEF YDown, Middle, Fraction, InBox
<1> QED BY <1>2, <1>3, <1>4 DEF upMax, downMax

LEMMA TicksBounds ==
  ASSUME NEW bound \in Nat, NEW step \in Nat \ {0}
  PROVE  /\ TicksOf(bound, step) \in Nat /\ step * TicksOf(bound, step) <= bound
         /\ bound < step * TicksOf(bound, step) + step
  BY DivisionBounds DEF TicksOf

\* However unlike the two halves, and at any scale (in a unit in which the power
\* of ten is whole), the axis has three to ten lines besides zero,
\* and all of them are in the box.
THEOREM AxisIsReadable ==
  ASSUME NEW upMax \in Nat \ {0}, NEW downMax \in Nat \ {0}, NEW base \in Nat \ {0},
         Decade(upMax + downMax, 6 * base)
  PROVE  LET step == NiceStep(upMax + downMax, base)
         IN  /\ step \in Nat \ {0}
             /\ TicksOf(upMax, step) + TicksOf(downMax, step) \in 3 .. 10
             /\ \A k \in 1 .. TicksOf(upMax, step) : InBox(YUp(k * step, upMax, downMax))
             /\ \A k \in 1 .. TicksOf(downMax, step) : InBox(YDown(k * step, upMax, downMax))
<1> DEFINE total == upMax + downMax
           step == NiceStep(total, base)
           u == TicksOf(upMax, step)
           d == TicksOf(downMax, step)
<1>1. step \in Nat \ {0} /\ 21 * step <= 5 * total /\ 2 * total < 21 * step
  BY SMT DEF NiceStep, Decade
<1> HIDE DEF step
<1>2. /\ u \in Nat /\ step * u <= upMax /\ upMax < step * u + step
      /\ d \in Nat /\ step * d <= downMax /\ downMax < step * d + step
  BY <1>1, TicksBounds
<1> HIDE DEF u, d
<1>3. /\ step * (u + d) \in Nat /\ step * (u + d) = step * u + step * d
      /\ step * u \in Nat /\ step * d \in Nat
  BY <1>1, <1>2, SMT
<1>4. 2 * (step * (u + d)) < 21 * step /\ 21 * step < 5 * (step * (u + d)) + 10 * step
  BY <1>1, <1>2, <1>3, SMT
<1>5. u + d <= 10
  <2> SUFFICES ASSUME u + d >= 11 PROVE FALSE
    BY <1>2, SMT
  <2>1. step * (u + d) >= step * 11
    BY <1>1, <1>2, SMT
  <2> QED BY <1>1, <1>3, <1>4, <2>1, SMT
<1>6. u + d >= 3
  <2> SUFFICES ASSUME u + d <= 2 PROVE FALSE
    BY <1>2, SMT
  <2>1. step * (u + d) <= step * 2
    BY <1>1, <1>2, SMT
  <2> QED BY <1>1, <1>3, <1>4, <2>1, SMT
<1>7. ASSUME NEW v \in Int
      PROVE  InBox(YUp(v, upMax, downMax)) /\ InBox(YDown(v, upMax, downMax))
  <2>1. Clamp(v, 0, upMax) \in 0 .. upMax /\ Clamp(v, 0, downMax) \in 0 .. downMax
    BY ClampBounds
  <2> QED BY <2>1, SMT DEF YUp, YDown, Fraction, InBox
<1>8. \A k \in Nat : k * step \in Int
  BY <1>1, SMT
<1>9. /\ \A k \in 1 .. u : InBox(YUp(k * step, upMax, downMax))
      /\ \A k \in 1 .. d : InBox(YDown(k * step, upMax, downMax))
  <2>1. \A k \in 1 .. u : k * step \in Int
    BY <1>2, <1>8, SMT
  <2>2. \A k \in 1 .. d : k * step \in Int
    BY <1>2, <1>8, SMT
  <2> QED BY <1>7, <2>1, <2>2
<1>10. u + d \in 3 .. 10
  BY <1>2, <1>5, <1>6, SMT
<1> QED BY <1>1, <1>9, <1>10 DEF step, u, d

\* The labels of the time axis begin with the first sample and end with the last,
\* and unless there is only one no two stand for the same.
THEOREM TimesAreSpread ==
  ASSUME NEW last \in Nat \ {0}
  PROVE  /\ XTick(0, last) = 1 /\ XTick(XCount(last) - 1, last) = last
         /\ \A k \in 0 .. XCount(last) - 1 : XTick(k, last) \in 1 .. last
         /\ last > 1 => \A k \in 1 .. XCount(last) - 1 : XTick(k - 1, last) < XTick(k, last)
<1> DEFINE c == XCount(last) - 1
           m == last - 1
<1>1. c \in Nat \ {0} /\ m \in Nat /\ (last > 1 => c <= m)
  BY SMT DEF XCount
<1>2. \A k : XTick(k, last) = 1 + Nearest(k * m, c)
  BY DEF XTick
<1> HIDE DEF c, m
<1>3. Nearest(0 * m, c) = 0 /\ Nearest(c * m, c) = m
  <2>1. 0 * m = 0 /\ c * m \in Nat
    BY <1>1, SMT
  <2>2. Nearest(0, c) = 0
    <3>1. Nearest(0, c) \in Nat /\ Nearest(0, c) <= 0
      BY <1>1, NearestStays, NearestBounds, SMT
    <3> QED BY <3>1, SMT
  <2>3. Nearest(c * m, c) \in Nat /\ Nearest(c * m, c) <= m
    BY <1>1, <2>1, NearestStays, NearestBounds
  <2>4. Nearest(c * m, c) >= m
    <3> DEFINE r == Nearest(c * m, c)
    <3>1. 2 * (c * m) + c < (2 * c) * r + 2 * c
      BY <1>1, <2>1, NearestBounds
    <3> HIDE DEF r
    <3> SUFFICES ASSUME r < m PROVE FALSE
      BY <1>1, <2>3, SMT DEF r
    <3>2. r \in Nat /\ r + 1 <= m
      BY <1>1, <2>3, SMT DEF r
    <3>3. c * (r + 1) <= c * m /\ (2 * c) * r + 2 * c = 2 * (c * (r + 1)) /\ c * (r + 1) \in Nat
      BY <1>1, <3>2, SMT
    <3> QED BY <1>1, <2>1, <3>1, <3>3, SMT
  <2> QED BY <1>1, <2>1, <2>2, <2>3, <2>4, SMT
<1>4. ASSUME NEW k \in 0 .. c PROVE XTick(k, last) \in 1 .. last
  <2>1. k * m \in Nat /\ k * m <= c * m
    BY <1>1, SMT
  <2>2. Nearest(k * m, c) \in Nat /\ Nearest(k * m, c) <= m
    BY <1>1, <2>1, NearestStays, NearestBounds
  <2> QED BY <1>2, <2>2, SMT DEF m
<1>5. ASSUME last > 1, NEW k \in 1 .. c PROVE XTick(k - 1, last) < XTick(k, last)
  <2>1. k * m = (k - 1) * m + m /\ k * m \in Nat /\ (k - 1) * m \in Nat
    BY <1>1, SMT
  <2>2. k * m >= (k - 1) * m + c
    BY <1>1, <1>5, <2>1, SMT
  <2>3. Nearest((k - 1) * m, c) < Nearest(k * m, c)
    BY <1>1, <2>1, <2>2, NearestSteps
  <2>4. Nearest((k - 1) * m, c) \in Nat /\ Nearest(k * m, c) \in Nat
    BY <1>1, <2>1, NearestBounds
  <2> QED BY <1>2, <2>3, <2>4, SMT
<1>6. XTick(0, last) = 1 /\ XTick(c, last) = last
  BY <1>2, <1>3, SMT DEF m
<1> QED BY <1>4, <1>5, <1>6 DEF c

-----------------------------------------------------------------------------
(* Lists of servers *)

\* The filters and the groups: the two regions are apart and together leave out
\* exactly the servers nobody knows the country of, the two states leave out none,
\* and a form shows every server in one group, never an empty one.
THEOREM ListsArePartitions ==
  ASSUME NEW nodes \in SUBSET Servers, nodes # {}, NEW region \in {"all", "cn", "oversea"},
         NEW status \in {"all", "online", "offline"}, NEW groupBy \in {"region", "status", "none"}
  PROVE  /\ Filtered(nodes, "cn", status) \cap Filtered(nodes, "oversea", status) = {}
         /\ Filtered(nodes, "cn", status) \cup Filtered(nodes, "oversea", status)
              = {n \in Filtered(nodes, "all", status) : n.country # "unknown"}
         /\ Filtered(nodes, region, "online") \cap Filtered(nodes, region, "offline") = {}
         /\ Filtered(nodes, region, "online") \cup Filtered(nodes, region, "offline")
              = Filtered(nodes, region, "all")
         /\ \A n \in nodes : \E g \in BuildGroups(nodes, groupBy) :
              /\ n \in g
              /\ \A f \in BuildGroups(nodes, groupBy) : n \in f => f = g
         /\ \A g \in BuildGroups(nodes, groupBy) : g # {} /\ g \subseteq nodes
<1>1. \A n \in nodes : n.online \in BOOLEAN /\ n.country \in {"cn", "other", "unknown"}
  BY DEF Servers
<1>2. /\ Filtered(nodes, "cn", status) \cap Filtered(nodes, "oversea", status) = {}
      /\ Filtered(nodes, "cn", status) \cup Filtered(nodes, "oversea", status)
           = {n \in Filtered(nodes, "all", status) : n.country # "unknown"}
  BY <1>1 DEF Filtered
<1>3. /\ Filtered(nodes, region, "online") \cap Filtered(nodes, region, "offline") = {}
      /\ Filtered(nodes, region, "online") \cup Filtered(nodes, region, "offline")
           = Filtered(nodes, region, "all")
  BY <1>1 DEF Filtered
<1>4. CASE groupBy = "none"
  BY <1>2, <1>3, <1>4 DEF BuildGroups
<1>5. CASE groupBy = "status"
  <2>1. BuildGroups(nodes, groupBy) = {g \in {Online(nodes), nodes \ Online(nodes)} : g # {}}
    BY <1>5 DEF BuildGroups
  <2>2. ASSUME NEW n \in nodes
        PROVE  \E g \in BuildGroups(nodes, groupBy) :
                 n \in g /\ \A f \in BuildGroups(nodes, groupBy) : n \in f => f = g
    <3>1. CASE n.online
      <4>1. Online(nodes) \in BuildGroups(nodes, groupBy) /\ n \in Online(nodes)
        BY <2>1, <3>1 DEF Online
      <4>2. \A f \in BuildGroups(nodes, groupBy) : n \in f => f = Online(nodes)
        BY <2>1, <4>1
      <4> QED BY <4>1, <4>2
    <3>2. CASE ~n.online
      <4>1. /\ nodes \ Online(nodes) \in BuildGroups(nodes, groupBy)
            /\ n \in nodes \ Online(nodes)
        BY <2>1, <3>2 DEF Online
      <4>2. \A f \in BuildGroups(nodes, groupBy) : n \in f => f = nodes \ Online(nodes)
        BY <2>1, <4>1
      <4> QED BY <4>1, <4>2
    <3> QED BY <3>1, <3>2
  <2>3. \A g \in BuildGroups(nodes, groupBy) : g # {} /\ g \subseteq nodes
    BY <2>1 DEF Online
  <2> QED BY <1>2, <1>3, <2>2, <2>3
<1>6. CASE groupBy = "region"
  <2> DEFINE G(c) == {n \in nodes : n.country = c}
  <2>1. BuildGroups(nodes, groupBy) = {g \in {G(c) : c \in {"cn", "other", "unknown"}} : g # {}}
    BY <1>6 DEF BuildGroups
  <2>2. ASSUME NEW n \in nodes
        PROVE  \E g \in BuildGroups(nodes, groupBy) :
                 n \in g /\ \A f \in BuildGroups(nodes, groupBy) : n \in f => f = g
    <3>1. G(n.country) \in BuildGroups(nodes, groupBy) /\ n \in G(n.country)
      BY <1>1, <2>1
    <3>2. \A f \in BuildGroups(nodes, groupBy) : n \in f => f = G(n.country)
      BY <2>1
    <3> QED BY <3>1, <3>2
  <2>3. \A g \in BuildGroups(nodes, groupBy) : g # {} /\ g \subseteq nodes
    BY <2>1
  <2> QED BY <1>2, <1>3, <2>2, <2>3
<1> QED BY <1>4, <1>5, <1>6

\* What the form's button says of a task is what the task does: all servers
\* probe it when it says so, and taking the last one off an allowlist is the same
\* as putting every server on it.
THEOREM SummaryIsTrue ==
  ASSUME NEW ids, NEW value \in SUBSET ids, NEW exclude \in BOOLEAN, NEW id \in ids
  PROVE  LET task(v) == [enabled |-> TRUE, exclude |-> exclude, nodeIds |-> v]
         IN  /\ Summary(value, exclude) = "all" => \A n \in ids : AssignedTo(task(value), n)
             /\ Summary(value, exclude) = "all but" => ~ \A n \in ids : AssignedTo(task(value), n)
             /\ (\A n \in ids : AssignedTo(task(value), n)) =>
                  Summary(value, exclude) = "all" \/ value = ids
             /\ value = {id} => \A n \in ids : AssignedTo(task(Toggle(value, id)), n)
             /\ Toggle(Toggle(value, id), id) = value
BY DEF Summary, AssignedTo, Toggle

\* Sorting is by a strict weak order, whichever column, and turning the direction
\* round turns the order round.
THEOREM OrdersAreConsistent ==
  ASSUME NEW a \in Servers, NEW b \in Servers, NEW c \in Servers,
         NEW mode \in Modes, NEW dir \in {"asc", "desc"}
  PROVE  /\ ~(SortedBefore(a, b, mode, dir) /\ SortedBefore(b, a, mode, dir))
         /\ SortedBefore(a, b, mode, dir) =>
              SortedBefore(a, c, mode, dir) \/ SortedBefore(c, b, mode, dir)
         /\ SortedBefore(a, b, mode, "asc") <=> SortedBefore(b, a, mode, "desc")
<1>1. a.key[mode] \in Int /\ b.key[mode] \in Int /\ c.key[mode] \in Int
  BY DEF Servers
<1> QED BY <1>1, SMT DEF SortedBefore, Compare

-----------------------------------------------------------------------------
(***************************************************************************)
(* The generated settings.  A request in the middle of loading the cipher  *)
(* has the halves that are stored; a process holds the stored cipher, but  *)
(* for the halves that a request of its own is replacing.                  *)
(***************************************************************************)

TweakOnly == <<"idCipherTweak">>

\* What a request has still to do and has got, at each of its stages.
Fits(q) ==
  /\ q.pc \in {"idle", "schema", "post", "write", "reload"} => q.got = NoCipher
  /\ q.pc = "schema" => IF q.post THEN q.todo \in {<<>>, Cipher} ELSE q.todo = Page
  /\ q.pc = "post" => q.todo \in {<<>>, Cipher}
  /\ q.pc = "write" => q.todo \in {Cipher, TweakOnly}
  /\ q.pc \in {"lookup", "generate"} =>
       \/ q.todo \in {Page, Cipher} /\ q.got = NoCipher
       \/ q.todo = TweakOnly /\ q.got["idCipherKey"] # 0 /\ q.got["idCipherTweak"] = 0
  /\ q.pc = "memoise" => \A k \in CipherKeys : q.got[k] # 0
Staged(r) == Fits(req[r])
Stages == \A r \in Requests : Staged(r)

\* A cipher that is held is whole, and a value that is to be drawn is absent,
\* unless somebody else drew it.
Whole == \A p \in Procs : Held(p) => \A k \in CipherKeys : memo[p][k] # 0
Missing ==
  \A r \in Requests :
    req[r].pc = "generate" /\ Wants(r) \notin torn => GetSetting(Wants(r)) = 0

\* r has replaced k and not dropped the memo of its process yet.
Replacing(r, k) ==
  \/ req[r].pc = "reload"
  \/ req[r].pc = "write" /\ req[r].todo = TweakOnly /\ k = "idCipherKey"
Replaced == \A r \in Requests, k \in CipherKeys : Replacing(r, k) => GetSetting(k) # 0

Calm == torn \cap CipherKeys = {}
Gotten ==
  Calm => \A r \in Requests, k \in CipherKeys :
            req[r].got[k] # 0 => req[r].got[k] = GetSetting(k)
Agreed ==
  Calm => \A p \in Procs : Held(p) => \A k \in CipherKeys :
            \/ memo[p][k] = GetSetting(k)
            \/ \E r \in Requests : req[r].proc = p /\ Replacing(r, k)

SettingsInv ==
  TypeOK /\ Stages /\ Whole /\ Missing /\ Replaced /\ Gotten /\ Agreed /\ ShownTokenStored

LEMMA Lists ==
  /\ Head(Page) = NodeToken /\ Tail(Page) = Cipher /\ Len(Page) = 3
  /\ Head(Cipher) = "idCipherKey" /\ Tail(Cipher) = TweakOnly /\ Len(Cipher) = 2
  /\ Head(TweakOnly) = "idCipherTweak" /\ Tail(TweakOnly) = <<>> /\ Len(TweakOnly) = 1
  /\ <<>> \in Seq(SettingKeys) /\ Page \in Seq(SettingKeys)
  /\ Cipher \in Seq(SettingKeys) /\ TweakOnly \in Seq(SettingKeys)
<1>1. Head(Page) = NodeToken /\ Tail(Page) = Cipher /\ Len(Page) = 3
  BY DEF Page, Cipher
<1>2. Head(Cipher) = "idCipherKey" /\ Tail(Cipher) = TweakOnly /\ Len(Cipher) = 2
  BY DEF Cipher, TweakOnly
<1>3. Head(TweakOnly) = "idCipherTweak" /\ Tail(TweakOnly) = <<>> /\ Len(TweakOnly) = 1
  BY DEF TweakOnly
<1>4. {"idCipherKey", "idCipherTweak", NodeToken} \subseteq SettingKeys
  BY DEF SettingKeys, CipherKeys
<1>5. Page \in Seq(SettingKeys) /\ Cipher \in Seq(SettingKeys) /\ TweakOnly \in Seq(SettingKeys)
  BY <1>4 DEF Page, Cipher, TweakOnly
<1>6. <<>> \in Seq(SettingKeys)
  OBVIOUS
<1> QED BY <1>1, <1>2, <1>3, <1>5, <1>6

LEMMA ListsDiffer ==
  /\ Page # <<>> /\ Cipher # <<>> /\ TweakOnly # <<>>
  /\ Page # Cipher /\ Page # TweakOnly /\ Cipher # TweakOnly
<1>1. Page # <<>> /\ Cipher # <<>> /\ TweakOnly # <<>>
  BY DEF Page, Cipher, TweakOnly
<1>2. Len(Page) = 3 /\ Len(Cipher) = 2 /\ Len(TweakOnly) = 1
  BY Lists
<1>3. Page # Cipher /\ Page # TweakOnly /\ Cipher # TweakOnly
  BY <1>2
<1> QED BY <1>1, <1>3

LEMMA KeysAre ==
  /\ CipherKeys = {"idCipherKey", "idCipherTweak"} /\ NodeToken \notin CipherKeys
  /\ SettingKeys = CipherKeys \cup {NodeToken}
  /\ NoCipher \in [CipherKeys -> Nat] /\ \A k \in CipherKeys : NoCipher[k] = 0
BY DEF CipherKeys, NodeToken, SettingKeys, NoCipher

LEMMA IdleTyped == Idle \in Request /\ Idle.pc = "idle" /\ Idle.got = NoCipher
<1>1. (CHOOSE p \in Procs : TRUE) \in Procs
  BY SettingsAssumption
<1>2. <<>> \in Seq(SettingKeys)
  OBVIOUS
<1> QED BY <1>1, <1>2, KeysAre DEF Idle, Request

LEMMA ReqTyped ==
  ASSUME TypeOK, NEW r \in Requests
  PROVE  /\ req[r] \in Request /\ req[r].proc \in Procs /\ req[r].todo \in Seq(SettingKeys)
         /\ req[r].got \in [CipherKeys -> Nat]
         /\ req[r].pc \in {"idle", "schema", "post", "write", "reload", "lookup", "generate",
                           "memoise"}
BY DEF TypeOK, Request

\* Some value is in nobody's hands: there are more values than hands.
LEMMA SomeFresh ==
  ASSUME TypeOK, NEW k \in SettingKeys
  PROVE  Fresh(k) \in Nat \ {0}
<1> DEFINE n == Cardinality(Requests) + Cardinality(Procs) + 3
           held == {memo[p][k] : p \in Procs}
           got == {req[r].got[k] : r \in Requests}
           taken == (held \cup got) \cup {rows[k]}
           free(v) == /\ v # rows[k]
                      /\ IF k = NodeToken THEN v # shown
                         ELSE /\ \A p \in Procs : v # memo[p][k]
                              /\ \A r \in Requests : v # req[r].got[k]
<1>1. /\ Cardinality(Requests) \in Nat /\ Cardinality(Procs) \in Nat /\ n \in Nat
      /\ IsFiniteSet(Requests) /\ IsFiniteSet(Procs)
  BY SettingsAssumption, FS_CardinalityType
<1>2. ASSUME NEW T, IsFiniteSet(T), Cardinality(T) <= Cardinality(Requests) + Cardinality(Procs) + 2
      PROVE  \E v \in 1..n : v \notin T
  <2>1. IsFiniteSet(1..n) /\ Cardinality(1..n) = n
    <3> HIDE DEF n
    <3> QED BY <1>1, FS_Interval, SMTT(60)
  <2>2. Cardinality(T) \in Nat
    BY <1>2, FS_CardinalityType
  <2> SUFFICES ASSUME 1..n \subseteq T PROVE FALSE
    OBVIOUS
  <2>3. Cardinality(1..n) <= Cardinality(T)
    BY <1>2, FS_Subset
  <2> QED BY <1>1, <1>2, <2>1, <2>2, <2>3
<1>3. IsFiniteSet(held) /\ Cardinality(held) <= Cardinality(Procs)
  <2> DEFINE f == [p \in Procs |-> memo[p][k]]
  <2>1. f \in Surjection(Procs, held)
    BY DEF Surjection
  <2> QED BY <1>1, <2>1, FS_Surjection
<1>4. IsFiniteSet(got) /\ Cardinality(got) <= Cardinality(Requests)
  <2> DEFINE f == [r \in Requests |-> req[r].got[k]]
  <2>1. f \in Surjection(Requests, got)
    BY DEF Surjection
  <2> QED BY <1>1, <2>1, FS_Surjection
<1> HIDE DEF held, got
<1>5. /\ IsFiniteSet(taken)
      /\ Cardinality(taken) <= Cardinality(Requests) + Cardinality(Procs) + 2
  <2> DEFINE u == held \cup got
  <2>1. Cardinality(held) \in Nat /\ Cardinality(got) \in Nat /\ Cardinality(held \cap got) \in Nat
    <3>1. IsFiniteSet(held \cap got)
      BY <1>3, FS_Subset
    <3> QED BY <1>3, <1>4, <3>1, FS_CardinalityType
  <2>2. /\ IsFiniteSet(u)
        /\ Cardinality(u) = Cardinality(held) + Cardinality(got) - Cardinality(held \cap got)
    BY <1>3, <1>4, FS_Union
  <2>3. Cardinality(u) \in Nat /\ Cardinality(u) <= Cardinality(held) + Cardinality(got)
    <3>1. Cardinality(u) \in Nat
      BY <2>2, FS_CardinalityType
    <3> HIDE DEF u
    <3> QED BY <2>1, <2>2, <3>1
  <2> HIDE DEF u
  <2>4. /\ IsFiniteSet(u \cup {rows[k]})
        /\ Cardinality(u \cup {rows[k]}) \in {Cardinality(u), Cardinality(u) + 1}
    BY <2>2, FS_AddElement
  <2>5. IsFiniteSet(taken) /\ Cardinality(taken) \in {Cardinality(u), Cardinality(u) + 1}
    BY <2>4 DEF u
  <2> HIDE DEF taken
  <2> QED BY <1>1, <1>3, <1>4, <2>1, <2>3, <2>5
<1>6. \E v \in 1..n : free(v)
  <2>1. CASE k # NodeToken
    <3>1. PICK v \in 1..n : v \notin taken
      BY <1>2, <1>5
    <3>2. v # rows[k] /\ v \notin held /\ v \notin got
      BY <3>1
    <3>3. (\A p \in Procs : v # memo[p][k]) /\ \A r \in Requests : v # req[r].got[k]
      BY <3>2 DEF held, got
    <3> QED BY <2>1, <3>1, <3>2, <3>3
  <2>2. CASE k = NodeToken
    <3>1. IsFiniteSet({rows[k]}) /\ Cardinality({rows[k]}) = 1
      BY FS_Singleton
    <3>2. IsFiniteSet({rows[k]} \cup {shown}) /\ Cardinality({rows[k]} \cup {shown}) \in {1, 2}
      BY <3>1, FS_AddElement
    <3>3. Cardinality({rows[k]} \cup {shown}) <= Cardinality(Requests) + Cardinality(Procs) + 2
      BY <1>1, <3>2
    <3>4. PICK v \in 1..n : v \notin {rows[k]} \cup {shown}
      BY <1>2, <3>2, <3>3
    <3> QED BY <2>2, <3>4
  <2> QED BY <2>1, <2>2
<1>7. Fresh(k) = CHOOSE v \in 1..n : free(v)
  BY DEF Fresh
<1> HIDE DEF free
<1>8. Fresh(k) \in 1..n
  BY <1>6, <1>7
<1> HIDE DEF n
<1> QED BY <1>1, <1>8

\* One request moves, to a stage that fits it.
LEMMA OneMoves ==
  ASSUME TypeOK, Stages, NEW r \in Requests, NEW q \in Request, req' = [req EXCEPT ![r] = q]
  PROVE  /\ req' \in [Requests -> Request] /\ req'[r] = q
         /\ \A s \in Requests \ {r} : req'[s] = req[s]
         /\ \A s \in Requests \ {r} : Staged(s)'
<1>1. req' \in [Requests -> Request] /\ req'[r] = q /\ \A s \in Requests \ {r} : req'[s] = req[s]
  BY DEF TypeOK
<1>2. ASSUME NEW s \in Requests \ {r} PROVE Staged(s)'
  <2>1. req'[s] = req[s] /\ Staged(s)
    BY <1>1 DEF Stages
  <2> QED BY <2>1 DEF Staged, Fits
<1> QED BY <1>1, <1>2

\* A step that writes no half of a cipher and drops no memo, and in which a
\* request gets what is stored or nothing, keeps the cipher in order.
LEMMA CipherStays ==
  ASSUME SettingsInv, memo' = memo, torn \subseteq torn',
         \A k \in CipherKeys : rows'[k] = rows[k],
         \A r \in Requests, k \in CipherKeys :
           req'[r].got[k] \in {0, req[r].got[k], GetSetting(k)},
         \A r \in Requests, k \in CipherKeys : Replacing(r, k)' => Replacing(r, k),
         Calm' => \A r \in Requests, k \in CipherKeys :
                    Replacing(r, k) => Replacing(r, k)' /\ req'[r].proc = req[r].proc
  PROVE  Whole' /\ Replaced' /\ Gotten' /\ Agreed'
<1>1. \A k \in CipherKeys : GetSetting(k)' = GetSetting(k)
  BY DEF GetSetting
<1>2. \A p \in Procs : Held(p)' = Held(p)
  BY DEF Held
<1>3. Calm' => Calm
  BY DEF Calm
<1>4. Whole'
  BY <1>2 DEF SettingsInv, Whole
<1>5. Replaced'
  BY <1>1 DEF SettingsInv, Replaced
<1>6. Gotten'
  <2> SUFFICES ASSUME Calm', NEW r \in Requests, NEW k \in CipherKeys, req'[r].got[k] # 0
               PROVE  req'[r].got[k] = GetSetting(k)'
    BY DEF Gotten
  <2>1. req[r].got[k] # 0 => req[r].got[k] = GetSetting(k)
    BY <1>3 DEF SettingsInv, Gotten
  <2> QED BY <1>1, <2>1
<1>7. Agreed'
  <2> SUFFICES ASSUME Calm', NEW p \in Procs, Held(p)', NEW k \in CipherKeys,
                      memo[p][k] # GetSetting(k)
               PROVE  \E r \in Requests : req'[r].proc = p /\ Replacing(r, k)'
    BY <1>1 DEF Agreed
  <2>1. PICK r \in Requests : req[r].proc = p /\ Replacing(r, k)
    BY <1>2, <1>3 DEF SettingsInv, Agreed
  <2> QED BY <2>1
<1> QED BY <1>4, <1>5, <1>6, <1>7

\* The same, for a step of one request that keeps what it has got and goes to
\* no stage of a replacement.
LEMMA OneMovesOn ==
  ASSUME SettingsInv, NEW r \in Requests, NEW q \in Request, req' = [req EXCEPT ![r] = q],
         memo' = memo, torn \subseteq torn', \A k \in CipherKeys : rows'[k] = rows[k],
         \A k \in CipherKeys : q.got[k] \in {0, req[r].got[k], GetSetting(k)},
         q.pc # "reload", q.pc = "write" => q.todo # TweakOnly,
         Calm' => \A k \in CipherKeys : ~Replacing(r, k)
  PROVE  Whole' /\ Replaced' /\ Gotten' /\ Agreed'
<1>1. TypeOK /\ Stages
  BY DEF SettingsInv
<1>2. req'[r] = q /\ \A s \in Requests \ {r} : req'[s] = req[s]
  BY <1>1, OneMoves
<1>3. \A k : ~Replacing(r, k)'
  BY <1>2 DEF Replacing
<1>4. \A s \in Requests \ {r} : \A k : Replacing(s, k)' <=> Replacing(s, k)
  BY <1>2 DEF Replacing
<1>5. \A s \in Requests, k \in CipherKeys : req'[s].got[k] \in {0, req[s].got[k], GetSetting(k)}
  BY <1>2
<1> QED BY <1>2, <1>3, <1>4, <1>5, CipherStays

Jobs == [post : BOOLEAN, refused : BOOLEAN, cut : BOOLEAN]

LEMMA Begins ==
  ASSUME SettingsInv, NEW r \in Requests, NEW p \in Procs, NEW todo, NEW job \in Jobs,
         Begin(r, p, todo, job), posts' \in 0 .. MaxPosts,
         IF job.post THEN todo \in {<<>>, Cipher} ELSE todo = Page
  PROVE  SettingsInv'
<1>1. TypeOK /\ Stages /\ UNCHANGED <<rows, up, memo, faults, shown, torn>>
  BY DEF SettingsInv, Begin
<1> DEFINE q == [Idle EXCEPT
       !.pc = IF schema[p] = "done" THEN Entry(job) ELSE "schema",
       !.proc = p, !.todo = todo, !.post = job.post,
       !.refused = job.refused, !.cut = job.cut]
<1>2. /\ q.got = NoCipher /\ q.todo = todo /\ q.post = job.post /\ q.proc = p
      /\ q.pc = IF schema[p] = "done" THEN Entry(job) ELSE "schema"
      /\ q \in Request
  <2>1. todo \in Seq(SettingKeys)
    BY Lists
  <2>2. /\ Entry(job) \in {"post", "lookup"} /\ job.post \in BOOLEAN
        /\ job.refused \in BOOLEAN /\ job.cut \in BOOLEAN
    BY DEF Entry, Jobs
  <2> QED BY <2>1, <2>2, IdleTyped, KeysAre DEF Idle, Request
<1>3. req' = [req EXCEPT ![r] = q] /\ req[r].pc = "idle"
  BY DEF Begin
<1> HIDE DEF q
<1>4. /\ req' \in [Requests -> Request] /\ req'[r] = q
      /\ \A s \in Requests \ {r} : req'[s] = req[s] /\ Staged(s)'
  BY <1>1, <1>2, <1>3, OneMoves
<1>5. TypeOK'
  <2>1. schema' \in [Procs -> {"none", "running", "done"}]
    BY <1>1 DEF Begin, TypeOK
  <2> QED BY <1>1, <1>4, <2>1 DEF TypeOK
<1>6. Stages'
  <2>1. Staged(r)'
    BY <1>2, <1>4 DEF Staged, Fits, Entry
  <2> QED BY <1>4, <2>1 DEF Stages
<1>pc. q.pc \in {"schema", "post", "lookup"}
  BY <1>2 DEF Entry
<1>7. Missing'
  <2> SUFFICES ASSUME NEW s \in Requests, req'[s].pc = "generate", Wants(s)' \notin torn
               PROVE  GetSetting(Wants(s)') = 0
    BY <1>1 DEF Missing, GetSetting
  <2>1. s # r
    BY <1>4, <1>pc
  <2>2. req'[s] = req[s]
    BY <1>4, <2>1
  <2> QED BY <2>2 DEF SettingsInv, Missing, Wants
<1>8. Whole' /\ Replaced' /\ Gotten' /\ Agreed'
  <2>1. \A k \in CipherKeys : q.got[k] \in {0, req[r].got[k], GetSetting(k)}
    BY <1>2, KeysAre
  <2>2. \A k \in CipherKeys : ~Replacing(r, k)
    BY <1>3 DEF Replacing
  <2> QED BY <1>1, <1>2, <1>3, <1>pc, <2>1, <2>2, OneMovesOn
<1>9. ShownTokenStored'
  BY <1>1 DEF SettingsInv, ShownTokenStored, GetSetting
<1> QED BY <1>5, <1>6, <1>7, <1>8, <1>9 DEF SettingsInv

LEMMA RequestsArrive ==
  ASSUME SettingsInv, NEW r \in Requests, NEW p \in Routes[r], GetPage(r, p) \/ Post(r, p)
  PROVE  SettingsInv'
<1>1. p \in Procs
  BY SettingsAssumption
<1>2. CASE GetPage(r, p)
  <2>1. NoPost \in Jobs /\ ~NoPost.post
    BY DEF NoPost, Jobs
  <2>2. posts' \in 0 .. MaxPosts
    BY <1>2 DEF GetPage, SettingsInv, TypeOK
  <2>3. Begin(r, p, Page, NoPost)
    BY <1>2 DEF GetPage
  <2> QED BY <1>1, <2>1, <2>2, <2>3, Begins
<1>3. CASE Post(r, p)
  <2>1. PICK job \in {[post |-> TRUE, refused |-> a, cut |-> b] :
                   a, b \in BOOLEAN} \ {[post |-> TRUE, refused |-> TRUE, cut |-> TRUE]} :
          \E ids \in IF job.refused \/ job.cut THEN {Cipher} ELSE {<<>>, Cipher} :
            Begin(r, p, ids, job)
    BY <1>3 DEF Post
  <2>2. PICK ids \in {<<>>, Cipher} : Begin(r, p, ids, job)
    BY <2>1
  <2>3. job \in Jobs /\ job.post
    <3>1. PICK a \in BOOLEAN, b \in BOOLEAN : job = [post |-> TRUE, refused |-> a, cut |-> b]
      BY <2>1
    <3> QED BY <3>1 DEF Jobs
  <2>4. posts' \in 0 .. MaxPosts
    BY <1>3, SettingsAssumption DEF Post, SettingsInv, TypeOK
  <2> QED BY <1>1, <2>2, <2>3, <2>4, Begins
<1> QED BY <1>2, <1>3

LEMMA SchemaSteps ==
  ASSUME SettingsInv, NEW p \in Procs, SchemaRuns(p) \/ SchemaFails(p)
  PROVE  SettingsInv'
<1>1. TypeOK /\ Stages /\ UNCHANGED <<rows, up, memo, posts, faults, shown, torn>>
  BY DEF SettingsInv, SchemaRuns, SchemaFails
<1>2. schema' \in [Procs -> {"none", "running", "done"}]
  BY <1>1 DEF SchemaRuns, SchemaFails, AfterFailure, TypeOK
<1>3. ASSUME NEW r \in Requests
      PROVE  \/ req'[r] = req[r]
             \/ req[r].pc = "schema" /\ req'[r] = [req[r] EXCEPT !.pc = Entry(req[r])]
             \/ req[r].pc = "schema" /\ req'[r] = Idle
  <2>1. r \in Waiters(p) => req[r].pc = "schema"
    BY DEF Waiters
  <2> QED BY <2>1 DEF SchemaRuns, SchemaFails
<1>4. ASSUME NEW r \in Requests
      PROVE  /\ req'[r] \in Request /\ Staged(r)'
             /\ req'[r] = req[r] \/ ( /\ req'[r].got = NoCipher /\ req[r].pc = "schema"
                                      /\ req'[r].pc \in {"idle", "post", "lookup"})
  <2>1. CASE req'[r] = req[r]
    <3>1. Staged(r)
      BY <1>1 DEF Stages
    <3> QED BY <1>1, <2>1, <3>1, ReqTyped DEF Staged, Fits
  <2>2. CASE req[r].pc = "schema" /\ req'[r] = [req[r] EXCEPT !.pc = Entry(req[r])]
    <3> DEFINE q == [req[r] EXCEPT !.pc = Entry(req[r])]
    <3>1. Entry(req[r]) = IF req[r].post THEN "post" ELSE "lookup"
      BY DEF Entry
    <3>2. /\ q \in Request /\ q.pc = Entry(req[r]) /\ q.got = req[r].got /\ q.todo = req[r].todo
      BY <1>1, <3>1, ReqTyped DEF Request
    <3>3. Staged(r)
      BY <1>1 DEF Stages
    <3>4. req'[r] = q
      BY <2>2
    <3> HIDE DEF q
    <3> QED BY <2>2, <3>1, <3>2, <3>3, <3>4 DEF Staged, Fits
  <2>3. CASE req[r].pc = "schema" /\ req'[r] = Idle
    BY <2>3, IdleTyped DEF Staged, Fits
  <2> QED BY <1>3, <2>1, <2>2, <2>3
<1>5. TypeOK'
  <2>1. req' \in [Requests -> Request]
    <3>1. CASE SchemaRuns(p)
      <4> DEFINE f(r) == IF r \in Waiters(p) THEN [req[r] EXCEPT !.pc = Entry(req[r])] ELSE req[r]
      <4>1. req' = [r \in Requests |-> f(r)]
        BY <3>1 DEF SchemaRuns
      <4> HIDE DEF f
      <4>2. \A r \in Requests : f(r) = req'[r]
        BY <4>1
      <4> QED BY <1>4, <4>1, <4>2
    <3>2. CASE SchemaFails(p)
      <4> DEFINE f(r) == IF r \in Waiters(p) THEN Idle ELSE req[r]
      <4>1. req' = [r \in Requests |-> f(r)]
        BY <3>2 DEF SchemaFails
      <4> HIDE DEF f
      <4>2. \A r \in Requests : f(r) = req'[r]
        BY <4>1
      <4> QED BY <1>4, <4>1, <4>2
    <3> QED BY <3>1, <3>2
  <2> QED BY <1>1, <1>2, <2>1 DEF TypeOK
<1>6. Stages'
  BY <1>4 DEF Stages
<1>7. Missing'
  <2> SUFFICES ASSUME NEW s \in Requests, req'[s].pc = "generate", Wants(s)' \notin torn
               PROVE  GetSetting(Wants(s)') = 0
    BY <1>1 DEF Missing, GetSetting
  <2>1. req'[s] = req[s]
    BY <1>4
  <2> QED BY <2>1 DEF SettingsInv, Missing, Wants
<1>8. Whole' /\ Replaced' /\ Gotten' /\ Agreed'
  <2>1. \A r \in Requests, k \in CipherKeys :
          req'[r].got[k] \in {0, req[r].got[k], GetSetting(k)}
    BY <1>4, KeysAre
  <2>2. \A r \in Requests, k \in CipherKeys :
          /\ Replacing(r, k)' <=> Replacing(r, k)
          /\ Replacing(r, k) => req'[r].proc = req[r].proc
    BY <1>4 DEF Replacing
  <2> QED BY <1>1, <2>1, <2>2, CipherStays
<1>9. ShownTokenStored'
  BY <1>1 DEF SettingsInv, ShownTokenStored, GetSetting
<1> QED BY <1>5, <1>6, <1>7, <1>8, <1>9 DEF SettingsInv


\* A step of r that writes no half of the cipher, and no value that another is
\* about to generate unless that is torn.
LEMMA QuietStep ==
  ASSUME SettingsInv, NEW r \in Requests, NEW q \in Request, req' = [req EXCEPT ![r] = q],
         rows' \in [SettingKeys -> Nat \cup {Sealed}], shown' \in Nat,
         torn' \subseteq SettingKeys, torn \subseteq torn',
         UNCHANGED <<up, schema, memo, posts, faults>>,
         \A k \in CipherKeys : rows'[k] = rows[k],
         \A s \in Requests \ {r} :
           req[s].pc = "generate" =>
             Wants(s) \in torn' \/ rows'[Wants(s)] = rows[Wants(s)],
         Fits(q), q.pc # "reload", q.pc = "write" => q.todo # TweakOnly,
         q.pc = "generate" => rows'[Head(q.todo)] \in {0, Sealed},
         \A k \in CipherKeys : q.got[k] \in {0, req[r].got[k], GetSetting(k)},
         Calm' => \A k \in CipherKeys : ~Replacing(r, k),
         ShownTokenStored'
  PROVE  SettingsInv'
<1>1. TypeOK /\ Stages
  BY DEF SettingsInv
<1>2. /\ req' \in [Requests -> Request] /\ req'[r] = q
      /\ \A s \in Requests \ {r} : req'[s] = req[s] /\ Staged(s)'
  BY <1>1, OneMoves
<1>3. TypeOK'
  BY <1>1, <1>2 DEF TypeOK
<1>4. Stages'
  BY <1>2 DEF Stages, Staged
<1>5. Missing'
  <2> SUFFICES ASSUME NEW s \in Requests, req'[s].pc = "generate", Wants(s)' \notin torn'
               PROVE  GetSetting(Wants(s))' = 0
    BY DEF Missing
  <2>1. CASE s = r
    <3>1. rows'[Wants(s)'] \in {0, Sealed}
      BY <1>2, <2>1 DEF Wants
    <3> QED BY <3>1 DEF GetSetting
  <2>2. CASE s # r
    <3>1. req'[s] = req[s] /\ Wants(s)' = Wants(s)
      BY <1>2, <2>2 DEF Wants
    <3>2. rows'[Wants(s)] = rows[Wants(s)] /\ Wants(s) \notin torn
      BY <2>2, <3>1
    <3>3. GetSetting(Wants(s)) = 0
      BY <3>1, <3>2 DEF SettingsInv, Missing
    <3> QED BY <3>1, <3>2, <3>3 DEF GetSetting
  <2> QED BY <2>1, <2>2
<1>6. Whole' /\ Replaced' /\ Gotten' /\ Agreed'
  BY OneMovesOn
<1> QED BY <1>3, <1>4, <1>5, <1>6 DEF SettingsInv

\* Writing half of a cipher: whoever had the old half counts as torn.
LEMMA CipherWritten ==
  ASSUME SettingsInv, NEW r \in Requests, NEW k \in CipherKeys, Write(r, k),
         NEW q \in Request, req' = [req EXCEPT ![r] = q],
         UNCHANGED <<up, schema, memo, posts, faults, shown>>,
         Fits(q), q.proc = req[r].proc, q.pc # "generate",
         q.got[k] \in {0, Fresh(k)},
         \A j \in CipherKeys \ {k} : q.got[j] = req[r].got[j],
         \A j \in CipherKeys \ {k} : Replacing(r, j) <=> Replacing(r, j)',
         Calm' => (\A p \in Procs : ~Held(p)) \/ Replacing(r, k)'
  PROVE  SettingsInv'
<1>1. TypeOK /\ Stages /\ k \in SettingKeys /\ k # NodeToken
  BY KeysAre DEF SettingsInv
<1>2. /\ req' \in [Requests -> Request] /\ req'[r] = q
      /\ \A s \in Requests \ {r} : req'[s] = req[s] /\ Staged(s)'
  BY <1>1, OneMoves
<1> DEFINE v == Fresh(k)
<1>3. v \in Nat \ {0}
  BY <1>1, SomeFresh
<1>4. rows' = [rows EXCEPT ![k] = v]
  BY DEF Write, SetSetting
<1>5. torn \subseteq torn' /\ torn' \subseteq SettingKeys /\ (ReliedOn(r, k) => k \in torn')
  BY <1>1 DEF Write, TypeOK
<1> HIDE DEF v
<1>6. /\ rows' \in [SettingKeys -> Nat \cup {Sealed}] /\ rows'[k] = v
      /\ \A j \in SettingKeys \ {k} : rows'[j] = rows[j]
  BY <1>1, <1>3, <1>4 DEF TypeOK
<1>7. /\ GetSetting(k)' = v
      /\ \A j \in SettingKeys \ {k} : GetSetting(j)' = GetSetting(j)
  BY <1>3, <1>6 DEF GetSetting, Sealed
<1>8. \A p \in Procs : Held(p)' = Held(p)
  BY DEF Held
<1>9. CipherKeys \subseteq SettingKeys
  BY KeysAre
<1>10. Calm' => /\ ~ReliedOn(r, k) /\ Calm
                /\ \A s \in Requests \ {r} : req[s].got[k] = 0
                /\ \A p \in Procs : Held(p) => p = req[r].proc
  <2> SUFFICES ASSUME Calm' PROVE ~ReliedOn(r, k) /\ Calm
    BY DEF ReliedOn
  <2> QED BY <1>5 DEF Calm
<1>11. TypeOK'
  BY <1>1, <1>2, <1>5, <1>6 DEF TypeOK
<1>12. Stages'
  BY <1>2 DEF Stages, Staged
<1>13. Whole'
  BY <1>8 DEF SettingsInv, Whole
<1>14. Missing'
  <2> SUFFICES ASSUME NEW s \in Requests, req'[s].pc = "generate", Wants(s)' \notin torn'
               PROVE  GetSetting(Wants(s))' = 0
    BY DEF Missing
  <2>1. s # r
    BY <1>2
  <2>2. req'[s] = req[s] /\ Wants(s)' = Wants(s)
    BY <1>2, <2>1 DEF Wants
  <2>3. Wants(s) # k
    <3> SUFFICES ASSUME Wants(s) = k PROVE FALSE
      OBVIOUS
    <3>1. ReliedOn(r, k)
      BY <2>1, <2>2 DEF ReliedOn
    <3> QED BY <1>5, <2>2, <3>1
  <2>4. GetSetting(Wants(s)) = 0
    BY <1>5, <2>2 DEF SettingsInv, Missing
  <2>5. rows'[Wants(s)] = rows[Wants(s)]
    BY <1>1, <1>4, <2>3 DEF TypeOK
  <2> QED BY <2>2, <2>4, <2>5 DEF GetSetting
<1>15. \A s \in Requests \ {r}, j \in CipherKeys : Replacing(s, j)' <=> Replacing(s, j)
  BY <1>2 DEF Replacing
<1>16. Replaced'
  <2> SUFFICES ASSUME NEW s \in Requests, NEW j \in CipherKeys, Replacing(s, j)'
               PROVE  GetSetting(j)' # 0
    BY DEF Replaced
  <2>1. CASE j = k
    BY <1>3, <1>7, <2>1
  <2>2. CASE j # k
    <3>1. Replacing(s, j)
      BY <1>15, <2>2
    <3> QED BY <1>7, <1>9, <2>2, <3>1 DEF SettingsInv, Replaced
  <2> QED BY <2>1, <2>2
<1>17. Gotten'
  <2> SUFFICES ASSUME Calm', NEW s \in Requests, NEW j \in CipherKeys, req'[s].got[j] # 0
               PROVE  req'[s].got[j] = GetSetting(j)'
    BY DEF Gotten
  <2>1. CASE j = k
    <3>1. s = r
      BY <1>2, <1>10, <2>1
    <3> QED BY <1>2, <1>7, <2>1, <3>1 DEF v
  <2>2. CASE j # k
    <3>1. req'[s].got[j] = req[s].got[j]
      BY <1>2, <2>2
    <3>2. req[s].got[j] = GetSetting(j)
      BY <1>10, <3>1 DEF SettingsInv, Gotten
    <3> QED BY <1>7, <1>9, <2>2, <3>1, <3>2
  <2> QED BY <2>1, <2>2
<1>18. Agreed'
  <2> SUFFICES ASSUME Calm', NEW p \in Procs, Held(p), NEW j \in CipherKeys
               PROVE  \/ memo[p][j] = GetSetting(j)'
                      \/ \E s \in Requests : req'[s].proc = p /\ Replacing(s, j)'
    BY <1>8 DEF Agreed
  <2>1. p = req[r].proc /\ req'[r].proc = p
    BY <1>2, <1>10
  <2>2. CASE j = k
    BY <2>1, <2>2
  <2>3. CASE j # k
    <3>1. \/ memo[p][j] = GetSetting(j)
          \/ \E s \in Requests : req[s].proc = p /\ Replacing(s, j)
      BY <1>10 DEF SettingsInv, Agreed
    <3>2. CASE memo[p][j] = GetSetting(j)
      BY <1>7, <1>9, <2>3, <3>2
    <3>3. ASSUME NEW s \in Requests, req[s].proc = p, Replacing(s, j)
          PROVE  req'[s].proc = p /\ Replacing(s, j)'
      BY <1>2, <1>15, <2>1, <2>3, <3>3
    <3> QED BY <3>1, <3>2, <3>3
  <2> QED BY <2>2, <2>3
<1>19. ShownTokenStored'
  <2>1. GetSetting(NodeToken)' = GetSetting(NodeToken)
    BY <1>1, <1>7, KeysAre
  <2> QED BY <1>5, <2>1 DEF SettingsInv, ShownTokenStored
<1> QED BY <1>11, <1>12, <1>13, <1>14, <1>16, <1>17, <1>18, <1>19 DEF SettingsInv

-----------------------------------------------------------------------------
(* The steps of a request *)

AfterTaking(r, v) ==
  [req[r] EXCEPT !.got  = IF Wants(r) = NodeToken THEN @ ELSE [@ EXCEPT ![Wants(r)] = v],
                 !.todo = Tail(@),
                 !.pc   = IF Tail(req[r].todo) = <<>> THEN "memoise" ELSE "lookup"]

\* What a request takes is put where it belongs.
LEMMA Takes ==
  ASSUME TypeOK, Stages, NEW r \in Requests, NEW v \in Nat \ {0},
         req[r].pc \in {"lookup", "generate"}, Taken(r, v), NEW q, q = AfterTaking(r, v)
  PROVE  /\ req' = [req EXCEPT ![r] = q] /\ q \in Request /\ Fits(q)
         /\ q.pc \in {"lookup", "memoise"} /\ q.proc = req[r].proc
         /\ Wants(r) \in SettingKeys
         /\ IF Wants(r) \in CipherKeys THEN q.got = [req[r].got EXCEPT ![Wants(r)] = v]
                                       ELSE q.got = req[r].got
<1> DEFINE k == Wants(r)
           g == IF k = NodeToken THEN req[r].got ELSE [req[r].got EXCEPT ![k] = v]
           rest == Tail(req[r].todo)
           pc == IF rest = <<>> THEN "memoise" ELSE "lookup"
<1>1. req[r] \in Request /\ req[r].got \in [CipherKeys -> Nat] /\ Fits(req[r])
  BY ReqTyped DEF Stages, Staged
<1>2. \/ req[r].todo = Page /\ req[r].got = NoCipher
      \/ req[r].todo = Cipher /\ req[r].got = NoCipher
      \/ /\ req[r].todo = TweakOnly /\ req[r].got["idCipherKey"] # 0
         /\ req[r].got["idCipherTweak"] = 0
  BY <1>1 DEF Fits
<1>3. /\ rest \in Seq(SettingKeys) /\ k \in SettingKeys
      /\ k # NodeToken => k \in CipherKeys
      /\ k \in CipherKeys => k # NodeToken
  BY <1>2, Lists, KeysAre DEF Wants
<1>4. g \in [CipherKeys -> Nat] /\ pc \in {"memoise", "lookup"}
  BY <1>1, <1>3
<1>5. /\ q \in Request /\ q.got = g /\ q.todo = rest /\ q.pc = pc /\ q.proc = req[r].proc
  <2>1. q = [req[r] EXCEPT !.got = g, !.todo = rest, !.pc = pc]
    BY DEF AfterTaking
  <2> HIDE DEF g, rest, pc
  <2> QED BY <1>1, <1>3, <1>4, <2>1 DEF Request
<1>6. req' = [req EXCEPT ![r] = q]
  <2>1. req' = [req EXCEPT ![r].got = g, ![r].todo = rest, ![r].pc = pc]
    BY DEF Taken
  <2>2. q = [req[r] EXCEPT !.got = g, !.todo = rest, !.pc = pc]
    BY DEF AfterTaking
  <2> HIDE DEF g, rest, pc
  <2> QED BY <2>1, <2>2 DEF TypeOK
<1>7. Fits(q)
  <2>1. CASE req[r].todo = Page /\ req[r].got = NoCipher
    <3>1. rest = Cipher /\ k = NodeToken
      BY <2>1, Lists DEF Wants
    <3> QED BY <1>5, <2>1, <3>1, ListsDiffer DEF Fits
  <2>2. CASE req[r].todo = Cipher /\ req[r].got = NoCipher
    <3>1. rest = TweakOnly /\ k = "idCipherKey" /\ k # NodeToken
      BY <1>3, <2>2, Lists, KeysAre DEF Wants
    <3>2. q.got["idCipherKey"] = v /\ q.got["idCipherTweak"] = 0
      BY <1>1, <1>5, <2>2, <3>1, KeysAre
    <3> QED BY <1>5, <3>1, <3>2, ListsDiffer DEF Fits
  <2>3. CASE /\ req[r].todo = TweakOnly /\ req[r].got["idCipherKey"] # 0
             /\ req[r].got["idCipherTweak"] = 0
    <3>1. rest = <<>> /\ k = "idCipherTweak" /\ k # NodeToken
      BY <1>3, <2>3, Lists, KeysAre DEF Wants
    <3>2. \A j \in CipherKeys : q.got[j] # 0
      BY <1>1, <1>5, <2>3, <3>1, KeysAre
    <3> QED BY <1>5, <3>1, <3>2 DEF Fits
  <2> QED BY <1>2, <2>1, <2>2, <2>3
<1> QED BY <1>3, <1>5, <1>6, <1>7

LEMMA ApplyFieldsStep ==
  ASSUME SettingsInv, NEW r \in Requests, ApplyFields(r)
  PROVE  SettingsInv'
<1> DEFINE q == IF req[r].refused THEN Idle
                ELSE IF req[r].todo = <<>> THEN [req[r] EXCEPT !.pc = "lookup", !.todo = Page]
                ELSE [req[r] EXCEPT !.pc = "write"]
<1>1. TypeOK /\ Stages /\ req[r].pc = "post" /\ UNCHANGED <<up, schema, memo, posts, faults>>
  BY DEF SettingsInv, ApplyFields
<1>2. req[r] \in Request /\ Fits(req[r])
  BY <1>1, ReqTyped DEF Stages, Staged
<1>3. req[r].got = NoCipher /\ req[r].todo \in {<<>>, Cipher}
  BY <1>1, <1>2 DEF Fits
<1>4. req' = [req EXCEPT ![r] = q]
  BY DEF ApplyFields
<1>5. /\ q \in Request /\ Fits(q) /\ q.got = NoCipher
      /\ q.pc \in {"idle", "lookup", "write"}
      /\ q.pc = "write" => q.todo = Cipher
  <2>1. CASE req[r].refused
    <3>1. q = Idle
      BY <2>1
    <3> QED BY <3>1, IdleTyped DEF Fits
  <2>2. CASE ~req[r].refused /\ req[r].todo = <<>>
    <3>1. q = [req[r] EXCEPT !.pc = "lookup", !.todo = Page]
      BY <2>2
    <3> HIDE DEF q
    <3>2. q \in Request /\ q.pc = "lookup" /\ q.todo = Page /\ q.got = NoCipher
      BY <1>2, <1>3, <3>1, Lists DEF Request
    <3> QED BY <3>2 DEF Fits
  <2>3. CASE ~req[r].refused /\ req[r].todo # <<>>
    <3>1. q = [req[r] EXCEPT !.pc = "write"] /\ req[r].todo = Cipher
      BY <1>3, <2>3
    <3> HIDE DEF q
    <3>2. q \in Request /\ q.pc = "write" /\ q.todo = Cipher /\ q.got = NoCipher
      BY <1>2, <1>3, <3>1 DEF Request
    <3> QED BY <3>2 DEF Fits
  <2> QED BY <2>1, <2>2, <2>3
<1> HIDE DEF q
<1>6. /\ \A k \in CipherKeys : q.got[k] \in {0, req[r].got[k], GetSetting(k)} /\ ~Replacing(r, k)
      /\ q.pc # "reload" /\ q.pc # "generate"
      /\ q.pc = "write" => q.todo # TweakOnly
  BY <1>1, <1>5, KeysAre, ListsDiffer DEF Replacing
<1>7. CASE UNCHANGED <<rows, torn, shown>>
  <2>1. ShownTokenStored' /\ shown' \in Nat /\ torn' \subseteq SettingKeys
        /\ rows' \in [SettingKeys -> Nat \cup {Sealed}]
    BY <1>1, <1>7 DEF SettingsInv, ShownTokenStored, GetSetting, TypeOK
  <2> QED BY <1>1, <1>4, <1>5, <1>6, <1>7, <2>1, QuietStep
<1>8. CASE Write(r, NodeToken) /\ shown' = 0
  <2>1. NodeToken \in SettingKeys /\ Fresh(NodeToken) \in Nat \ {0}
    BY <1>1, KeysAre, SomeFresh
  <2>2. rows' = [rows EXCEPT ![NodeToken] = Fresh(NodeToken)]
    BY <1>8 DEF Write, SetSetting
  <2>3. /\ torn \subseteq torn' /\ torn' \subseteq SettingKeys
        /\ ReliedOn(r, NodeToken) => NodeToken \in torn'
    BY <1>1, <1>8, <2>1 DEF Write, TypeOK
  <2>4. /\ rows' \in [SettingKeys -> Nat \cup {Sealed}]
        /\ \A k \in CipherKeys : rows'[k] = rows[k]
    BY <1>1, <2>1, <2>2, KeysAre DEF TypeOK
  <2>5. ASSUME NEW s \in Requests \ {r}, req[s].pc = "generate"
        PROVE  Wants(s) \in torn' \/ rows'[Wants(s)] = rows[Wants(s)]
    <3>1. Wants(s) = NodeToken => ReliedOn(r, NodeToken)
      BY <2>5 DEF ReliedOn
    <3>2. Wants(s) # NodeToken => rows'[Wants(s)] = rows[Wants(s)]
      BY <1>1, <2>2 DEF TypeOK
    <3> QED BY <2>3, <3>1, <3>2
  <2>6. ShownTokenStored' /\ shown' \in Nat
    BY <1>8 DEF ShownTokenStored
  <2> QED BY <1>1, <1>4, <1>5, <1>6, <2>3, <2>4, <2>5, <2>6, QuietStep
<1> QED BY <1>7, <1>8 DEF ApplyFields

LEMMA WriteCipherStep ==
  ASSUME SettingsInv, NEW r \in Requests, WriteCipher(r)
  PROVE  SettingsInv'
<1>1. /\ TypeOK /\ Stages /\ req[r].pc = "write"
      /\ UNCHANGED <<up, schema, memo, posts, faults, shown>>
  BY DEF SettingsInv, WriteCipher
<1>2. req[r] \in Request /\ Fits(req[r])
  BY <1>1, ReqTyped DEF Stages, Staged
<1>3. req[r].got = NoCipher /\ req[r].todo \in {Cipher, TweakOnly}
  BY <1>1, <1>2 DEF Fits
<1>4. CASE Wants(r) = "idCipherTweak" /\ req[r].cut
  <2>1. /\ req' = [req EXCEPT ![r] = Idle] /\ UNCHANGED rows
        /\ torn' = torn \cup {"idCipherKey"}
    BY <1>4 DEF WriteCipher
  <2>2. /\ ~Calm' /\ torn \subseteq torn' /\ torn' \subseteq SettingKeys
        /\ shown' \in Nat /\ rows' \in [SettingKeys -> Nat \cup {Sealed}]
    BY <1>1, <2>1, KeysAre DEF Calm, TypeOK
  <2>3. /\ Idle \in Request /\ Fits(Idle) /\ Idle.pc = "idle"
        /\ \A k \in CipherKeys : Idle.got[k] = 0
    BY IdleTyped, KeysAre DEF Fits
  <2>4. ShownTokenStored'
    BY <1>1, <2>1, <2>2 DEF SettingsInv, ShownTokenStored, GetSetting
  <2> QED BY <1>1, <2>1, <2>2, <2>3, <2>4, QuietStep
<1>5. CASE ~(Wants(r) = "idCipherTweak" /\ req[r].cut)
  <2> DEFINE k == Wants(r)
             pc == IF Len(req[r].todo) = 1 THEN "reload" ELSE "write"
             q == [req[r] EXCEPT !.todo = Tail(req[r].todo), !.pc = pc]
  <2>1. Write(r, k) /\ req' = [req EXCEPT ![r].todo = Tail(req[r].todo), ![r].pc = pc]
    BY <1>1, <1>5 DEF WriteCipher
  <2>2. req' = [req EXCEPT ![r] = q]
    <3> HIDE DEF pc
    <3> QED BY <1>1, <2>1 DEF TypeOK
  <2>3. Tail(req[r].todo) \in Seq(SettingKeys) /\ pc \in {"reload", "write"}
    BY <1>3, Lists
  <2>4. /\ q \in Request /\ q.todo = Tail(req[r].todo) /\ q.pc = pc /\ q.proc = req[r].proc
        /\ q.got = NoCipher
    <3> HIDE DEF pc
    <3> QED BY <1>2, <1>3, <2>3 DEF Request
  <2>5. req'[r] = q
    BY <1>1, <2>2 DEF TypeOK
  <2> HIDE DEF q
  <2>6. CASE req[r].todo = Cipher
    <3>1. k = "idCipherKey" /\ pc = "write" /\ q.todo = TweakOnly
      BY <2>4, <2>6, Lists DEF Wants
    <3>2. Fits(q)
      BY <2>4, <3>1 DEF Fits
    <3>3. /\ Replacing(r, "idCipherKey")'
          /\ \A j \in CipherKeys \ {"idCipherKey"} : ~Replacing(r, j) /\ ~Replacing(r, j)'
      BY <1>1, <2>4, <2>5, <2>6, <3>1, ListsDiffer DEF Replacing
    <3>4. /\ "idCipherKey" \in CipherKeys /\ Write(r, "idCipherKey")
          /\ \A j \in CipherKeys : q.got[j] = 0 /\ req[r].got[j] = 0
      BY <1>3, <2>1, <2>4, <3>1, KeysAre
    <3> HIDE DEF k, pc
    <3> QED BY <1>1, <2>1, <2>2, <2>4, <3>1, <3>2, <3>3, <3>4, CipherWritten
  <2>7. CASE req[r].todo = TweakOnly
    <3>1. k = "idCipherTweak" /\ pc = "reload"
      BY <2>7, Lists DEF Wants
    <3>2. Fits(q)
      BY <2>4, <3>1 DEF Fits
    <3>3. /\ Replacing(r, "idCipherTweak")'
          /\ \A j \in CipherKeys \ {"idCipherTweak"} : Replacing(r, j) /\ Replacing(r, j)'
      BY <1>1, <2>4, <2>5, <2>7, <3>1, KeysAre DEF Replacing
    <3>4. /\ "idCipherTweak" \in CipherKeys /\ Write(r, "idCipherTweak")
          /\ \A j \in CipherKeys : q.got[j] = 0 /\ req[r].got[j] = 0
      BY <1>3, <2>1, <2>4, <3>1, KeysAre
    <3> HIDE DEF k, pc
    <3> QED BY <1>1, <2>1, <2>2, <2>4, <3>1, <3>2, <3>3, <3>4, CipherWritten
  <2> QED BY <1>3, <2>6, <2>7
<1> QED BY <1>4, <1>5

LEMMA ReloadStep ==
  ASSUME SettingsInv, NEW r \in Requests, Reload(r)
  PROVE  SettingsInv'
<1> DEFINE q == [req[r] EXCEPT !.pc = "lookup", !.todo = Page]
           p == req[r].proc
<1>1. /\ TypeOK /\ Stages /\ req[r].pc = "reload"
      /\ UNCHANGED <<rows, up, schema, posts, faults, shown, torn>>
  BY DEF SettingsInv, Reload
<1>2. req[r] \in Request /\ req[r].got = NoCipher /\ p \in Procs
  BY <1>1, ReqTyped DEF Stages, Staged, Fits
<1>3. req' = [req EXCEPT ![r] = q]
  BY <1>1 DEF Reload, TypeOK
<1>4. q \in Request /\ q.pc = "lookup" /\ q.todo = Page /\ q.got = NoCipher
  BY <1>2, Lists DEF Request
<1> HIDE DEF q
<1>5. /\ req' \in [Requests -> Request] /\ req'[r] = q
      /\ \A s \in Requests \ {r} : req'[s] = req[s] /\ Staged(s)'
  BY <1>1, <1>3, <1>4, OneMoves
<1>6. /\ memo' \in [Procs -> [CipherKeys -> Nat]] /\ memo'[p] = NoCipher
      /\ \A o \in Procs \ {p} : memo'[o] = memo[o]
  BY <1>1, <1>2, KeysAre DEF Reload, Reloaded, TypeOK
<1>7. \A o \in Procs : Held(o)' => o # p /\ Held(o)
  BY <1>6 DEF Held
<1> HIDE DEF p
<1>8. \A k : GetSetting(k)' = GetSetting(k)
  BY <1>1 DEF GetSetting
<1>9. /\ \A k : ~Replacing(r, k)'
      /\ \A s \in Requests \ {r} : \A k : Replacing(s, k)' = Replacing(s, k)
  BY <1>4, <1>5 DEF Replacing
<1>10. TypeOK'
  BY <1>1, <1>5, <1>6 DEF TypeOK
<1>11. Stages'
  <2>1. Fits(q)
    BY <1>4 DEF Fits
  <2> QED BY <1>5, <2>1 DEF Stages, Staged
<1>12. Whole'
  BY <1>6, <1>7 DEF SettingsInv, Whole
<1>13. Missing'
  <2> SUFFICES ASSUME NEW s \in Requests, req'[s].pc = "generate", Wants(s)' \notin torn
               PROVE  GetSetting(Wants(s))' = 0
    BY <1>1 DEF Missing
  <2>1. req'[s] = req[s] /\ Wants(s)' = Wants(s)
    BY <1>4, <1>5 DEF Wants
  <2>2. GetSetting(Wants(s)) = 0
    BY <2>1 DEF SettingsInv, Missing
  <2> QED BY <1>1, <2>1, <2>2 DEF GetSetting
<1>14. Replaced'
  BY <1>8, <1>9 DEF SettingsInv, Replaced
<1>15. Gotten'
  <2> SUFFICES ASSUME Calm, NEW s \in Requests, NEW k \in CipherKeys, req'[s].got[k] # 0
               PROVE  req'[s].got[k] = GetSetting(k)
    BY <1>1, <1>8 DEF Gotten, Calm
  <2>1. req'[s] = req[s]
    BY <1>4, <1>5, KeysAre
  <2> QED BY <2>1 DEF SettingsInv, Gotten
<1>16. Agreed'
  <2> SUFFICES ASSUME Calm, NEW o \in Procs, Held(o)', NEW k \in CipherKeys,
                      memo'[o][k] # GetSetting(k)
               PROVE  \E s \in Requests : req'[s].proc = o /\ Replacing(s, k)'
    BY <1>1, <1>8 DEF Agreed, Calm
  <2>1. o # p /\ Held(o) /\ memo[o][k] # GetSetting(k)
    BY <1>6, <1>7
  <2>2. PICK s \in Requests : req[s].proc = o /\ Replacing(s, k)
    BY <2>1 DEF SettingsInv, Agreed
  <2>3. s # r
    BY <2>1, <2>2 DEF p
  <2> QED BY <1>5, <1>9, <2>2, <2>3
<1>17. ShownTokenStored'
  BY <1>1, <1>8 DEF SettingsInv, ShownTokenStored
<1> QED BY <1>10, <1>11, <1>12, <1>13, <1>14, <1>15, <1>16, <1>17 DEF SettingsInv

LEMMA MemoiseStep ==
  ASSUME SettingsInv, NEW r \in Requests, MemoiseCipher(r)
  PROVE  SettingsInv'
<1> DEFINE p == req[r].proc
<1>1. /\ TypeOK /\ Stages /\ req[r].pc = "memoise"
      /\ UNCHANGED <<rows, up, schema, posts, faults, shown, torn>>
  BY DEF SettingsInv, MemoiseCipher
<1>2. /\ req[r].got \in [CipherKeys -> Nat] /\ p \in Procs
      /\ \A k \in CipherKeys : req[r].got[k] # 0
  BY <1>1, ReqTyped DEF Stages, Staged, Fits
<1>3. req' = [req EXCEPT ![r] = Idle] /\ Idle \in Request /\ Idle.pc = "idle" /\ Idle.got = NoCipher
  BY IdleTyped DEF MemoiseCipher
<1>4. /\ req' \in [Requests -> Request] /\ req'[r] = Idle
      /\ \A s \in Requests \ {r} : req'[s] = req[s] /\ Staged(s)'
  BY <1>1, <1>3, OneMoves
<1>5. /\ memo' \in [Procs -> [CipherKeys -> Nat]] /\ memo'[p] = req[r].got
      /\ \A o \in Procs \ {p} : memo'[o] = memo[o]
  BY <1>1, <1>2 DEF MemoiseCipher, TypeOK
<1>6. \A o \in Procs \ {p} : Held(o)' = Held(o)
  BY <1>5 DEF Held
<1> HIDE DEF p
<1>7. \A k : GetSetting(k)' = GetSetting(k)
  BY <1>1 DEF GetSetting
<1>8. /\ \A k : ~Replacing(r, k) /\ ~Replacing(r, k)'
      /\ \A s \in Requests \ {r} : \A k : Replacing(s, k)' = Replacing(s, k)
  BY <1>1, <1>3, <1>4 DEF Replacing
<1>9. TypeOK'
  BY <1>1, <1>4, <1>5 DEF TypeOK
<1>10. Stages'
  <2>1. Fits(Idle)
    BY <1>3 DEF Fits
  <2> QED BY <1>4, <2>1 DEF Stages, Staged
<1>11. Whole'
  BY <1>2, <1>5, <1>6 DEF SettingsInv, Whole
<1>12. Missing'
  <2> SUFFICES ASSUME NEW s \in Requests, req'[s].pc = "generate", Wants(s)' \notin torn
               PROVE  GetSetting(Wants(s))' = 0
    BY <1>1 DEF Missing
  <2>1. req'[s] = req[s] /\ Wants(s)' = Wants(s)
    BY <1>3, <1>4 DEF Wants
  <2>2. GetSetting(Wants(s)) = 0
    BY <2>1 DEF SettingsInv, Missing
  <2> QED BY <1>1, <2>1, <2>2 DEF GetSetting
<1>13. Replaced'
  BY <1>7, <1>8 DEF SettingsInv, Replaced
<1>14. Gotten'
  <2> SUFFICES ASSUME Calm, NEW s \in Requests, NEW k \in CipherKeys, req'[s].got[k] # 0
               PROVE  req'[s].got[k] = GetSetting(k)
    BY <1>1, <1>7 DEF Gotten, Calm
  <2>1. req'[s] = req[s]
    BY <1>3, <1>4, KeysAre
  <2> QED BY <2>1 DEF SettingsInv, Gotten
<1>15. Agreed'
  <2> SUFFICES ASSUME Calm, NEW o \in Procs, Held(o)', NEW k \in CipherKeys,
                      memo'[o][k] # GetSetting(k)
               PROVE  \E s \in Requests : req'[s].proc = o /\ Replacing(s, k)'
    BY <1>1, <1>7 DEF Agreed, Calm
  <2>1. req[r].got[k] = GetSetting(k)
    BY <1>2 DEF SettingsInv, Gotten
  <2>2. o # p
    BY <1>5, <2>1
  <2>3. Held(o) /\ memo[o][k] # GetSetting(k)
    BY <1>5, <1>6, <2>2
  <2>4. PICK s \in Requests : req[s].proc = o /\ Replacing(s, k)
    BY <2>3 DEF SettingsInv, Agreed
  <2>5. s # r
    BY <1>8, <2>4
  <2> QED BY <1>4, <1>8, <2>4, <2>5
<1>16. ShownTokenStored'
  BY <1>1, <1>7 DEF SettingsInv, ShownTokenStored
<1> QED BY <1>9, <1>10, <1>11, <1>12, <1>13, <1>14, <1>15, <1>16 DEF SettingsInv

LEMMA EndsQuietly ==
  ASSUME SettingsInv, NEW r \in Requests, UseMemo(r) \/ Fail(r)
  PROVE  SettingsInv'
<1>1. /\ TypeOK /\ Stages /\ UNCHANGED <<rows, up, schema, memo, posts, faults, shown>>
      /\ req' = [req EXCEPT ![r] = Idle]
  BY DEF SettingsInv, UseMemo, Fail
<1>2. /\ Idle \in Request /\ Fits(Idle) /\ Idle.pc = "idle"
      /\ \A k \in CipherKeys : Idle.got[k] = 0
  BY IdleTyped, KeysAre DEF Fits
<1>3. /\ torn \subseteq torn' /\ torn' \subseteq SettingKeys /\ shown' \in Nat
      /\ rows' \in [SettingKeys -> Nat \cup {Sealed}]
  BY <1>1, KeysAre DEF UseMemo, Fail, TypeOK
<1>4. ASSUME Calm', NEW k \in CipherKeys, Replacing(r, k) PROVE FALSE
  <2>1. req[r].pc = "write" /\ req[r].todo = TweakOnly
    BY <1>4 DEF Replacing, UseMemo, Fail
  <2>2. Wants(r) = "idCipherTweak"
    BY <2>1, Lists DEF Wants
  <2>3. torn' = torn \cup {"idCipherKey"}
    BY <2>1, <2>2 DEF UseMemo, Fail
  <2> QED BY <1>4, <2>3, KeysAre DEF Calm
<1>5. ShownTokenStored'
  BY <1>1, <1>3 DEF SettingsInv, ShownTokenStored, GetSetting
<1> QED BY <1>1, <1>2, <1>3, <1>4, <1>5, QuietStep

LEMMA LookupStep ==
  ASSUME SettingsInv, NEW r \in Requests, Lookup(r)
  PROVE  SettingsInv'
<1> DEFINE k == Wants(r)
           v == GetSetting(k)
<1>1. /\ TypeOK /\ Stages /\ req[r].pc = "lookup"
      /\ UNCHANGED <<rows, up, schema, memo, posts, faults, torn>>
  BY DEF SettingsInv, Lookup
<1>2. req[r] \in Request /\ Fits(req[r]) /\ Head(req[r].todo) \in SettingKeys
  <2>1. req[r] \in Request /\ Fits(req[r])
    BY <1>1, ReqTyped DEF Stages, Staged
  <2> QED BY <1>1, <2>1, Lists, KeysAre DEF Fits
<1>3. v \in Nat
  BY <1>1, <1>2 DEF GetSetting, Wants, TypeOK
<1>4. /\ torn \subseteq torn' /\ torn' \subseteq SettingKeys /\ shown \in Nat
      /\ rows' \in [SettingKeys -> Nat \cup {Sealed}]
      /\ \A j \in CipherKeys : rows'[j] = rows[j]
      /\ \A j \in CipherKeys : ~Replacing(r, j)
      /\ \A s \in Requests \ {r} : rows'[Wants(s)] = rows[Wants(s)]
  BY <1>1 DEF TypeOK, Replacing
<1>5. CASE v # 0
  <2> DEFINE q == AfterTaking(r, v)
  <2>1. Taken(r, v) /\ v \in Nat \ {0}
    BY <1>3, <1>5 DEF Lookup
  <2> HIDE DEF q, v
  <2>2. /\ req' = [req EXCEPT ![r] = q] /\ q \in Request /\ Fits(q)
        /\ q.pc \in {"lookup", "memoise"} /\ q.proc = req[r].proc
        /\ Wants(r) \in SettingKeys
        /\ IF Wants(r) \in CipherKeys THEN q.got = [req[r].got EXCEPT ![Wants(r)] = v]
                                      ELSE q.got = req[r].got
    BY <1>1, <2>1, Takes DEF q
  <2>3. \A j \in CipherKeys : q.got[j] \in {0, req[r].got[j], GetSetting(j)}
    <3>1. req[r].got \in [CipherKeys -> Nat]
      BY <1>2 DEF Request
    <3>2. CASE k \notin CipherKeys
      BY <2>2, <3>2
    <3>3. CASE k \in CipherKeys
      <4>1. q.got = [req[r].got EXCEPT ![k] = v]
        BY <2>2, <3>3
      <4>2. ASSUME NEW j \in CipherKeys, j = k PROVE q.got[j] = GetSetting(j)
        BY <3>1, <4>1, <4>2 DEF v
      <4>3. ASSUME NEW j \in CipherKeys, j # k PROVE q.got[j] = req[r].got[j]
        BY <3>1, <4>1, <4>3
      <4> QED BY <4>2, <4>3
    <3> QED BY <3>2, <3>3
  <2>4. shown' = IF k = NodeToken /\ shown = 0 THEN v ELSE shown
    BY <2>1 DEF Taken
  <2>5. ShownTokenStored' /\ shown' \in Nat
    <3>1. GetSetting(NodeToken)' = GetSetting(NodeToken)
      BY <1>1 DEF GetSetting
    <3>2. CASE k = NodeToken /\ shown = 0
      BY <2>1, <2>4, <3>1, <3>2 DEF ShownTokenStored, v
    <3>3. CASE ~(k = NodeToken /\ shown = 0)
      BY <1>1, <1>4, <2>4, <3>1, <3>3 DEF SettingsInv, ShownTokenStored
    <3> QED BY <3>2, <3>3
  <2> QED BY <1>1, <1>4, <2>2, <2>3, <2>5, QuietStep
<1>6. CASE v = 0
  <2> DEFINE q == [req[r] EXCEPT !.pc = "generate"]
  <2>1. req' = [req EXCEPT ![r] = q] /\ shown' = shown
    BY <1>1, <1>6 DEF Lookup, Goto, TypeOK
  <2>2. q \in Request /\ q.pc = "generate" /\ q.todo = req[r].todo /\ q.got = req[r].got
    BY <1>2 DEF Request
  <2> HIDE DEF q
  <2>3. Fits(q)
    BY <1>1, <1>2, <2>2 DEF Fits
  <2>4. rows'[Head(q.todo)] \in {0, Sealed}
    BY <1>1, <1>6, <2>2 DEF GetSetting, Wants
  <2>5. ShownTokenStored'
    BY <1>1, <2>1 DEF SettingsInv, ShownTokenStored, GetSetting
  <2> QED BY <1>1, <1>4, <2>1, <2>2, <2>3, <2>4, <2>5, QuietStep
<1> QED BY <1>5, <1>6

LEMMA GenerateStep ==
  ASSUME SettingsInv, NEW r \in Requests, Generate(r)
  PROVE  SettingsInv'
<1>1. /\ TypeOK /\ Stages /\ req[r].pc = "generate"
      /\ UNCHANGED <<up, schema, memo, posts, faults>>
  BY DEF SettingsInv, Generate
<1>2. /\ req[r] \in Request /\ Fits(req[r]) /\ Wants(r) \in SettingKeys
      /\ req[r].got \in [CipherKeys -> Nat]
  <2>1. req[r] \in Request /\ Fits(req[r])
    BY <1>1, ReqTyped DEF Stages, Staged
  <2> QED BY <1>1, <2>1, Lists, KeysAre DEF Fits, Wants, Request
<1>3. PICK k \in SettingKeys : k = Wants(r)
  BY <1>2
<1> DEFINE v == Fresh(k)
           q == AfterTaking(r, v)
<1>4. v \in Nat \ {0} /\ Write(r, k) /\ Taken(r, v)
  BY <1>1, <1>3, SomeFresh DEF Generate
<1> HIDE DEF q, v
<1>5. /\ req' = [req EXCEPT ![r] = q] /\ q \in Request /\ Fits(q)
      /\ q.pc \in {"lookup", "memoise"} /\ q.proc = req[r].proc
      /\ IF k \in CipherKeys THEN q.got = [req[r].got EXCEPT ![k] = v]
                             ELSE q.got = req[r].got
  BY <1>1, <1>3, <1>4, Takes DEF q
<1>6. shown' = IF k = NodeToken /\ shown = 0 THEN v ELSE shown
  BY <1>3, <1>4 DEF Taken
<1>7. req'[r] = q
  BY <1>1, <1>5 DEF TypeOK
<1>8. \A j \in CipherKeys : ~Replacing(r, j) /\ ~Replacing(r, j)'
  BY <1>1, <1>5, <1>7 DEF Replacing
<1>9. k \notin torn => GetSetting(k) = 0
  BY <1>1, <1>3 DEF SettingsInv, Missing
<1>10. /\ rows' = [rows EXCEPT ![k] = v] /\ torn \subseteq torn' /\ torn' \subseteq SettingKeys
       /\ ReliedOn(r, k) => k \in torn'
  BY <1>1, <1>4 DEF Write, SetSetting, TypeOK, v
<1>11. CASE k \in CipherKeys
  <2>1. /\ q.got[k] = v /\ \A j \in CipherKeys \ {k} : q.got[j] = req[r].got[j]
    BY <1>2, <1>5, <1>11
  <2>2. shown' = shown
    BY <1>6, <1>11, KeysAre
  <2>3. Calm' => \A p \in Procs : ~Held(p)
    <3> SUFFICES ASSUME Calm', NEW p \in Procs, Held(p) PROVE FALSE
      OBVIOUS
    <3>1. Calm /\ k \notin torn
      BY <1>10, <1>11 DEF Calm
    <3>2. GetSetting(k) = 0
      BY <1>9, <3>1
    <3>3. memo[p][k] # 0
      BY <1>11 DEF SettingsInv, Whole
    <3>4. \A s \in Requests : ~Replacing(s, k)
      BY <1>11, <3>2 DEF SettingsInv, Replaced
    <3> QED BY <1>11, <3>1, <3>2, <3>3, <3>4 DEF SettingsInv, Agreed
  <2> QED BY <1>1, <1>4, <1>5, <1>8, <1>11, <2>1, <2>2, <2>3, CipherWritten DEF v
<1>12. CASE k \notin CipherKeys
  <2>1. k = NodeToken
    BY <1>12, KeysAre
  <2>2. /\ rows' \in [SettingKeys -> Nat \cup {Sealed}] /\ rows'[k] = v
        /\ \A j \in CipherKeys : rows'[j] = rows[j]
    BY <1>1, <1>4, <1>10, <1>12, KeysAre DEF TypeOK
  <2>3. ASSUME NEW s \in Requests \ {r}, req[s].pc = "generate"
        PROVE  Wants(s) \in torn' \/ rows'[Wants(s)] = rows[Wants(s)]
    <3>1. Wants(s) = k => ReliedOn(r, k)
      BY <2>3 DEF ReliedOn
    <3>2. Wants(s) # k => rows'[Wants(s)] = rows[Wants(s)]
      BY <1>1, <1>10 DEF TypeOK
    <3> QED BY <1>10, <3>1, <3>2
  <2>4. ShownTokenStored' /\ shown' \in Nat
    <3>1. GetSetting(NodeToken)' = v
      BY <1>4, <2>1, <2>2 DEF GetSetting, Sealed
    <3>2. CASE shown = 0
      BY <1>4, <1>6, <2>1, <3>1, <3>2 DEF ShownTokenStored
    <3>3. CASE shown # 0
      <4>1. NodeToken \in torn
        BY <1>9, <2>1, <3>3 DEF SettingsInv, ShownTokenStored
      <4> QED BY <1>1, <1>6, <1>10, <3>3, <4>1 DEF ShownTokenStored, TypeOK
    <3> QED BY <3>2, <3>3
  <2>5. \A j \in CipherKeys : q.got[j] = req[r].got[j]
    BY <1>5, <1>12
  <2> QED BY <1>1, <1>5, <1>8, <1>10, <2>2, <2>3, <2>4, <2>5, QuietStep
<1> QED BY <1>11, <1>12

LEMMA RedeployStep == ASSUME SettingsInv, Redeploy PROVE SettingsInv'
<1>1. /\ TypeOK /\ UNCHANGED <<up, posts>> /\ shown' = 0 /\ torn' = {}
      /\ schema' = [p \in Procs |-> "none"] /\ memo' = [p \in Procs |-> NoCipher]
      /\ req' = [r \in Requests |-> Idle]
      /\ faults' \in 0 .. MaxFaults
  BY SettingsAssumption DEF SettingsInv, Redeploy, TypeOK
<1>2. rows' \in [SettingKeys -> Nat \cup {Sealed}]
  <2>1. CASE rows' = rows
    BY <1>1, <2>1 DEF TypeOK
  <2>2. CASE rows' = [k \in SettingKeys |-> IF rows[k] = 0 THEN 0 ELSE Sealed]
    BY <2>2
  <2> QED BY <2>1, <2>2 DEF Redeploy
<1>3. TypeOK'
  BY <1>1, <1>2, IdleTyped, KeysAre DEF TypeOK
<1>4. \A r \in Requests : req'[r] = Idle
  BY <1>1
<1>5. Stages'
  BY <1>4, IdleTyped DEF Stages, Staged, Fits
<1>6. Missing' /\ Replaced'
  BY <1>4, IdleTyped DEF Missing, Replaced, Replacing
<1>7. Gotten'
  BY <1>4, IdleTyped, KeysAre DEF Gotten
<1>8. Whole' /\ Agreed'
  BY <1>1 DEF Whole, Agreed, Held
<1>9. ShownTokenStored'
  BY <1>1 DEF ShownTokenStored
<1> QED BY <1>3, <1>5, <1>6, <1>7, <1>8, <1>9 DEF SettingsInv

\* The database goes and comes back.
LEMMA OutageStep ==
  ASSUME SettingsInv, up' \in BOOLEAN, faults' \in 0 .. MaxFaults,
         UNCHANGED <<rows, schema, memo, req, posts, shown, torn>>
  PROVE  SettingsInv'
<1>1. TypeOK'
  BY DEF SettingsInv, TypeOK
<1>2. Stages'
  BY DEF SettingsInv, Stages, Staged
<1>3. Missing'
  BY DEF SettingsInv, Missing, Wants, GetSetting
<1>4. Whole' /\ Replaced' /\ Gotten' /\ Agreed'
  <2>1. \A r \in Requests, k \in CipherKeys : Replacing(r, k)' <=> Replacing(r, k)
    BY DEF Replacing
  <2>2. req' = req /\ torn \subseteq torn'
    OBVIOUS
  <2> QED BY <2>1, <2>2, CipherStays
<1>5. ShownTokenStored'
  BY DEF SettingsInv, ShownTokenStored, GetSetting
<1> QED BY <1>1, <1>2, <1>3, <1>4, <1>5 DEF SettingsInv

LEMMA SettingsStep == SettingsInv /\ [Next]_vars => SettingsInv'
<1> SUFFICES ASSUME SettingsInv, [Next]_vars PROVE SettingsInv'
  OBVIOUS
<1>1. ASSUME NEW r \in Requests, NEW p \in Routes[r], GetPage(r, p) \/ Post(r, p)
      PROVE  SettingsInv'
  BY <1>1, RequestsArrive
<1>2. ASSUME NEW r \in Requests, Progress(r) PROVE SettingsInv'
  BY <1>2, ApplyFieldsStep, WriteCipherStep, ReloadStep, LookupStep, GenerateStep, MemoiseStep,
     EndsQuietly DEF Progress
<1>3. ASSUME NEW p \in Procs, SchemaRuns(p) \/ SchemaFails(p) PROVE SettingsInv'
  BY <1>3, SchemaSteps
<1>4. CASE Outage \/ Restore \/ UNCHANGED vars
  <2>1. up' \in BOOLEAN /\ faults' \in 0 .. MaxFaults
    <3>1. up \in BOOLEAN /\ faults \in 0 .. MaxFaults
      BY DEF SettingsInv, TypeOK
    <3>2. up' \in {TRUE, FALSE, up}
      BY <1>4 DEF Outage, Restore, vars
    <3>3. faults' \in 0 .. MaxFaults
      BY <1>4, <3>1, SettingsAssumption DEF Outage, Restore, vars
    <3> QED BY <3>1, <3>2, <3>3
  <2>2. UNCHANGED <<rows, schema, memo, req, posts, shown, torn>>
    BY <1>4 DEF Outage, Restore, vars
  <2> QED BY <2>1, <2>2, OutageStep
<1>5. CASE Redeploy
  BY <1>5, RedeployStep
<1> QED BY <1>1, <1>2, <1>3, <1>4, <1>5 DEF Next

LEMMA SettingsStart == Init => SettingsInv
<1> SUFFICES ASSUME Init PROVE SettingsInv
  OBVIOUS
<1>1. /\ rows = [k \in SettingKeys |-> 0] /\ up = TRUE /\ schema = [p \in Procs |-> "none"]
      /\ memo = [p \in Procs |-> NoCipher] /\ req = [r \in Requests |-> Idle]
      /\ posts = 0 /\ faults = 0 /\ shown = 0 /\ torn = {}
  BY DEF Init
<1>2. TypeOK
  BY <1>1, SettingsAssumption, IdleTyped, KeysAre DEF TypeOK
<1>3. \A r \in Requests : req[r] = Idle
  BY <1>1
<1>4. Stages
  BY <1>3, IdleTyped DEF Stages, Staged, Fits
<1>5. Missing /\ Replaced
  BY <1>3, IdleTyped DEF Missing, Replaced, Replacing
<1>6. Gotten
  BY <1>3, IdleTyped, KeysAre DEF Gotten
<1>7. Whole /\ Agreed
  BY <1>1 DEF Whole, Agreed, Held
<1>8. ShownTokenStored
  BY <1>1 DEF ShownTokenStored
<1> QED BY <1>2, <1>4, <1>5, <1>6, <1>7, <1>8 DEF SettingsInv

LEMMA SettingsHold == Spec => []SettingsInv
<1> QED BY SettingsStart, SettingsStep, PTL DEF Spec

\* The ids a process hands out are those all will decode: while nobody is
\* replacing the cipher every process that holds one holds the stored one,
\* however many generate it at once, load it, replace it, fail and restart,
\* unless a half was replaced under a reader or only half of one was stored
\* (opaqueid.ts, cipher, setOpaqueIdConfig, reloadOpaqueId).
THEOREM CiphersAgree == Spec => []IdsSettled
<1>1. SettingsInv => IdsSettled
  <2> SUFFICES ASSUME SettingsInv, NoRotation, Calm, NEW p \in Procs, Held(p), NEW k \in CipherKeys
               PROVE  memo[p][k] = GetSetting(k)
    BY DEF IdsSettled, Calm
  <2>1. \A r \in Requests : ~Replacing(r, k)
    BY DEF NoRotation, Replacing
  <2> QED BY <2>1 DEF SettingsInv, Agreed
<1> QED BY <1>1, SettingsHold, PTL

\* The token on the settings pages is the one agents are checked against, for
\* any number of requests and processes that read, draw and replace it, unless
\* two raced to draw it (auth.ts, ensureNodeToken).
THEOREM ShownTokenIsStored == Spec => []ShownTokenStored
<1>1. SettingsInv => ShownTokenStored
  BY DEF SettingsInv
<1> QED BY <1>1, SettingsHold, PTL

\* Whatever cipher a process comes to hold, generated, posted or torn, is a
\* permutation of the ids (opaqueid.ts, cipher, encodeNodeId, decodeNodeId).
THEOREM HeldCiphersLeadBack == Spec => []IdsLeadBack
<1>1. SettingsInv => IdsLeadBack
  <2> SUFFICES ASSUME SettingsInv, NEW r \in Requests PROVE RoundTrips(RoundFunction(req[r].got))
    BY DEF IdsLeadBack
  <2>1. req[r].got \in [CipherKeys -> Nat]
    BY ReqTyped DEF SettingsInv
  <2>2. req[r].got["idCipherKey"] \in Nat /\ req[r].got["idCipherTweak"] \in Nat
    BY <2>1, KeysAre
  <2>3. ASSUME NEW i \in 0 .. 7, NEW d \in Digit
        PROVE  (req[r].got["idCipherKey"] * (d + 1) + req[r].got["idCipherTweak"] * i) % Radix \in Digit
    <3> DEFINE x == req[r].got["idCipherKey"] * (d + 1) + req[r].got["idCipherTweak"] * i
    <3>1. d \in Nat /\ i \in Nat
      BY <2>3, RadixAssumption DEF Digit
    <3>2. req[r].got["idCipherKey"] * (d + 1) \in Nat /\ req[r].got["idCipherTweak"] * i \in Nat
      BY <2>2, <3>1
    <3>3. x \in Nat
      BY <3>2
    <3> HIDE DEF x
    <3>4. x % Radix \in 0 .. (Radix - 1)
      BY <3>3, RadixAssumption
    <3> QED BY <3>4 DEF x, Digit
  <2>4. RoundFunction(req[r].got) \in RoundFunctions
    BY <2>3 DEF RoundFunction, RoundFunctions
  <2> QED BY <2>4, IdsRoundTrip
<1> QED BY <1>1, SettingsHold, PTL
=============================================================================
