------------------------------ MODULE Intake -------------------------------
(* What a report may put into the tables.  The route checks and clamps every *)
(* field of a body (report/route.ts), saveReport does it again for callers   *)
(* that come another way (db.ts), and a counter is cut to what its column    *)
(* holds.  A field is a number, or Absent, or Junk: text, NaN, Infinity.     *)
(* Texts count by their length.                                              *)
EXTENDS Integers

CONSTANTS
  Texts,       \* the optional texts of the host: os, platform, cpuModel, ...
  NameLen,     \* the longest hostname
  Totals,      \* its numbers: memTotal, swapTotal, diskTotal, bootTime, ...
  RouteOnly,   \* those that saveReport knows nothing of: bootTimeMs, uptimeSec
  Percents,    \* cpuUsage, memPercent, diskPercent
  Counts,      \* the other metrics but one
  TotalOf,     \* per use of a resource: the field of the host that bounds it
  MaxLen,      \* per text: the longest allowed
  Absent, Junk,
  Safe         \* Number.MAX_SAFE_INTEGER

Metrics == Percents \cup Counts \cup {"cpuTemp"}

IntakeAssumption ==
  /\ Safe \in Nat /\ Safe > 150
  /\ Percents \cap Counts = {} /\ "cpuTemp" \notin Percents \cup Counts
  /\ RouteOnly \subseteq Totals
  /\ TotalOf \in [{"memUsed", "swapUsed", "diskUsed"} -> Totals \ RouteOnly]
  /\ DOMAIN TotalOf \subseteq Counts
  /\ MaxLen \in [Texts -> Nat] /\ NameLen \in Nat
  /\ Absent \notin Int /\ Junk \notin Int /\ Absent # Junk

Value == Int \cup {Absent, Junk}

\* name is the length of the hostname, shaped whether its characters are allowed.
Bodies == [name : Value, shaped : BOOLEAN,
           host : [Texts \cup Totals -> Value], metrics : [Metrics -> Value]]

IsNonNegFinite(v) == v \in Nat
Least(a, b)       == IF a < b THEN a ELSE b

(***************************************************************************)
(* The route.                                                              *)
(***************************************************************************)
HostRefused(h) ==
  \/ \E k \in Texts : h[k] # Absent /\ ~(h[k] \in Nat /\ h[k] <= MaxLen[k])
  \/ \E k \in Totals : h[k] # Absent /\ ~IsNonNegFinite(h[k])

MetricsRefused(m) ==
  \/ m["cpuTemp"] # Absent /\ ~IsNonNegFinite(m["cpuTemp"])
  \/ \E k \in Percents : ~IsNonNegFinite(m[k])
  \/ \E k \in Counts : m[k] # Absent /\ ~IsNonNegFinite(m[k])

\* What the host says it has bounds what it says it uses.
Bounded(h, k, v) ==
  IF k \in DOMAIN TotalOf /\ IsNonNegFinite(h[TotalOf[k]]) THEN Least(v, h[TotalOf[k]]) ELSE v

RouteMetrics(h, m) ==
  [k \in Metrics |->
    IF k \in Percents THEN Least(m[k], 100)
    ELSE IF m[k] = Absent THEN (IF k = "cpuTemp" THEN Absent ELSE 0)
    ELSE IF k = "cpuTemp" THEN Least(m[k], 150)
    ELSE Bounded(h, k, Least(m[k], Safe))]

(***************************************************************************)
(* saveReport: what is missing is empty or zero, what is too long is cut,  *)
(* and a number it does not know is dropped.                               *)
(***************************************************************************)
Number(v) == IF v \in Int THEN v ELSE 0

DbHost(h) ==
  [k \in Texts \cup (Totals \ RouteOnly) |->
    IF k \in Texts THEN Least(Number(h[k]), MaxLen[k]) ELSE Number(h[k])]

DbMetrics(m) == [k \in Metrics |-> Number(m[k])]

\* The bookkeeping columns of the two traffic counters.
Counter(v) == IF v \in Nat THEN Least(v, Safe) ELSE 0

(***************************************************************************)
(* POST.  A malformed body is refused as a whole; the token is looked at,  *)
(* and bound to the hostname if it was free, before saveReport looks at    *)
(* the characters of that hostname.                                        *)
(***************************************************************************)
Refused(body) ==
  ~(body.name \in 1 .. NameLen) \/ HostRefused(body.host) \/ MetricsRefused(body.metrics)

Authorizes(body) == ~Refused(body)
Stores(body, authorized) == Authorizes(body) /\ authorized /\ body.shaped

Status(body, authorized) ==
  CASE Refused(body)                                  -> 400
    [] ~Refused(body) /\ ~authorized                  -> 401
    [] ~Refused(body) /\ authorized /\ ~body.shaped  -> 500
    [] OTHER                                          -> 200

StoredMetrics(body) == DbMetrics(RouteMetrics(body.host, body.metrics))
StoredHost(body)    == DbHost(body.host)
=============================================================================
