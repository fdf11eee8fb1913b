----------------------------- MODULE RateLimit ------------------------------
(* The token buckets in front of the public routes (master/lib/ratelimit.ts):*)
(* a key may make Capacity requests at once and Rate more per tick after      *)
(* that.  Buckets live in an LRU cache that drops one that was not touched    *)
(* for IdleTtl, and any one when it is full.                                  *)
(*                                                                            *)
(* Tokens are counted in fractions, Unit of them to a token, so that the      *)
(* refill per tick of the clock is a whole number.                            *)
EXTENDS Integers

CONSTANTS Keys, Capacity, Rate, Unit, IdleTtl

\* takeToken and its callers: a bucket that is dropped for being idle was full
\* again by then (10 minutes; the slowest bucket fills in one).
RateAssumption ==
  /\ Capacity \in Nat \ {0} /\ Rate \in Nat \ {0} /\ Unit \in Nat \ {0}
  /\ IdleTtl \in Nat
  /\ Capacity * Unit <= Rate * IdleTtl

VARIABLES
  clock,    \* Date.now()
  bucket,   \* per key: its entry of the cache, or NoBucket
  since,    \* history: per key, when someone began to count its requests
  granted,  \* history: per key, the requests let through since then
  evicted   \* history: the keys whose bucket was dropped for room since then

bucketVars == <<clock, bucket, since, granted, evicted>>

Full     == Capacity * Unit
NoBucket == [here |-> FALSE, tokens |-> 0, ts |-> 0]

BucketsInit ==
  /\ clock \in Nat
  /\ bucket = [k \in Keys |-> NoBucket]
  /\ since = [k \in Keys |-> clock] /\ granted = [k \in Keys |-> 0]
  /\ evicted = {}

Tick ==
  /\ \E now \in Nat : now > clock /\ clock' = now
  /\ UNCHANGED <<bucket, since, granted, evicted>>

\* buckets.get: an entry past its ttl is as good as gone.
Get(k) ==
  IF bucket[k].here /\ clock - bucket[k].ts <= IdleTtl THEN bucket[k] ELSE NoBucket

Capped(n) == IF n < Full THEN n ELSE Full

Refilled(b) ==
  IF b.here THEN Capped(b.tokens + (clock - b.ts) * Rate) ELSE Full

TakeToken(k) ==
  LET tokens == Refilled(Get(k))
      ok     == tokens >= Unit
  IN  /\ bucket' = [bucket EXCEPT ![k] =
           [here |-> TRUE, tokens |-> IF ok THEN tokens - Unit ELSE tokens, ts |-> clock]]
      /\ granted' = [granted EXCEPT ![k] = IF ok THEN @ + 1 ELSE @]
      /\ UNCHANGED <<clock, since, evicted>>

\* The cache is full of other keys.
Evict(k) ==
  /\ bucket[k].here
  /\ bucket' = [bucket EXCEPT ![k] = NoBucket] /\ evicted' = evicted \cup {k}
  /\ UNCHANGED <<clock, since, granted>>

\* The count can begin at any time: what holds for it holds for every window.
Watch(k) ==
  /\ since' = [since EXCEPT ![k] = clock] /\ granted' = [granted EXCEPT ![k] = 0]
  /\ evicted' = evicted \ {k}
  /\ UNCHANGED <<clock, bucket>>

BucketsNext == Tick \/ \E k \in Keys : TakeToken(k) \/ Evict(k) \/ Watch(k)

BucketsSpec == BucketsInit /\ [][BucketsNext]_bucketVars

-----------------------------------------------------------------------------
\* The numbers are natural, and no bucket holds more than its capacity.
BucketsTypeOK ==
  /\ clock \in Nat
  /\ bucket \in [Keys -> [here : BOOLEAN, tokens : 0 .. Full, ts : Nat]]
  /\ since \in [Keys -> Nat] /\ granted \in [Keys -> Nat]
  /\ evicted \subseteq Keys

\* What takeToken is for: over any stretch of time a key is let through no
\* more often than its capacity and the refill of that time allow, whatever
\* was dropped for being idle.  Only a bucket dropped for room gives more.
GrantsBounded ==
  \A k \in Keys : k \notin evicted =>
    granted[k] * Unit <= Full + (clock - since[k]) * Rate
=============================================================================
