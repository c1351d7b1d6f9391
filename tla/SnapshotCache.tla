---------------------------- MODULE SnapshotCache ----------------------------
(***************************************************************************)
(* The snapshot cache of cache.py: RedisSnapshotCache objects (one per API *)
(* process, script or graph runtime) over one shared Redis, each with an   *)
(* in-process fallback and a flag that gives Redis up for good.            *)
(*                                                                         *)
(* An operation of the cache is several steps here, because other threads  *)
(* and processes run between its calls to Redis: this module has the state *)
(* and the single steps, the callers' modules put them in order.           *)
(***************************************************************************)
EXTENDS Naturals

CONSTANTS
  Caches,    \* RedisSnapshotCache objects
  Keys,      \* cache keys
  TTL,       \* ttl_seconds
  MaxTime    \* bound on the clock

ASSUME ClockAssumption ==
  /\ TTL \in Nat \ {0}
  /\ MaxTime \in Nat

Times == 0..MaxTime
\* CacheEntry.  at: when it was stored; ok: the value passes its reader's validation (an entry written
\* by another build need not).
Entries == [ok: BOOLEAN, at: Times]
Missing == [missing |-> TRUE]
\* A hash without its three fields, or one that does not decode.
Malformed == [malformed |-> TRUE]

VARIABLES
  redis,     \* key -> entry, Malformed or Missing
  fallback,  \* cache, key -> entry or Missing: _fallback
  latched,   \* cache -> _redis_unavailable
  now        \* the clock, shared by all processes

cacheVars == <<redis, fallback, latched, now>>

CacheTypeOK ==
  /\ redis \in [Keys -> Entries \union {Missing, Malformed}]
  /\ fallback \in [Caches -> [Keys -> Entries \union {Missing}]]
  /\ latched \in [Caches -> BOOLEAN]
  /\ now \in Times

\* build_snapshot_cache: empty fallbacks over whatever Redis holds.
CacheInit(left) ==
  /\ redis \in [Keys -> Entries \union {Missing, Malformed}]
  /\ \A k \in Keys : redis[k] \in left[k]
  /\ fallback = [c \in Caches |-> [k \in Keys |-> Missing]]
  /\ latched = [c \in Caches |-> FALSE]
  /\ now = 0

Tick == now < MaxTime /\ now' = now + 1 /\ UNCHANGED <<redis, fallback, latched>>

\* Mutant of Fresh: peek instead of get.
FreshAlways(entry) == entry # Missing

\* now() < expires_at
Fresh(entry) == entry # Missing /\ now < entry.at + TTL

\* A call to Redis that raises: the object gives Redis up.
RedisFails(c) ==
  /\ ~latched[c]
  /\ latched' = [latched EXCEPT ![c] = TRUE]
  /\ UNCHANGED <<redis, fallback, now>>

\* hgetall answers raw.
RedisAnswers(c, k, raw) ==
  /\ ~latched[c]
  /\ raw = redis[k]
  /\ UNCHANGED cacheVars

\* put, first half
FallbackPut(c, k, entry) ==
  /\ fallback' = [fallback EXCEPT ![c][k] = entry]
  /\ UNCHANGED <<redis, latched, now>>

\* Mutant of RedisPut: a failed hset is swallowed without giving Redis up.
RedisPutSwallows(c, k, entry) ==
  IF latched[c] THEN UNCHANGED cacheVars
  ELSE \/ UNCHANGED cacheVars
       \/ /\ redis' = [redis EXCEPT ![k] = entry]
          /\ UNCHANGED <<fallback, latched, now>>

\* put, second half: hset, unless Redis was given up
RedisPut(c, k, entry) ==
  IF latched[c] THEN UNCHANGED cacheVars
  ELSE \/ RedisFails(c)
       \/ /\ redis' = [redis EXCEPT ![k] = entry]
          /\ UNCHANGED <<fallback, latched, now>>

\* delete, first and second half
FallbackDelete(c, k) ==
  /\ fallback' = [fallback EXCEPT ![c][k] = Missing]
  /\ UNCHANGED <<redis, latched, now>>

RedisDelete(c, k) ==
  IF latched[c] THEN UNCHANGED cacheVars
  ELSE \/ RedisFails(c)
       \/ /\ redis' = [redis EXCEPT ![k] = Missing]
          /\ UNCHANGED <<fallback, latched, now>>
=============================================================================
