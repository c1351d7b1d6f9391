----------------------------- MODULE MarketData -----------------------------
(***************************************************************************)
(* MarketDataService of service.py: request threads that load the stock    *)
(* and the index snapshot through the snapshot cache and refresh them from *)
(* the upstream when they are missing, expired or invalid.  The endpoints  *)
(* are plain functions, so they run on a thread pool and interleave at     *)
(* every call to Redis and to the upstream.                                *)
(***************************************************************************)
EXTENDS SnapshotCache, Sequences

CONSTANTS
  Threads,    \* request threads, over all processes
  Home,       \* thread -> the cache object its process uses
  Requests,   \* thread -> what its endpoints load, as sequences of keys
  Left        \* key -> what earlier processes may have left in Redis under it

ASSUME ThreadAssumption ==
  /\ Home \in [Threads -> Caches]
  /\ \A t \in Threads : Requests[t] \subseteq Seq(Keys) \ {<<>>}

\* No entry is from the future.
ASSUME LeftAssumption ==
  \A k \in Keys : \A e \in Left[k] : e \in Entries => e.at = 0

VARIABLES
  thread,    \* the state of each request thread, see Thread
  clean      \* ghost: keys under which Redis held nothing undecodable or
             \* invalid when the first process started; nobody writes any later

vars == <<cacheVars, thread, clean>>

\* from: "cache" (stale = FALSE, age is that of the entry when it was read),
\* "upstream" (stale = FALSE) or "stale" (stale = TRUE).
Part == [ok: BOOLEAN, age: Times, from: {"cache", "upstream", "stale"}]
Answers == {"none", "ok", "unavailable", "error"}

\* pc: the step of _load_cached_snapshot the thread is about to take.
Thread ==
  [pc: {"idle", "get", "getLocal", "dropLocal", "dropRedis", "peek", "peekLocal",
        "refresh", "putLocal", "putRedis"},
   todo: Seq(Keys),              \* keys still to load
   after: {"none", "getLocal", "peek", "peekLocal", "refresh"},
                                 \* where a cache deletion returns to
   stale: Entries \union {Missing}, \* stale_cached
   fetched: Entries \union {Missing}, \* what the upstream returned
   parts: Seq(Part),             \* snapshots loaded so far
   answer: Answers,              \* of the last request
   had: BOOLEAN]                 \* ghost: HasCopy when the load began

Idle == [pc |-> "idle", todo |-> <<>>, after |-> "none", stale |-> Missing,
         fetched |-> Missing, parts |-> <<>>, answer |-> "none", had |-> FALSE]

Init ==
  /\ CacheInit(Left)
  /\ thread = [t \in Threads |-> Idle]
  /\ clean = {k \in Keys : redis[k] = Missing \/ (redis[k] # Malformed /\ redis[k].ok)}

\* The process of t has a copy of a snapshot that nobody has a reason to delete.
HasCopy(t, k) == k \in clean /\ fallback[Home[t]][k] # Missing

key(t) == Head(thread[t].todo)
own(t) == fallback[Home[t]][key(t)]
Goto(t, pc) == thread' = [thread EXCEPT ![t].pc = pc]
Drop(t, after) == thread' = [thread EXCEPT ![t].pc = "dropLocal", ![t].after = after]

\* The endpoint answers; nothing of the request is kept but its answer.
Answer(t, answer, parts) ==
  thread' = [thread EXCEPT ![t] = [Idle EXCEPT !.answer = answer, !.parts = parts,
                                               !.had = thread[t].had]]

\* _load_cached_snapshot is called for the first of the keys.
Begin(t, todo, parts) ==
  thread' = [thread EXCEPT ![t] = [Idle EXCEPT !.pc = "get", !.todo = todo, !.parts = parts,
                                               !.had = HasCopy(t, Head(todo))]]

\* One snapshot is loaded: on to the next key, or build the response.
Loaded(t, entry, from) ==
  LET parts == Append(thread[t].parts, [ok |-> entry.ok, age |-> now - entry.at,
                                        from |-> from])
      rest  == Tail(thread[t].todo)
  IN IF rest = <<>>
     THEN Answer(t, "ok", parts)
     ELSE Begin(t, rest, parts)

-----------------------------------------------------------------------------
\* get_market_overview, get_indices or get_stocks is called.
Ask(t) ==
  /\ thread[t].pc = "idle"
  /\ \E request \in Requests[t] : Begin(t, request, <<>>)
  /\ UNCHANGED <<cacheVars, clean>>

\* validate(cached): serve it, or delete it and go on as if it were not there.
UseCached(t, entry) ==
  IF entry.ok THEN Loaded(t, entry, "cache") ELSE Drop(t, "peek")

\* self._cache.get, its read of Redis.  An expired entry ends the lookup: the
\* fallback is consulted only when Redis has no entry or is given up.
GetRedis(t) ==
  LET c == Home[t] IN
  /\ thread[t].pc = "get"
  /\ UNCHANGED clean
  /\ \/ /\ latched[c]
        /\ Goto(t, "getLocal")
        /\ UNCHANGED cacheVars
     \/ /\ RedisFails(c)
        /\ Goto(t, "getLocal")
     \/ \E raw \in Entries \union {Missing, Malformed} :
          /\ RedisAnswers(c, key(t), raw)
          /\ CASE raw = Missing   -> Goto(t, "getLocal")
               [] raw = Malformed -> Drop(t, "getLocal")
               [] raw \in Entries -> IF Fresh(raw) THEN UseCached(t, raw) ELSE Goto(t, "peek")

\* self._cache.get, its read of the fallback.
GetLocal(t) ==
  /\ thread[t].pc = "getLocal"
  /\ IF Fresh(own(t)) THEN UseCached(t, own(t)) ELSE Goto(t, "peek")
  /\ UNCHANGED <<cacheVars, clean>>

\* Mutant of KeepStale: a stale snapshot is kept without validation.
KeepStaleUnchecked(t, entry) ==
  thread' = [thread EXCEPT ![t].pc = "refresh", ![t].stale = entry]

\* validate(stale_cached): keep it for a failed refresh, or delete it.
KeepStale(t, entry) ==
  IF entry = Missing \/ entry.ok
  THEN thread' = [thread EXCEPT ![t].pc = "refresh", ![t].stale = entry]
  ELSE Drop(t, "refresh")

\* self._cache.peek: the expiry is not looked at.
PeekRedis(t) ==
  LET c == Home[t] IN
  /\ thread[t].pc = "peek"
  /\ UNCHANGED clean
  /\ \/ /\ latched[c]
        /\ Goto(t, "peekLocal")
        /\ UNCHANGED cacheVars
     \/ /\ RedisFails(c)
        /\ Goto(t, "peekLocal")
     \/ \E raw \in Entries \union {Missing, Malformed} :
          /\ RedisAnswers(c, key(t), raw)
          /\ CASE raw = Missing   -> Goto(t, "peekLocal")
               [] raw = Malformed -> Drop(t, "peekLocal")
               [] raw \in Entries -> KeepStale(t, raw)

PeekLocal(t) ==
  /\ thread[t].pc = "peekLocal"
  /\ KeepStale(t, own(t))
  /\ UNCHANGED <<cacheVars, clean>>

\* self._cache.delete, called by the service or by _read_entry.
DropLocal(t) ==
  /\ thread[t].pc = "dropLocal"
  /\ FallbackDelete(Home[t], key(t))
  /\ Goto(t, "dropRedis")
  /\ UNCHANGED clean

DropRedis(t) ==
  /\ thread[t].pc = "dropRedis"
  /\ RedisDelete(Home[t], key(t))
  /\ thread' = [thread EXCEPT ![t].pc = thread[t].after, ![t].after = "none"]
  /\ UNCHANGED clean

\* Mutant of Refresh: the answer is unavailable whenever the upstream is.
RefreshNeverStale(t) ==
  /\ thread[t].pc = "refresh"
  /\ UNCHANGED <<cacheVars, clean>>
  /\ \/ thread' = [thread EXCEPT ![t].pc = "putLocal",
                     ![t].fetched = [ok |-> TRUE, at |-> now]]
     \/ Answer(t, "unavailable", <<>>)

\* refresh() and validate(fresh_snapshot).  A data error of the upstream or an
\* invalid snapshot leaves the endpoint as it is; any other failure falls back
\* to the stale snapshot.
Refresh(t) ==
  /\ thread[t].pc = "refresh"
  /\ UNCHANGED <<cacheVars, clean>>
  /\ \/ thread' = [thread EXCEPT ![t].pc = "putLocal",
                     ![t].fetched = [ok |-> TRUE, at |-> now]]
     \/ Answer(t, "error", <<>>)
     \/ IF thread[t].stale # Missing
        THEN Loaded(t, thread[t].stale, "stale")
        ELSE Answer(t, "unavailable", <<>>)

\* self._cache.put stamps the snapshot when it is stored, not when it was read.
PutLocal(t) ==
  LET entry == [thread[t].fetched EXCEPT !.at = now] IN
  /\ thread[t].pc = "putLocal"
  /\ FallbackPut(Home[t], key(t), entry)
  /\ thread' = [thread EXCEPT ![t].pc = "putRedis", ![t].fetched = entry]
  /\ UNCHANGED clean

PutRedis(t) ==
  /\ thread[t].pc = "putRedis"
  /\ RedisPut(Home[t], key(t), thread[t].fetched)
  /\ Loaded(t, thread[t].fetched, "upstream")
  /\ UNCHANGED clean

Pass == Tick /\ UNCHANGED <<thread, clean>>

Step(t) ==
  \/ Ask(t) \/ GetRedis(t) \/ GetLocal(t) \/ PeekRedis(t) \/ PeekLocal(t)
  \/ DropLocal(t) \/ DropRedis(t) \/ Refresh(t) \/ PutLocal(t) \/ PutRedis(t)

Next == \/ \E t \in Threads : Step(t)
        \/ Pass

Spec == Init /\ [][Next]_vars
-----------------------------------------------------------------------------
(***************************************************************************)
(* Properties.                                                             *)
(***************************************************************************)

\* The cache and every thread have the shape the code gives them.
TypeOK ==
  /\ CacheTypeOK
  /\ thread \in [Threads -> Thread]
  /\ clean \in SUBSET Keys

\* No endpoint builds its response from a snapshot that fails validation, on
\* whichever of the paths (Redis, fallback, expired copy) it was found, whatever
\* is left in Redis and whoever puts or deletes in between.
ServedValid ==
  /\ TypeOK
  /\ \A t \in Threads : \A i \in DOMAIN thread[t].parts : thread[t].parts[i].ok

\* What is served from a cache as not stale was stored less than a TTL before it
\* was read, also after Redis was given up and the fallback serves an old copy.
CachedWithinTTL ==
  \A t \in Threads : \A i \in DOMAIN thread[t].parts :
    thread[t].parts[i].from = "cache" => thread[t].parts[i].age < TTL

\* A process that has stored a snapshot once never answers 503 for it again,
\* through any failure of Redis or of the upstream, unless Redis held something
\* undecodable or invalid.
NoOutageOnceLoaded ==
  \A t \in Threads : thread[t].answer = "unavailable" => ~thread[t].had

\* A snapshot that a process keeps for itself is in Redis too, unless it is being
\* put there, the process has given Redis up, or Redis held something that had
\* to be deleted.
SharedUnlessLatched ==
  \A c \in Caches, k \in Keys :
    k \in clean /\ fallback[c][k] # Missing /\ ~latched[c] =>
      \/ redis[k] # Missing
      \/ \E t \in Threads : Home[t] = c /\ thread[t].pc = "putRedis" /\ key(t) = k
=============================================================================
