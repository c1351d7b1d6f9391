-------------------------- MODULE MarketData_proofs --------------------------
(***************************************************************************)
(* What the market endpoints serve, for every number of threads, processes *)
(* and keys.  The invariant has a part for the two caches and a part for   *)
(* each thread; a step changes one thread, and of the caches only what     *)
(* leaves the parts of the other threads true.                             *)
(***************************************************************************)
EXTENDS MarketData, TLAPS

\* What a cache may hold, and what it may hold of a key that was clean.
Held(e) == e = Missing \/ (e \in Entries /\ e.at <= now)
Valid(e) == e = Missing \/ (e \in Entries /\ e.ok)

CacheFine ==
  /\ CacheTypeOK
  /\ \A k \in Keys : redis[k] = Malformed \/ Held(redis[k])
  /\ \A c \in Caches, k \in Keys : Held(fallback[c][k])
  /\ \A k \in clean : Valid(redis[k]) /\ \A c \in Caches : Valid(fallback[c][k])

PartFine(p) == p.ok /\ (p.from = "cache" => p.age < TTL)

\* The part of thread t in state th.
ThreadFine(t, th) ==
  /\ th.pc # "idle" => th.todo # <<>> /\ th.answer = "none"
  /\ Held(th.stale) /\ Valid(th.stale)
  /\ th.pc \in {"putLocal", "putRedis"} =>
       th.fetched \in Entries /\ th.fetched.ok /\ th.fetched.at <= now
  /\ \A i \in DOMAIN th.parts : PartFine(th.parts[i])
  /\ th.pc \in {"dropLocal", "dropRedis"} =>
       Head(th.todo) \notin clean /\ th.after \in {"getLocal", "peek", "peekLocal", "refresh"}
  /\ th.had /\ th.pc # "idle" => HasCopy(t, Head(th.todo))
  /\ th.had /\ th.pc = "refresh" => th.stale # Missing
  /\ th.had => th.answer # "unavailable"

Shared ==
  \A c \in Caches, k \in Keys :
    k \in clean /\ fallback[c][k] # Missing /\ ~latched[c] =>
      \/ redis[k] # Missing
      \/ \E t \in Threads : Home[t] = c /\ thread[t].pc = "putRedis" /\ key(t) = k

LoadInv ==
  /\ CacheFine
  /\ clean \subseteq Keys
  /\ thread \in [Threads -> Thread]
  /\ \A t \in Threads : ThreadFine(t, thread[t])
  /\ Shared

-----------------------------------------------------------------------------
\* The three things that a cache may hold are told apart.
LEMMA Distinct ==
  Missing \notin Entries /\ Malformed \notin Entries /\ Missing # Malformed
<1>1. \A e \in Entries : DOMAIN e = {"ok", "at"}
  BY DEF Entries
<1>2. DOMAIN Missing = {"missing"} /\ DOMAIN Malformed = {"malformed"}
  BY DEF Missing, Malformed
<1>3. {"ok", "at"} # {"missing"} /\ {"ok", "at"} # {"malformed"} /\ {"missing"} # {"malformed"}
  OBVIOUS
<1>4. QED
  BY <1>1, <1>2, <1>3

LEMMA IdleIsThread == Idle \in Thread
<1>1. <<>> \in Seq(Keys) /\ <<>> \in Seq(Part)
  OBVIOUS
<1>2. QED
  BY <1>1 DEF Idle, Thread, Answers

\* A thread that is idle, with what it has loaded.
LEMMA IdleFine ==
  ASSUME NEW t \in Threads, NEW th \in Thread, th.pc = "idle", th.stale = Missing,
         \A i \in DOMAIN th.parts : PartFine(th.parts[i]),
         th.had => th.answer # "unavailable"
  PROVE  ThreadFine(t, th)
BY DEF ThreadFine, Held, Valid

THEOREM LoadInit == Init => LoadInv
<1> SUFFICES ASSUME Init PROVE LoadInv
  OBVIOUS
<1>1. CacheTypeOK
  BY ClockAssumption DEF Init, CacheInit, CacheTypeOK, Times
<1>2. \A k \in Keys : redis[k] = Malformed \/ Held(redis[k])
  BY <1>1, LeftAssumption, ClockAssumption DEF Init, CacheInit, CacheTypeOK, Times, Held
<1>3. clean \subseteq Keys /\ \A k \in clean : Valid(redis[k])
  BY <1>1 DEF Init, Valid, CacheTypeOK
<1>4. \A c \in Caches, k \in Keys : fallback[c][k] = Missing
  BY DEF Init, CacheInit
<1>5. CacheFine /\ Shared
  BY <1>1, <1>2, <1>3, <1>4 DEF CacheFine, Shared, Held, Valid
<1>6. thread \in [Threads -> Thread] /\ \A t \in Threads : thread[t] = Idle
  BY IdleIsThread DEF Init
<1>7. \A t \in Threads : ThreadFine(t, thread[t])
  BY <1>6 DEF ThreadFine, Idle, Held, Valid
<1>8. QED
  BY <1>3, <1>5, <1>6, <1>7 DEF LoadInv

-----------------------------------------------------------------------------
\* A step that takes no time and from no cache what it has of a clean key.
Keeps ==
  /\ now' = now
  /\ clean' = clean
  /\ \A c \in Caches, k \in clean : fallback[c][k] # Missing => fallback'[c][k] # Missing

\* A step of one thread keeps the invariant if it leaves the caches fine, takes
\* from no cache what it has of a clean key, and puts the thread into a fine state.
LEMMA OneThread ==
  ASSUME LoadInv, NEW t \in Threads, NEW th \in Thread,
         thread' = [thread EXCEPT ![t] = th], Keeps,
         CacheFine', Shared', ThreadFine(t, th)'
  PROVE  LoadInv'
<1>1. thread' \in [Threads -> Thread]
  BY DEF LoadInv
<1>2. ASSUME NEW u \in Threads PROVE ThreadFine(u, thread[u])'
  <2>1. CASE u = t
    BY <2>1 DEF LoadInv
  <2>2. CASE u # t
    <3>1. thread'[u] = thread[u] /\ ThreadFine(u, thread[u])
      BY <2>2 DEF LoadInv
    <3>2. \A k : HasCopy(u, k) => HasCopy(u, k)'
      BY ThreadAssumption DEF HasCopy, LoadInv, Keeps
    <3>3. QED
      BY <3>1, <3>2 DEF Keeps, ThreadFine, Held, Valid
  <2>3. QED
    BY <2>1, <2>2
<1>3. QED
  BY <1>1, <1>2 DEF LoadInv, Keeps

\* A step that changes no cache and does not touch what is being put.
LEMMA SharedKept ==
  ASSUME LoadInv, NEW t \in Threads, NEW th, UNCHANGED <<fallback, redis, clean>>,
         \A c \in Caches : latched[c] => latched'[c],
         thread' = [thread EXCEPT ![t] = th], thread[t].pc # "putRedis"
  PROVE  Shared'
<1> SUFFICES ASSUME NEW c \in Caches, NEW k \in Keys,
                    k \in clean, fallback[c][k] # Missing, ~latched'[c], redis[k] = Missing
             PROVE  \E u \in Threads : Home[u] = c /\ thread'[u].pc = "putRedis"
                                         /\ Head(thread'[u].todo) = k
  BY DEF Shared, key
<1>1. PICK u \in Threads : Home[u] = c /\ thread[u].pc = "putRedis" /\ key(u) = k
  BY DEF LoadInv, Shared
<1>2. u # t /\ thread'[u] = thread[u]
  BY <1>1 DEF LoadInv
<1>3. QED
  BY <1>1, <1>2 DEF key

-----------------------------------------------------------------------------
\* What is known of a thread that is under way.
LEMMA UnderWay ==
  ASSUME LoadInv, NEW t \in Threads, thread[t].pc # "idle"
  PROVE  /\ thread[t] \in Thread
         /\ ThreadFine(t, thread[t])
         /\ Home[t] \in Caches
         /\ key(t) = Head(thread[t].todo)
         /\ key(t) \in Keys
         /\ Tail(thread[t].todo) \in Seq(Keys)
         /\ Held(own(t))
<1>1. thread[t] \in Thread /\ ThreadFine(t, thread[t]) /\ Home[t] \in Caches
  BY ThreadAssumption DEF LoadInv
<1>2. thread[t].todo \in Seq(Keys) /\ thread[t].todo # <<>>
  BY <1>1 DEF Thread, ThreadFine
<1>3. Head(thread[t].todo) \in Keys /\ Tail(thread[t].todo) \in Seq(Keys)
  BY <1>2
<1>4. QED
  BY <1>1, <1>3 DEF key, own, LoadInv, CacheFine

\* The thread goes on with another step.
LEMMA GoesOn ==
  ASSUME LoadInv, NEW t \in Threads, Keeps, thread[t].pc # "idle",
         NEW pc \in {"getLocal", "peek", "peekLocal"}, Goto(t, pc)
  PROVE  \E th \in Thread : thread' = [thread EXCEPT ![t] = th] /\ ThreadFine(t, th)'
<1>1. thread[t] \in Thread /\ ThreadFine(t, thread[t]) /\ Home[t] \in Caches
  BY UnderWay
<1> PICK th : th = [thread[t] EXCEPT !.pc = pc]
  OBVIOUS
<1>2. th \in Thread /\ th.pc = pc /\ th.todo = thread[t].todo /\ th.stale = thread[t].stale
      /\ th.parts = thread[t].parts /\ th.had = thread[t].had /\ th.answer = thread[t].answer
  BY <1>1 DEF Thread
<1>3. thread' = [thread EXCEPT ![t] = th]
  BY DEF Goto
<1>4. ThreadFine(t, th)'
  BY <1>1, <1>2 DEF Keeps, ThreadFine, HasCopy, Held, Valid
<1>5. QED
  BY <1>2, <1>3, <1>4

\* The thread deletes what it found; the key is none of the clean ones.
LEMMA Drops ==
  ASSUME LoadInv, NEW t \in Threads, Keeps, thread[t].pc # "idle", key(t) \notin clean,
         NEW after \in {"getLocal", "peek", "peekLocal", "refresh"}, Drop(t, after)
  PROVE  \E th \in Thread : thread' = [thread EXCEPT ![t] = th] /\ ThreadFine(t, th)'
<1>1. /\ thread[t] \in Thread /\ ThreadFine(t, thread[t]) /\ Home[t] \in Caches
      /\ key(t) = Head(thread[t].todo)
  BY UnderWay
<1> PICK th : th = [thread[t] EXCEPT !.pc = "dropLocal", !.after = after]
  OBVIOUS
<1>2. th \in Thread /\ th.pc = "dropLocal" /\ th.after = after /\ th.todo = thread[t].todo
      /\ th.stale = thread[t].stale /\ th.parts = thread[t].parts /\ th.had = thread[t].had
      /\ th.answer = thread[t].answer
  BY <1>1 DEF Thread
<1>3. thread' = [thread EXCEPT ![t] = th]
  BY DEF Drop
<1>4. ThreadFine(t, th)'
  BY <1>1, <1>2 DEF Keeps, ThreadFine, HasCopy, Held, Valid
<1>5. QED
  BY <1>2, <1>3, <1>4

\* The endpoint answers.
LEMMA Answered ==
  ASSUME LoadInv, NEW t \in Threads, NEW answer \in Answers, NEW parts \in Seq(Part),
         \A i \in DOMAIN parts : PartFine(parts[i]), Keeps,
         answer = "unavailable" => ~thread[t].had, Answer(t, answer, parts)
  PROVE  \E th \in Thread : thread' = [thread EXCEPT ![t] = th] /\ ThreadFine(t, th)'
<1> PICK th : th = [Idle EXCEPT !.answer = answer, !.parts = parts, !.had = thread[t].had]
  OBVIOUS
<1>1. th \in Thread /\ th.pc = "idle" /\ th.stale = Missing /\ th.parts = parts
      /\ th.had = thread[t].had /\ th.answer = answer
  BY IdleIsThread DEF Thread, Idle, LoadInv
<1>2. thread' = [thread EXCEPT ![t] = th]
  BY DEF Answer
<1>3. ThreadFine(t, th)'
  BY <1>1 DEF ThreadFine, Held, Valid, PartFine
<1>4. QED
  BY <1>1, <1>2, <1>3

\* The thread begins to load the first of the keys it has to.
LEMMA Starts ==
  ASSUME LoadInv, NEW t \in Threads, Keeps, NEW todo \in Seq(Keys), todo # <<>>,
         NEW parts \in Seq(Part), \A i \in DOMAIN parts : PartFine(parts[i]),
         Begin(t, todo, parts)
  PROVE  \E th \in Thread : thread' = [thread EXCEPT ![t] = th] /\ ThreadFine(t, th)'
<1> PICK had \in BOOLEAN : had <=> HasCopy(t, Head(todo))
  OBVIOUS
<1> PICK th : th = [Idle EXCEPT !.pc = "get", !.todo = todo, !.parts = parts, !.had = had]
  OBVIOUS
<1>1. HasCopy(t, Head(todo)) \in BOOLEAN /\ had = HasCopy(t, Head(todo))
  BY DEF HasCopy
<1>2. thread' = [thread EXCEPT ![t] = th]
  BY <1>1 DEF Begin
<1>3. th \in Thread /\ th.pc = "get" /\ th.todo = todo /\ th.parts = parts /\ th.had = had
      /\ th.stale = Missing /\ th.answer = "none"
  BY IdleIsThread DEF Thread, Idle
<1>4. ASSUME th.had PROVE HasCopy(t, Head(th.todo))'
  <2>1. th.had = had /\ th.todo = todo
    BY <1>3
  <2>2. HasCopy(t, Head(th.todo))
    <3>1. had
      BY <1>4, <2>1
    <3>2. QED
      BY <2>1, <3>1
  <2>3. Home[t] \in Caches
    BY ThreadAssumption
  <2>4. QED
    BY <2>2, <2>3 DEF HasCopy, Keeps
<1>5. ThreadFine(t, th)'
  <2>1. th.todo # <<>> /\ \A i \in DOMAIN th.parts : PartFine(th.parts[i])
    BY <1>3
  <2>2. QED
    BY <1>3, <1>4, <2>1 DEF ThreadFine, Held, Valid, PartFine
<1>6. QED
  BY <1>2, <1>3, <1>5

\* One snapshot is loaded.
LEMMA Loads ==
  ASSUME LoadInv, NEW t \in Threads, Keeps, thread[t].pc # "idle",
         NEW entry \in Entries, entry.ok, entry.at <= now,
         NEW from \in {"cache", "upstream", "stale"},
         from = "cache" => now - entry.at < TTL, Loaded(t, entry, from)
  PROVE  \E th \in Thread : thread' = [thread EXCEPT ![t] = th] /\ ThreadFine(t, th)'
<1> DEFINE part  == [ok |-> entry.ok, age |-> now - entry.at, from |-> from]
           parts == Append(thread[t].parts, part)
           rest  == Tail(thread[t].todo)
<1>1. thread[t] \in Thread /\ ThreadFine(t, thread[t]) /\ Home[t] \in Caches
      /\ rest \in Seq(Keys)
  BY UnderWay
<1>2. now \in 0..MaxTime /\ entry.at \in 0..MaxTime /\ MaxTime \in Nat
  BY ClockAssumption DEF LoadInv, CacheFine, CacheTypeOK, Times, Entries
<1>3. part \in Part /\ PartFine(part)
  <2>1. now - entry.at \in 0..MaxTime
    BY <1>2
  <2>2. QED
    BY <2>1 DEF Part, PartFine, Times, Entries
<1>4. parts \in Seq(Part) /\ \A i \in DOMAIN parts : PartFine(parts[i])
  <2>1. thread[t].parts \in Seq(Part) /\ \A i \in DOMAIN thread[t].parts : PartFine(thread[t].parts[i])
    BY <1>1 DEF Thread, ThreadFine
  <2> HIDE DEF part
  <2>2. QED
    BY <1>3, <2>1
<1> HIDE DEF parts
<1>5. CASE rest = <<>>
  <2>1. Answer(t, "ok", parts)
    BY <1>5 DEF Loaded, parts
  <2>2. QED
    BY <1>4, <2>1, Answered DEF Answers
<1>6. CASE rest # <<>>
  <2>1. Begin(t, rest, parts)
    BY <1>6 DEF Loaded, parts
  <2> HIDE DEF rest
  <2>2. QED
    BY <1>1, <1>4, <1>6, <2>1, Starts
<1>7. QED
  BY <1>5, <1>6

-----------------------------------------------------------------------------
\* A step that changes neither what the caches hold nor the time.
LEMMA CachesSame ==
  ASSUME LoadInv, UNCHANGED <<redis, fallback, now, clean>>, latched' \in [Caches -> BOOLEAN]
  PROVE  CacheFine' /\ Keeps
BY DEF LoadInv, CacheFine, CacheTypeOK, Held, Valid, Keeps

\* Such a step of a thread that is not putting anything.
LEMMA Quiet ==
  ASSUME LoadInv, NEW t \in Threads, UNCHANGED <<redis, fallback, now, clean>>,
         latched' \in [Caches -> BOOLEAN], \A c \in Caches : latched[c] => latched'[c],
         thread[t].pc # "putRedis",
         \E th \in Thread : thread' = [thread EXCEPT ![t] = th] /\ ThreadFine(t, th)'
  PROVE  LoadInv'
<1>1. PICK th \in Thread : thread' = [thread EXCEPT ![t] = th] /\ ThreadFine(t, th)'
  OBVIOUS
<1>2. CacheFine' /\ Keeps
  BY CachesSame
<1>3. Shared'
  BY <1>1, SharedKept
<1>4. QED
  BY <1>1, <1>2, <1>3, OneThread

\* What a call to Redis that only reads does to the caches.
UnchangedOrFails(c) == UNCHANGED cacheVars \/ RedisFails(c)

\* Latches stay and have their type.
LEMMA Latches ==
  ASSUME LoadInv, NEW c \in Caches, UnchangedOrFails(c)
  PROVE  /\ UNCHANGED <<redis, fallback, now>>
         /\ latched' \in [Caches -> BOOLEAN]
         /\ \A d \in Caches : latched[d] => latched'[d]
BY DEF UnchangedOrFails, LoadInv, CacheFine, CacheTypeOK, cacheVars, RedisFails

LEMMA Uses ==
  ASSUME LoadInv, NEW t \in Threads, Keeps, thread[t].pc # "idle",
         NEW entry \in Entries, entry.at <= now, Fresh(entry),
         key(t) \in clean => Valid(entry), UseCached(t, entry)
  PROVE  \E th \in Thread : thread' = [thread EXCEPT ![t] = th] /\ ThreadFine(t, th)'
<1>1. CASE entry.ok
  <2>1. now - entry.at < TTL
    BY ClockAssumption DEF Fresh, LoadInv, CacheFine, CacheTypeOK, Times, Entries
  <2>2. Loaded(t, entry, "cache")
    BY <1>1 DEF UseCached
  <2>3. QED
    BY <1>1, <2>1, <2>2, Loads
<1>2. CASE ~entry.ok
  <2>1. key(t) \notin clean
    BY <1>2, Distinct DEF Valid
  <2>2. Drop(t, "peek")
    BY <1>2 DEF UseCached
  <2>3. QED
    BY <2>1, <2>2, Drops
<1>3. QED
  BY <1>1, <1>2

LEMMA Stales ==
  ASSUME LoadInv, NEW t \in Threads, Keeps, thread[t].pc # "idle", NEW entry, Held(entry),
         key(t) \in clean => Valid(entry), thread[t].had => entry # Missing,
         KeepStale(t, entry)
  PROVE  \E th \in Thread : thread' = [thread EXCEPT ![t] = th] /\ ThreadFine(t, th)'
<1>1. CASE entry = Missing \/ entry.ok
  <2>1. thread[t] \in Thread /\ ThreadFine(t, thread[t]) /\ Home[t] \in Caches
    BY UnderWay
  <2> PICK th : th = [thread[t] EXCEPT !.pc = "refresh", !.stale = entry]
    OBVIOUS
  <2>2. entry \in Entries \union {Missing} /\ Valid(entry)
    BY <1>1 DEF Held, Valid
  <2>3. th \in Thread /\ th.pc = "refresh" /\ th.stale = entry /\ th.todo = thread[t].todo
        /\ th.parts = thread[t].parts /\ th.had = thread[t].had
        /\ th.answer = thread[t].answer
    BY <2>1, <2>2 DEF Thread
  <2>4. thread' = [thread EXCEPT ![t] = th]
    BY <1>1 DEF KeepStale
  <2>5. ThreadFine(t, th)'
    BY <2>1, <2>2, <2>3 DEF Keeps, ThreadFine, HasCopy, Held, Valid
  <2>6. QED
    BY <2>3, <2>4, <2>5
<1>2. CASE ~(entry = Missing \/ entry.ok)
  <2>1. key(t) \notin clean
    BY <1>2 DEF Valid
  <2>2. Drop(t, "refresh")
    BY <1>2 DEF KeepStale
  <2>3. QED
    BY <2>1, <2>2, Drops
<1>3. QED
  BY <1>1, <1>2

-----------------------------------------------------------------------------
\* One lemma for each action.
LEMMA AskStep == ASSUME LoadInv, NEW t \in Threads, Ask(t) PROVE LoadInv'
<1>1. PICK request \in Requests[t] : Begin(t, request, <<>>)
  BY DEF Ask
<1>2. request \in Seq(Keys) /\ request # <<>>
  BY ThreadAssumption
<1>3. UNCHANGED <<redis, fallback, now, clean, latched>> /\ latched' \in [Caches -> BOOLEAN]
  BY DEF Ask, cacheVars, LoadInv, CacheFine, CacheTypeOK
<1>4. Keeps
  BY <1>3, CachesSame
<1>6. <<>> \in Seq(Part) /\ \A i \in DOMAIN <<>> : PartFine(<<>>[i])
  OBVIOUS
<1>7. \E th \in Thread : thread' = [thread EXCEPT ![t] = th] /\ ThreadFine(t, th)'
  BY <1>1, <1>2, <1>4, <1>6, Starts
<1>8. thread[t].pc # "putRedis"
  BY DEF Ask
<1>9. QED
  BY <1>3, <1>7, <1>8, Quiet

LEMMA GetRedisStep == ASSUME LoadInv, NEW t \in Threads, GetRedis(t) PROVE LoadInv'
<1>1. thread[t].pc = "get" /\ UNCHANGED clean
  BY DEF GetRedis
<1>2. UnchangedOrFails(Home[t])
  BY DEF GetRedis, RedisAnswers, UnchangedOrFails
<1>3. Home[t] \in Caches
  BY ThreadAssumption
<1>4. /\ UNCHANGED <<redis, fallback, now, clean>> /\ latched' \in [Caches -> BOOLEAN]
      /\ \A c \in Caches : latched[c] => latched'[c]
  BY <1>1, <1>2, <1>3, Latches DEF UnchangedOrFails
<1>5. Keeps
  BY <1>4, CachesSame
<1>6. \E th \in Thread : thread' = [thread EXCEPT ![t] = th] /\ ThreadFine(t, th)'
  <2>1. CASE Goto(t, "getLocal") \/ Goto(t, "peek")
    BY <1>1, <1>5, <2>1, GoesOn
  <2>2. CASE redis[key(t)] = Malformed /\ Drop(t, "getLocal")
    <3>1. key(t) \notin clean
      BY <2>2, Distinct DEF LoadInv, CacheFine, Valid
    <3>2. QED
      BY <1>1, <1>5, <2>2, <3>1, Drops
  <2>3. CASE \E entry \in Entries : entry = redis[key(t)] /\ Fresh(entry) /\ UseCached(t, entry)
    <3>1. PICK entry \in Entries : entry = redis[key(t)] /\ Fresh(entry) /\ UseCached(t, entry)
      BY <2>3
    <3>2. key(t) \in Keys
      BY <1>1, UnderWay
    <3>3. entry.at <= now /\ (key(t) \in clean => Valid(entry))
      BY <3>1, <3>2, Distinct DEF LoadInv, CacheFine, Held
    <3>4. QED
      BY <1>1, <1>5, <3>1, <3>3, Uses
  <2>4. QED
    BY <2>1, <2>2, <2>3, Distinct DEF GetRedis, RedisAnswers
<1>7. QED
  BY <1>1, <1>4, <1>6, Quiet

LEMMA GetLocalStep == ASSUME LoadInv, NEW t \in Threads, GetLocal(t) PROVE LoadInv'
<1>1. thread[t].pc = "getLocal" /\ UNCHANGED <<redis, fallback, now, latched, clean>>
  BY DEF GetLocal, cacheVars
<1>2. latched' \in [Caches -> BOOLEAN]
  BY <1>1 DEF LoadInv, CacheFine, CacheTypeOK
<1>3. Keeps
  BY <1>1, <1>2, CachesSame
<1>4. \E th \in Thread : thread' = [thread EXCEPT ![t] = th] /\ ThreadFine(t, th)'
  <2>1. CASE Fresh(own(t))
    <3>1. own(t) # Missing /\ UseCached(t, own(t))
      BY <2>1 DEF Fresh, GetLocal
    <3>2. own(t) \in Entries /\ own(t).at <= now
      BY <1>1, <3>1, UnderWay DEF Held
    <3>3. key(t) \in clean => Valid(own(t))
      BY <1>1, UnderWay DEF own, LoadInv, CacheFine
    <3>4. QED
      BY <1>1, <1>3, <2>1, <3>1, <3>2, <3>3, Uses
  <2>2. CASE ~Fresh(own(t))
    BY <1>1, <1>3, <2>2, GoesOn DEF GetLocal
  <2>3. QED
    BY <2>1, <2>2
<1>5. QED
  BY <1>1, <1>2, <1>4, Quiet

LEMMA PeekRedisStep == ASSUME LoadInv, NEW t \in Threads, PeekRedis(t) PROVE LoadInv'
<1>1. thread[t].pc = "peek" /\ UNCHANGED clean
  BY DEF PeekRedis
<1>2. UnchangedOrFails(Home[t])
  BY DEF PeekRedis, RedisAnswers, UnchangedOrFails
<1>3. Home[t] \in Caches
  BY ThreadAssumption
<1>4. /\ UNCHANGED <<redis, fallback, now, clean>> /\ latched' \in [Caches -> BOOLEAN]
      /\ \A c \in Caches : latched[c] => latched'[c]
  BY <1>1, <1>2, <1>3, Latches DEF UnchangedOrFails
<1>5. Keeps
  BY <1>4, CachesSame
<1>6. \E th \in Thread : thread' = [thread EXCEPT ![t] = th] /\ ThreadFine(t, th)'
  <2>1. CASE Goto(t, "peekLocal")
    BY <1>1, <1>5, <2>1, GoesOn
  <2>2. CASE redis[key(t)] = Malformed /\ Drop(t, "peekLocal")
    <3>1. key(t) \notin clean
      BY <2>2, Distinct DEF LoadInv, CacheFine, Valid
    <3>2. QED
      BY <1>1, <1>5, <2>2, <3>1, Drops
  <2>3. CASE \E entry \in Entries : entry = redis[key(t)] /\ KeepStale(t, entry)
    <3>1. PICK entry \in Entries : entry = redis[key(t)] /\ KeepStale(t, entry)
      BY <2>3
    <3>2. key(t) \in Keys
      BY <1>1, UnderWay
    <3>3. entry # Missing /\ Held(entry) /\ (key(t) \in clean => Valid(entry))
      BY <3>1, <3>2, Distinct DEF LoadInv, CacheFine
    <3>4. QED
      BY <1>1, <1>5, <3>1, <3>3, Stales
  <2>4. QED
    BY <2>1, <2>2, <2>3, Distinct DEF PeekRedis, RedisAnswers
<1>7. QED
  BY <1>1, <1>4, <1>6, Quiet

LEMMA PeekLocalStep == ASSUME LoadInv, NEW t \in Threads, PeekLocal(t) PROVE LoadInv'
<1>1. thread[t].pc = "peekLocal" /\ UNCHANGED <<redis, fallback, now, latched, clean>>
  BY DEF PeekLocal, cacheVars
<1>2. latched' \in [Caches -> BOOLEAN]
  BY <1>1 DEF LoadInv, CacheFine, CacheTypeOK
<1>3. Keeps
  BY <1>1, <1>2, CachesSame
<1>4. Held(own(t)) /\ (key(t) \in clean => Valid(own(t))) /\ (thread[t].had => own(t) # Missing)
  BY <1>1, UnderWay DEF own, LoadInv, CacheFine, ThreadFine, HasCopy
<1>5. KeepStale(t, own(t))
  BY DEF PeekLocal
<1>6. \E th \in Thread : thread' = [thread EXCEPT ![t] = th] /\ ThreadFine(t, th)'
  BY <1>1, <1>3, <1>4, <1>5, Stales
<1>7. QED
  BY <1>1, <1>2, <1>6, Quiet

LEMMA RefreshStep == ASSUME LoadInv, NEW t \in Threads, Refresh(t) PROVE LoadInv'
<1>1. thread[t].pc = "refresh" /\ UNCHANGED <<redis, fallback, now, latched, clean>>
  BY DEF Refresh, cacheVars
<1>2. latched' \in [Caches -> BOOLEAN]
  BY <1>1 DEF LoadInv, CacheFine, CacheTypeOK
<1>3. Keeps
  BY <1>1, <1>2, CachesSame
<1>4. thread[t] \in Thread /\ ThreadFine(t, thread[t]) /\ Home[t] \in Caches
  BY <1>1, UnderWay
<1>5. <<>> \in Seq(Part) /\ \A i \in DOMAIN <<>> : PartFine(<<>>[i])
  OBVIOUS
<1>6. \E th \in Thread : thread' = [thread EXCEPT ![t] = th] /\ ThreadFine(t, th)'
  <2>1. CASE thread' = [thread EXCEPT ![t].pc = "putLocal", ![t].fetched = [ok |-> TRUE, at |-> now]]
    <3> PICK entry : entry = [ok |-> TRUE, at |-> now]
      OBVIOUS
    <3>1. entry \in Entries /\ entry.ok /\ entry.at <= now
      BY ClockAssumption DEF Entries, LoadInv, CacheFine, CacheTypeOK, Times
    <3> PICK th : th = [thread[t] EXCEPT !.pc = "putLocal", !.fetched = entry]
      OBVIOUS
    <3>2. th \in Thread /\ th.pc = "putLocal" /\ th.fetched = entry /\ th.todo = thread[t].todo
          /\ th.stale = thread[t].stale /\ th.parts = thread[t].parts
          /\ th.had = thread[t].had /\ th.answer = thread[t].answer
      BY <1>4, <3>1 DEF Thread
    <3>3. thread' = [thread EXCEPT ![t] = th]
      BY <2>1
    <3>4. ThreadFine(t, th)'
      BY <1>1, <1>3, <1>4, <3>1, <3>2 DEF Keeps, ThreadFine, HasCopy, Held, Valid
    <3>5. QED
      BY <3>2, <3>3, <3>4
  <2>2. CASE Answer(t, "error", <<>>)
    BY <1>3, <1>5, <2>2, Answered DEF Answers
  <2>3. CASE thread[t].stale # Missing /\ Loaded(t, thread[t].stale, "stale")
    <3>1. /\ thread[t].stale \in Entries
          /\ thread[t].stale.ok
          /\ thread[t].stale.at <= now
      BY <1>4, <2>3 DEF ThreadFine, Held, Valid
    <3>2. QED
      BY <1>1, <1>3, <2>3, <3>1, Loads
  <2>4. CASE thread[t].stale = Missing /\ Answer(t, "unavailable", <<>>)
    <3>1. ~thread[t].had
      BY <1>1, <1>4, <2>4 DEF ThreadFine
    <3>2. QED
      BY <1>3, <1>5, <2>4, <3>1, Answered DEF Answers
  <2>5. QED
    BY <2>1, <2>2, <2>3, <2>4 DEF Refresh
<1>7. QED
  BY <1>1, <1>2, <1>6, Quiet

LEMMA PutLocalStep == ASSUME LoadInv, NEW t \in Threads, PutLocal(t) PROVE LoadInv'
<1>1. thread[t].pc = "putLocal" /\ UNCHANGED <<redis, now, latched, clean>>
  BY DEF PutLocal, FallbackPut
<1>2. /\ thread[t] \in Thread /\ ThreadFine(t, thread[t]) /\ Home[t] \in Caches
      /\ key(t) \in Keys /\ key(t) = Head(thread[t].todo)
  BY <1>1, UnderWay
<1> PICK entry : entry = [thread[t].fetched EXCEPT !.at = now]
  OBVIOUS
<1>3. entry \in Entries /\ entry.ok /\ entry.at <= now /\ entry # Missing
  BY <1>1, <1>2, Distinct, ClockAssumption
     DEF ThreadFine, Entries, LoadInv, CacheFine, CacheTypeOK, Times
<1>4. fallback' = [fallback EXCEPT ![Home[t]][key(t)] = entry]
  BY DEF PutLocal, FallbackPut
<1>5. /\ fallback' \in [Caches -> [Keys -> Entries \union {Missing}]]
      /\ \A c \in Caches, k \in Keys : fallback'[c][k] =
            IF c = Home[t] /\ k = key(t) THEN entry ELSE fallback[c][k]
  BY <1>2, <1>3, <1>4 DEF LoadInv, CacheFine, CacheTypeOK
<1>6. CacheFine' /\ Keeps
  <2>1. Keeps
    BY <1>1, <1>3, <1>5 DEF Keeps, LoadInv
  <2>2. CacheTypeOK'
    BY <1>1, <1>5 DEF CacheTypeOK, LoadInv, CacheFine
  <2>3. QED
    BY <1>1, <1>3, <1>5, <2>1, <2>2 DEF CacheFine, LoadInv, Held, Valid
<1> PICK th : th = [thread[t] EXCEPT !.pc = "putRedis", !.fetched = entry]
  OBVIOUS
<1>7. th \in Thread /\ th.pc = "putRedis" /\ th.fetched = entry /\ th.todo = thread[t].todo
      /\ th.stale = thread[t].stale /\ th.parts = thread[t].parts
      /\ th.had = thread[t].had /\ th.answer = thread[t].answer
  BY <1>2, <1>3 DEF Thread
<1>8. thread' = [thread EXCEPT ![t] = th]
  BY DEF PutLocal
<1>9. ThreadFine(t, th)'
  BY <1>1, <1>2, <1>3, <1>6, <1>7 DEF Keeps, ThreadFine, HasCopy, Held, Valid
<1>10. Shared'
  <2> SUFFICES ASSUME NEW c \in Caches, NEW k \in Keys, k \in clean, fallback'[c][k] # Missing,
                      ~latched[c], redis[k] = Missing
               PROVE  \E u \in Threads : Home[u] = c /\ thread'[u].pc = "putRedis"
                                           /\ Head(thread'[u].todo) = k
    BY <1>1 DEF Shared, key
  <2>1. CASE c = Home[t] /\ k = key(t)
    <3>1. thread'[t] = th
      BY <1>8 DEF LoadInv
    <3>2. thread'[t].pc = "putRedis" /\ thread'[t].todo = thread[t].todo
      BY <1>7, <3>1
    <3>3. Head(thread'[t].todo) = k
      BY <1>2, <2>1, <3>2
    <3>4. QED
      BY <2>1, <3>2, <3>3
  <2>2. CASE ~(c = Home[t] /\ k = key(t))
    <3>1. PICK u \in Threads : Home[u] = c /\ thread[u].pc = "putRedis" /\ key(u) = k
      BY <1>5, <2>2 DEF LoadInv, Shared
    <3>2. thread'[u] = thread[u]
      BY <1>1, <1>8, <3>1 DEF LoadInv
    <3>3. QED
      BY <3>1, <3>2 DEF key
  <2>3. QED
    BY <2>1, <2>2
<1>11. QED
  BY <1>6, <1>7, <1>8, <1>9, <1>10, OneThread

LEMMA PutRedisStep == ASSUME LoadInv, NEW t \in Threads, PutRedis(t) PROVE LoadInv'
<1>1. /\ thread[t].pc = "putRedis" /\ UNCHANGED <<fallback, now, clean>>
      /\ Loaded(t, thread[t].fetched, "upstream")
      /\ RedisPut(Home[t], key(t), thread[t].fetched)
  BY DEF PutRedis, RedisPut, RedisFails, cacheVars
<1>2. /\ thread[t] \in Thread /\ ThreadFine(t, thread[t]) /\ Home[t] \in Caches
      /\ key(t) \in Keys /\ key(t) = Head(thread[t].todo)
  BY <1>1, UnderWay
<1> PICK entry : entry = thread[t].fetched
  OBVIOUS
<1>3. entry \in Entries /\ entry.ok /\ entry.at <= now /\ entry # Missing
  BY <1>1, <1>2, Distinct DEF ThreadFine
<1>4. /\ latched' \in [Caches -> BOOLEAN]
      /\ \A c \in Caches : latched[c] => latched'[c]
      /\ \A k \in Keys : redis'[k] = redis[k] \/ (redis'[k] = entry)
      /\ redis' \in [Keys -> Entries \union {Missing, Malformed}]
      /\ latched'[Home[t]] \/ redis'[key(t)] # Missing
  <2>1. CASE latched[Home[t]]
    BY <1>1, <2>1 DEF RedisPut, cacheVars, LoadInv, CacheFine, CacheTypeOK
  <2>2. CASE RedisFails(Home[t])
    BY <1>2, <2>2 DEF RedisFails, LoadInv, CacheFine, CacheTypeOK
  <2>3. CASE redis' = [redis EXCEPT ![key(t)] = entry] /\ UNCHANGED <<fallback, latched, now>>
    BY <1>2, <1>3, <2>3 DEF LoadInv, CacheFine, CacheTypeOK
  <2>4. QED
    BY <1>1, <2>1, <2>2, <2>3 DEF RedisPut
<1>5. CacheFine' /\ Keeps
  <2>1. Keeps
    BY <1>1 DEF Keeps
  <2>2. CacheTypeOK'
    BY <1>1, <1>4 DEF CacheTypeOK, LoadInv, CacheFine
  <2>3. QED
    BY <1>1, <1>3, <1>4, <2>1, <2>2 DEF CacheFine, LoadInv, Held, Valid
<1>6. PICK th \in Thread : thread' = [thread EXCEPT ![t] = th] /\ ThreadFine(t, th)'
  BY <1>1, <1>3, <1>5, Loads
<1>7. Shared'
  <2> SUFFICES ASSUME NEW c \in Caches, NEW k \in Keys, k \in clean, fallback[c][k] # Missing,
                      ~latched'[c], redis'[k] = Missing
               PROVE  \E u \in Threads : Home[u] = c /\ thread'[u].pc = "putRedis"
                                           /\ Head(thread'[u].todo) = k
    BY <1>1 DEF Shared, key
  <2>1. redis[k] = Missing
    BY <1>3, <1>4
  <2>2. PICK u \in Threads : Home[u] = c /\ thread[u].pc = "putRedis" /\ key(u) = k
    BY <1>4, <2>1 DEF LoadInv, Shared
  <2>3. u # t
    BY <1>4, <2>2
  <2>4. thread'[u] = thread[u]
    BY <1>6, <2>3 DEF LoadInv
  <2>5. QED
    BY <2>2, <2>4 DEF key
<1>8. QED
  BY <1>5, <1>6, <1>7, OneThread

LEMMA DropLocalStep == ASSUME LoadInv, NEW t \in Threads, DropLocal(t) PROVE LoadInv'
<1>1. thread[t].pc = "dropLocal" /\ UNCHANGED <<redis, now, latched, clean>>
  BY DEF DropLocal, FallbackDelete
<1>2. /\ thread[t] \in Thread /\ ThreadFine(t, thread[t]) /\ Home[t] \in Caches
      /\ key(t) \in Keys /\ key(t) = Head(thread[t].todo)
  BY <1>1, UnderWay
<1>3. key(t) \notin clean
  BY <1>1, <1>2 DEF ThreadFine
<1>4. fallback' = [fallback EXCEPT ![Home[t]][key(t)] = Missing]
  BY DEF DropLocal, FallbackDelete
<1>5. /\ fallback' \in [Caches -> [Keys -> Entries \union {Missing}]]
      /\ \A c \in Caches, k \in Keys : fallback'[c][k] =
            IF c = Home[t] /\ k = key(t) THEN Missing ELSE fallback[c][k]
  BY <1>2, <1>4 DEF LoadInv, CacheFine, CacheTypeOK
<1>6. CacheFine' /\ Keeps
  <2>1. Keeps
    BY <1>1, <1>3, <1>5 DEF Keeps, LoadInv
  <2>2. CacheTypeOK'
    BY <1>1, <1>5 DEF CacheTypeOK, LoadInv, CacheFine
  <2>3. QED
    BY <1>1, <1>5, <2>1, <2>2 DEF CacheFine, LoadInv, Held, Valid
<1> PICK th : th = [thread[t] EXCEPT !.pc = "dropRedis"]
  OBVIOUS
<1>7. th \in Thread /\ th.pc = "dropRedis" /\ th.after = thread[t].after
      /\ th.todo = thread[t].todo /\ th.stale = thread[t].stale /\ th.parts = thread[t].parts
      /\ th.had = thread[t].had /\ th.answer = thread[t].answer
  BY <1>2 DEF Thread
<1>8. thread' = [thread EXCEPT ![t] = th]
  BY DEF DropLocal, Goto
<1>9. ThreadFine(t, th)'
  BY <1>1, <1>2, <1>6, <1>7 DEF Keeps, ThreadFine, HasCopy, Held, Valid
<1>10. Shared'
  <2> SUFFICES ASSUME NEW c \in Caches, NEW k \in Keys, k \in clean, fallback'[c][k] # Missing,
                      ~latched[c], redis[k] = Missing
               PROVE  \E u \in Threads : Home[u] = c /\ thread'[u].pc = "putRedis"
                                           /\ Head(thread'[u].todo) = k
    BY <1>1 DEF Shared, key
  <2>1. PICK u \in Threads : Home[u] = c /\ thread[u].pc = "putRedis" /\ key(u) = k
    BY <1>3, <1>5 DEF LoadInv, Shared
  <2>2. thread'[u] = thread[u]
    BY <1>1, <1>8, <2>1 DEF LoadInv
  <2>3. QED
    BY <2>1, <2>2 DEF key
<1>11. QED
  BY <1>6, <1>7, <1>8, <1>9, <1>10, OneThread

LEMMA DropRedisStep == ASSUME LoadInv, NEW t \in Threads, DropRedis(t) PROVE LoadInv'
<1>1. thread[t].pc = "dropRedis" /\ UNCHANGED <<fallback, now, clean>>
      /\ RedisDelete(Home[t], key(t))
  BY DEF DropRedis, RedisDelete, RedisFails, cacheVars
<1>2. /\ thread[t] \in Thread /\ ThreadFine(t, thread[t]) /\ Home[t] \in Caches
      /\ key(t) \in Keys /\ key(t) = Head(thread[t].todo)
  BY <1>1, UnderWay
<1>3. key(t) \notin clean /\ thread[t].after \in {"getLocal", "peek", "peekLocal", "refresh"}
  BY <1>1, <1>2 DEF ThreadFine
<1>4. /\ latched' \in [Caches -> BOOLEAN]
      /\ \A c \in Caches : latched[c] => latched'[c]
      /\ redis' \in [Keys -> Entries \union {Missing, Malformed}]
      /\ \A k \in Keys : redis'[k] = redis[k] \/ (k = key(t) /\ redis'[k] = Missing)
  <2>1. CASE latched[Home[t]]
    BY <1>1, <2>1 DEF RedisDelete, cacheVars, LoadInv, CacheFine, CacheTypeOK
  <2>2. CASE RedisFails(Home[t])
    BY <1>2, <2>2 DEF RedisFails, LoadInv, CacheFine, CacheTypeOK
  <2>3. CASE redis' = [redis EXCEPT ![key(t)] = Missing] /\ UNCHANGED <<fallback, latched, now>>
    BY <1>2, <2>3 DEF LoadInv, CacheFine, CacheTypeOK
  <2>4. QED
    BY <1>1, <2>1, <2>2, <2>3 DEF RedisDelete
<1>5. CacheFine' /\ Keeps
  <2>1. Keeps
    BY <1>1 DEF Keeps
  <2>2. CacheTypeOK'
    BY <1>1, <1>4 DEF CacheTypeOK, LoadInv, CacheFine
  <2>3. QED
    BY <1>1, <1>4, <2>1, <2>2 DEF CacheFine, LoadInv, Held, Valid
<1> PICK th : th = [thread[t] EXCEPT !.pc = thread[t].after, !.after = "none"]
  OBVIOUS
<1>6. th \in Thread /\ th.pc = thread[t].after
      /\ th.todo = thread[t].todo /\ th.stale = thread[t].stale /\ th.parts = thread[t].parts
      /\ th.had = thread[t].had /\ th.answer = thread[t].answer
  BY <1>2, <1>3 DEF Thread
<1>7. thread' = [thread EXCEPT ![t] = th]
  BY DEF DropRedis
<1>8. ~thread[t].had
  BY <1>1, <1>2, <1>3 DEF ThreadFine, HasCopy
<1>9. ThreadFine(t, th)'
  BY <1>1, <1>2, <1>3, <1>5, <1>6, <1>8 DEF Keeps, ThreadFine, HasCopy, Held, Valid
<1>10. Shared'
  <2> SUFFICES ASSUME NEW c \in Caches, NEW k \in Keys, k \in clean, fallback[c][k] # Missing,
                      ~latched'[c], redis'[k] = Missing
               PROVE  \E u \in Threads : Home[u] = c /\ thread'[u].pc = "putRedis"
                                           /\ Head(thread'[u].todo) = k
    BY <1>1 DEF Shared, key
  <2>1. PICK u \in Threads : Home[u] = c /\ thread[u].pc = "putRedis" /\ key(u) = k
    BY <1>3, <1>4 DEF LoadInv, Shared
  <2>2. thread'[u] = thread[u]
    BY <1>1, <1>7, <2>1 DEF LoadInv
  <2>3. QED
    BY <2>1, <2>2 DEF key
<1>11. QED
  BY <1>5, <1>6, <1>7, <1>9, <1>10, OneThread

\* Time passes: what is held only grows older.
LEMMA PassStep == ASSUME LoadInv, Pass PROVE LoadInv'
<1>1. UNCHANGED <<redis, fallback, latched, thread, clean>> /\ now' = now + 1 /\ now < MaxTime
  BY DEF Pass, Tick
<1>2. now' \in Times /\ \A e \in Entries : e.at <= now => e.at <= now'
  BY <1>1, ClockAssumption DEF LoadInv, CacheFine, CacheTypeOK, Times, Entries
<1>3. CacheFine'
  BY <1>1, <1>2 DEF LoadInv, CacheFine, CacheTypeOK, Held, Valid
<1>4. ASSUME NEW t \in Threads PROVE ThreadFine(t, thread[t])'
  <2>1. ThreadFine(t, thread[t]) /\ thread'[t] = thread[t]
    BY <1>1 DEF LoadInv
  <2>2. HasCopy(t, Head(thread[t].todo)) => HasCopy(t, Head(thread[t].todo))'
    BY <1>1 DEF HasCopy
  <2>3. QED
    BY <1>1, <1>2, <2>1, <2>2 DEF ThreadFine, Held, Valid
<1>5. Shared'
  BY <1>1 DEF LoadInv, Shared, key
<1>6. QED
  BY <1>1, <1>3, <1>4, <1>5 DEF LoadInv

\* The caches and every thread keep what the answers rest on.
THEOREM LoadsAreSafe == Spec => []LoadInv
<1>1. LoadInv /\ [Next]_vars => LoadInv'
  <2> SUFFICES ASSUME LoadInv, [Next]_vars PROVE LoadInv'
    OBVIOUS
  <2>1. ASSUME NEW t \in Threads, Step(t) PROVE LoadInv'
    BY <2>1, AskStep, GetRedisStep, GetLocalStep, PeekRedisStep, PeekLocalStep, RefreshStep,
       PutLocalStep, PutRedisStep, DropLocalStep, DropRedisStep DEF Step
  <2>2. CASE Pass
    BY <2>2, PassStep
  <2>3. CASE UNCHANGED vars
    BY <2>3 DEF vars, cacheVars, LoadInv, CacheFine, CacheTypeOK, Held, Valid, ThreadFine,
                HasCopy, Shared, key
  <2>4. QED
    BY <2>1, <2>2, <2>3 DEF Next
<1>2. QED
  BY <1>1, LoadInit, PTL DEF Spec

-----------------------------------------------------------------------------
\* Every answer is built from snapshots that pass validation, wherever they were
\* found (_load_cached_snapshot).
THEOREM AnswersAreValid == Spec => []ServedValid
<1>1. LoadInv => ServedValid
  BY DEF LoadInv, CacheFine, TypeOK, ServedValid, ThreadFine, PartFine
<1>2. QED
  BY <1>1, LoadsAreSafe, PTL

\* No cached answer is as old as the time to live (SnapshotCache.get).
THEOREM AnswersAreFresh == Spec => []CachedWithinTTL
<1>1. LoadInv => CachedWithinTTL
  BY DEF LoadInv, CachedWithinTTL, ThreadFine, PartFine
<1>2. QED
  BY <1>1, LoadsAreSafe, PTL

\* What a process has stored once it can always answer with (the stale copy).
THEOREM AnswersGoOn == Spec => []NoOutageOnceLoaded
<1>1. LoadInv => NoOutageOnceLoaded
  BY DEF LoadInv, NoOutageOnceLoaded, ThreadFine
<1>2. QED
  BY <1>1, LoadsAreSafe, PTL

\* What a process keeps the others find in Redis (RedisSnapshotCache.put).
THEOREM CopiesAreShared == Spec => []SharedUnlessLatched
<1>1. LoadInv => SharedUnlessLatched
  BY DEF LoadInv, Shared, SharedUnlessLatched
<1>2. QED
  BY <1>1, LoadsAreSafe, PTL
=============================================================================
