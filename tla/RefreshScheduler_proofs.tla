----------------------- MODULE RefreshScheduler_proofs -----------------------
(***************************************************************************)
(* The refresh of candidate pools, for every number of categories,         *)
(* products, workers and restarts.  First what a step does to the workers, *)
(* then the parts of the invariant, each with its own induction.           *)
(***************************************************************************)
EXTENDS RefreshScheduler, FiniteSetTheorems, TLAPS

\* What a refresh thread holds is what its provider listed in the version it
\* fetched, all of it until the pool is stored.
ListsWhole ==
  \A w \in Workers :
    /\ work[w].step = "pool" => work[w].left = Lists[work[w].cat][work[w].ver]
    /\ work[w].step = "details" => work[w].left \subseteq Lists[work[w].cat][work[w].ver]

PoolsListed == \A c \in Categories : pool[c] # 0 => Lists[c][pool[c]] # {}

StoreInv == TypeOK /\ ListsWhole /\ PoolsListed

\* The category of a worker changes only while it is idle and has no task.
Unmoved(w) == work'[w].cat = work[w].cat

-----------------------------------------------------------------------------
LEMMA UnusedIsWork ==
  ASSUME NEW c \in Categories
  PROVE  /\ Unused(c) \in Work
         /\ Unused(c).step = "idle" /\ Unused(c).cat = c
         /\ Unused(c).ver = 0 /\ Unused(c).left = {}
BY DEF Unused, Work, Owners

LEMMA Listed ==
  ASSUME NEW c \in Categories, NEW v \in Versions
  PROVE  Lists[c][v] \in SUBSET Products /\ v # 0 /\ v \in Nat
<1>1. Lists[c] \in [Versions -> SUBSET Products]
  BY RefreshAssumption
<1>2. v # 0 /\ v \in Nat
  BY RefreshAssumption
<1>3. QED
  BY <1>1, <1>2

LEMMA Numbers ==
  ASSUME TypeOK
  PROVE  /\ \A v \in Versions \union {0} : v \in Nat
         /\ \A c \in Categories : source[c] \in Nat /\ pool[c] \in Nat
<1>1. \A v \in Versions \union {0} : v \in Nat
  BY RefreshAssumption
<1>2. source \in [Categories -> Versions] /\ pool \in [Categories -> Versions \union {0}]
  BY DEF TypeOK, RefreshTypeOK
<1>3. ASSUME NEW c \in Categories
      PROVE  source[c] \in Versions \union {0} /\ pool[c] \in Versions \union {0}
  BY <1>2
<1>4. QED
  BY <1>1, <1>3

LEMMA WorkTypes ==
  ASSUME TypeOK, NEW w \in Workers
  PROVE  /\ work \in [Workers -> Work] /\ work[w] \in Work
         /\ work[w].cat \in Categories /\ work[w].ver \in Versions \union {0}
         /\ work[w].left \in SUBSET Products
         /\ work[w].step \in {"idle", "fetch", "pool", "details"}
<1>1. work \in [Workers -> Work]
  BY DEF TypeOK, RefreshTypeOK
<1>2. work[w] \in Work
  BY <1>1
<1>3. QED
  BY <1>1, <1>2 DEF Work

LEMMA Others ==
  ASSUME TypeOK, NEW w \in Workers, NEW x \in Work, work' = [work EXCEPT ![w] = x]
  PROVE  work' \in [Workers -> Work] /\ work'[w] = x
         /\ \A v \in Workers : v # w => work'[v] = work[v]
BY WorkTypes

LEMMA FinishDoes ==
  ASSUME TypeOK, NEW w \in Workers, Finish(w)
  PROVE  /\ work' \in [Workers -> Work]
         /\ work'[w].step = "idle" /\ Unmoved(w)
         /\ \A v \in Workers : v # w => work'[v] = work[v]
BY WorkTypes, UnusedIsWork, Others DEF Finish, Unmoved

LEMMA BeginDoes ==
  ASSUME TypeOK, NEW w \in Workers, NEW c \in Categories, NEW o \in Owners, Begin(w, c, o)
  PROVE  /\ work' \in [Workers -> Work]
         /\ work[w].step = "idle" /\ work'[w].step = "fetch" /\ work'[w].cat = c
         /\ \A v \in Workers : v # w => work'[v] = work[v]
<1> DEFINE x == [Unused(c) EXCEPT !.step = "fetch", !.owner = o]
<1>1. x \in Work /\ x.step = "fetch" /\ x.cat = c
  BY DEF Unused, Work
<1>2. QED
  BY <1>1, Others DEF Begin

LEMMA FetchDoes ==
  ASSUME TypeOK, NEW w \in Workers, FetchOk(w)
  PROVE  /\ work' \in [Workers -> Work] /\ Unmoved(w)
         /\ work[w].step = "fetch" /\ work'[w].step = "pool"
         /\ work'[w].ver = source[work[w].cat] /\ work'[w].ver \in Versions
         /\ work'[w].left = Lists[work[w].cat][source[work[w].cat]] /\ work'[w].left # {}
         /\ \A v \in Workers : v # w => work'[v] = work[v]
<1> DEFINE c == work[w].cat
           x == [work[w] EXCEPT !.step = "pool", !.ver = source[c],
                                !.left = Lists[c][source[c]]]
<1>1. c \in Categories /\ source[c] \in Versions
  BY WorkTypes DEF TypeOK, RefreshTypeOK
<1>2. Lists[c][source[c]] \in SUBSET Products
  BY <1>1, Listed
<1>3. x \in Work /\ x.step = "pool" /\ x.cat = c /\ x.ver = source[c]
      /\ x.left = Lists[c][source[c]]
  BY <1>1, <1>2, WorkTypes DEF Work
<1>4. work' = [work EXCEPT ![w] = x]
  BY WorkTypes DEF FetchOk
<1>5. QED
  BY <1>1, <1>3, <1>4, Others DEF FetchOk, Unmoved

LEMMA PutPoolDoes ==
  ASSUME TypeOK, NEW w \in Workers, PutPool(w)
  PROVE  /\ work' \in [Workers -> Work] /\ Unmoved(w)
         /\ work[w].step = "pool" /\ work'[w].step = "details"
         /\ work'[w].ver = work[w].ver /\ work'[w].left = work[w].left
         /\ work[w].cat \in Categories /\ work[w].ver \in Versions /\ work[w].ver # 0
         /\ work[w].left # {}
         /\ pool' \in [Categories -> Versions \union {0}]
         /\ pool'[work[w].cat] = work[w].ver
         /\ \A c \in Categories : c # work[w].cat => pool'[c] = pool[c]
         /\ \A v \in Workers : v # w => work'[v] = work[v]
<1> DEFINE x == [work[w] EXCEPT !.step = "details"]
<1>1. x \in Work /\ x.step = "details" /\ x.cat = work[w].cat /\ x.ver = work[w].ver
      /\ x.left = work[w].left
  BY WorkTypes DEF Work
<1>2. work' = [work EXCEPT ![w] = x]
  BY WorkTypes DEF PutPool
<1>3. work[w].ver # 0 /\ work[w].left # {}
  BY DEF TypeOK, RefreshTypeOK, PutPool
<1>4. pool \in [Categories -> Versions \union {0}]
  BY DEF TypeOK, RefreshTypeOK
<1>5. QED
  BY <1>1, <1>2, <1>3, <1>4, WorkTypes, Others DEF PutPool, Unmoved

\* The detail of one product p is stored: the last one ends the refresh.
Puts(w, p) ==
  /\ p \in work[w].left
  /\ detail'[p] = [ver |-> work[w].ver, fresh |-> TRUE]
  /\ \A q \in Products : q # p => detail'[q] = detail[q]
  /\ \/ work[w].left = {p} /\ work'[w].step = "idle"
     \/ /\ work'[w].step = "details" /\ work'[w].ver = work[w].ver
        /\ work'[w].left = work[w].left \ {p} /\ work'[w].left # {}

LEMMA PutDetailDoes ==
  ASSUME TypeOK, NEW w \in Workers, PutDetail(w)
  PROVE  /\ work' \in [Workers -> Work] /\ Unmoved(w)
         /\ work[w].step = "details" /\ work[w].ver \in Versions /\ work[w].ver # 0
         /\ detail' \in [Products -> [ver: Versions \union {0}, fresh: BOOLEAN]]
         /\ \A v \in Workers : v # w => work'[v] = work[v]
         /\ \E p \in Products : Puts(w, p)
<1>1. PICK p \in work[w].left :
        /\ detail' = [detail EXCEPT ![p] = [ver |-> work[w].ver, fresh |-> TRUE]]
        /\ IF work[w].left = {p}
           THEN Finish(w)
           ELSE work' = [work EXCEPT ![w].left = @ \ {p}]
  BY DEF PutDetail
<1>2. p \in Products /\ work[w].step = "details" /\ work[w].ver # 0 /\ work[w].ver \in Versions
  BY WorkTypes DEF TypeOK, RefreshTypeOK, PutDetail
<1>3. detail' \in [Products -> [ver: Versions \union {0}, fresh: BOOLEAN]]
      /\ detail'[p] = [ver |-> work[w].ver, fresh |-> TRUE]
      /\ \A q \in Products : q # p => detail'[q] = detail[q]
  BY <1>1, <1>2 DEF TypeOK, RefreshTypeOK
<1>4. CASE work[w].left = {p}
  BY <1>1, <1>2, <1>3, <1>4, FinishDoes DEF Puts
<1>5. CASE work[w].left # {p}
  <2> DEFINE x == [work[w] EXCEPT !.left = @ \ {p}]
  <2>1. x \in Work /\ x.step = work[w].step /\ x.cat = work[w].cat /\ x.ver = work[w].ver
        /\ x.left = work[w].left \ {p}
    BY WorkTypes DEF Work
  <2>2. work' = [work EXCEPT ![w] = x]
    BY <1>1, <1>5, WorkTypes
  <2>3. work[w].left \ {p} # {}
    BY <1>1, <1>5
  <2>4. QED
    BY <1>1, <1>2, <1>3, <2>1, <2>2, <2>3, Others DEF Puts, Unmoved
<1>6. QED
  BY <1>4, <1>5

LEMMA DieDoes ==
  ASSUME TypeOK, Die
  PROVE  /\ work' \in [Workers -> Work]
         /\ torn' \in SUBSET Categories /\ torn \subseteq torn'
         /\ \A w \in Workers :
              \/ work'[w] = work[w]
              \/ /\ work'[w].step = "idle" /\ Unmoved(w)
                 /\ work[w].step = "details" => work[w].cat \in torn'
<1> DEFINE dead == {w \in Workers : work[w].step # "idle" /\ work[w].owner # "script"}
<1>1. work' = [w \in Workers |-> IF w \in dead THEN Unused(work[w].cat) ELSE work[w]]
  BY DEF Die
<1>2. torn' = torn \union {work[w].cat : w \in {x \in dead : work[x].step = "details"}}
  BY DEF Die
<1>3. \A w \in Workers : Unused(work[w].cat) \in Work /\ Unused(work[w].cat).step = "idle"
                         /\ Unused(work[w].cat).cat = work[w].cat
  BY WorkTypes, UnusedIsWork
<1>4. work' \in [Workers -> Work]
  BY <1>1, <1>3, WorkTypes
<1>5. torn' \in SUBSET Categories /\ torn \subseteq torn'
  BY <1>2, WorkTypes DEF TypeOK, RefreshTypeOK
<1>6. ASSUME NEW w \in Workers
      PROVE  \/ work'[w] = work[w]
             \/ /\ work'[w].step = "idle" /\ Unmoved(w)
                /\ work[w].step = "details" => work[w].cat \in torn'
  BY <1>1, <1>2, <1>3 DEF Unmoved
<1>7. QED
  BY <1>4, <1>5, <1>6

-----------------------------------------------------------------------------
(***************************************************************************)
(* Types, and what the threads hold.                                       *)
(***************************************************************************)
LoopTypeOK ==
  /\ started \in BOOLEAN
  /\ ticker \in [Categories -> {"none", "due", "asleep"}]
  /\ inflight \in [Categories -> Workers \union {"none"}]
  /\ task \in [Workers -> TaskStates]
  /\ restarts \in 0..MaxRestarts
  /\ alone \in BOOLEAN

LEMMA TypeParts == TypeOK <=> RefreshTypeOK /\ LoopTypeOK
BY DEF TypeOK, LoopTypeOK

\* A step of one worker, whatever else it changes in its type.
LEMMA OneWorkerTypes ==
  ASSUME TypeOK, NEW w \in Workers, work' \in [Workers -> Work],
         \A v \in Workers : v # w => work'[v] = work[v],
         work'[w].step \in {"pool", "details"} => work'[w].ver # 0 /\ work'[w].left # {},
         source' \in [Categories -> Versions],
         pool' \in [Categories -> Versions \union {0}],
         detail' \in [Products -> [ver: Versions \union {0}, fresh: BOOLEAN]],
         torn' \in SUBSET Categories
  PROVE  RefreshTypeOK'
BY DEF TypeOK, RefreshTypeOK

LEMMA StepTypes ==
  ASSUME TypeOK, NEW w \in Workers, WorkerStep(w)
  PROVE  RefreshTypeOK'
<1> USE DEF TypeOK, RefreshTypeOK
<1>1. CASE FetchFails(w)
  <2>1. Finish(w) /\ UNCHANGED <<source, pool, detail, torn>>
    BY <1>1 DEF FetchFails
  <2>2. QED
    BY <2>1, FinishDoes, OneWorkerTypes
<1>2. CASE FetchOk(w)
  <2>1. UNCHANGED <<source, pool, detail, torn>>
    BY <1>2 DEF FetchOk
  <2>2. work'[w].ver # 0
    BY <1>2, FetchDoes, RefreshAssumption
  <2>3. QED
    BY <1>2, <2>1, <2>2, FetchDoes, OneWorkerTypes
<1>3. CASE PutPool(w)
  <2>1. UNCHANGED <<source, detail>> /\ torn' \in SUBSET Categories
    BY <1>3 DEF PutPool
  <2>2. QED
    BY <1>3, <2>1, PutPoolDoes, OneWorkerTypes
<1>4. CASE PutDetail(w)
  <2>1. UNCHANGED <<source, pool, torn>>
    BY <1>4 DEF PutDetail
  <2>2. PICK p \in Products : Puts(w, p)
    BY <1>4, PutDetailDoes
  <2>3. work'[w].step = "details" => work'[w].ver # 0 /\ work'[w].left # {}
    BY <1>4, <2>2, PutDetailDoes DEF Puts
  <2>4. work'[w].step # "pool"
    BY <2>2 DEF Puts
  <2>5. QED
    BY <1>4, <2>1, <2>3, <2>4, PutDetailDoes, OneWorkerTypes
<1>5. QED
  BY <1>1, <1>2, <1>3, <1>4 DEF WorkerStep

\* Somebody starts a refresh.
LEMMA BeginTypes ==
  ASSUME TypeOK, NEW w \in Workers, NEW c \in Categories, NEW o \in Owners, Begin(w, c, o),
         UNCHANGED <<source, pool, detail, torn>>
  PROVE  RefreshTypeOK'
<1>1. work'[w].step = "fetch"
  BY BeginDoes
<1>2. QED
  BY <1>1, BeginDoes, OneWorkerTypes DEF TypeOK, RefreshTypeOK

\* A guest is a refresh that is not the scheduler's.
LEMMA GuestBegins ==
  ASSUME TypeOK, Other
  PROVE  \/ /\ alone' = FALSE /\ UNCHANGED <<source, pool, detail, torn>>
            /\ \E w \in Workers, c \in Categories, o \in Owners :
                 task[w] = "none" /\ Begin(w, c, o)
         \/ UNCHANGED alone /\ \E p \in Products : Expire(p)
         \/ UNCHANGED alone /\ \E c \in Categories : Publish(c)
<1>1. ASSUME NEW w \in Workers, NEW p \in Products, View(w, p)
      PROVE  /\ UNCHANGED <<source, pool, detail, torn>>
             /\ \E c \in Categories : Begin(w, c, "page")
  BY <1>1 DEF View
<1>2. ASSUME NEW w \in Workers, NEW c \in Categories, Script(w, c)
      PROVE  UNCHANGED <<source, pool, detail, torn>> /\ Begin(w, c, "script")
  BY <1>2 DEF Script
<1>3. "page" \in Owners /\ "script" \in Owners
  BY DEF Owners
<1>4. QED
  BY <1>1, <1>2, <1>3 DEF Other

LEMMA OtherTypes ==
  ASSUME TypeOK, Other
  PROVE  RefreshTypeOK'
<1>1. CASE \E w \in Workers, c \in Categories, o \in Owners :
            Begin(w, c, o) /\ UNCHANGED <<source, pool, detail, torn>>
  BY <1>1, BeginTypes
<1>2. ASSUME NEW p \in Products, Expire(p)
      PROVE  RefreshTypeOK'
  BY <1>2 DEF Expire, TypeOK, RefreshTypeOK
<1>3. ASSUME NEW c \in Categories, Publish(c)
      PROVE  RefreshTypeOK'
  BY <1>3 DEF Publish, TypeOK, RefreshTypeOK
<1>4. QED
  BY <1>1, <1>2, <1>3, GuestBegins

LEMMA SchedulerIsOwner == "scheduler" \in Owners
BY DEF Owners

LEMMA TypeInit == Init => TypeOK
<1> SUFFICES ASSUME Init PROVE TypeOK
  OBVIOUS
<1> DEFINE first == CHOOSE c \in Categories : TRUE
<1>1. first \in Categories
  BY RefreshAssumption
<1>2. Unused(first) \in Work /\ Unused(first).step = "idle"
  BY <1>1, UnusedIsWork
<1>3. work \in [Workers -> {Unused(first)}]
  BY DEF Init, RefreshInit
<1> HIDE DEF first
<1>4. work \in [Workers -> Work] /\ \A w \in Workers : work[w].step = "idle"
  BY <1>2, <1>3
<1>5. RefreshTypeOK
  BY <1>4, RefreshAssumption DEF Init, RefreshInit, RefreshTypeOK
<1>6. restarts \in 0..MaxRestarts
  BY SchedulerAssumption DEF Init
<1>7. /\ ticker \in [Categories -> {"none", "due", "asleep"}]
      /\ inflight \in [Categories -> Workers \union {"none"}]
      /\ task \in [Workers -> TaskStates]
  BY DEF Init, TaskStates
<1>8. LoopTypeOK
  BY <1>6, <1>7 DEF Init, LoopTypeOK
<1>9. QED
  BY <1>5, <1>8, TypeParts

LEMMA TypeNext == TypeOK /\ [Next]_vars => TypeOK'
<1> SUFFICES ASSUME TypeOK, [Next]_vars PROVE TypeOK'
  OBVIOUS
<1> USE DEF LoopTypeOK
<1>0. RefreshTypeOK /\ LoopTypeOK
  BY TypeParts
<1>1. CASE Start
  <2>1. RefreshTypeOK'
    BY <1>0, <1>1 DEF Start, refreshVars, RefreshTypeOK
  <2>2. LoopTypeOK'
    BY <1>0, <1>1 DEF Start
  <2>3. QED
    BY <2>1, <2>2 DEF TypeOK
<1>2. CASE Stop
  <2>1. RefreshTypeOK'
    BY <1>0, <1>2 DEF Stop, refreshVars, RefreshTypeOK
  <2>2. restarts' \in 0..MaxRestarts
    BY <1>0, <1>2, SchedulerAssumption DEF Stop
  <2>3. LoopTypeOK'
    BY <1>0, <1>2, <2>2 DEF Stop, TaskStates
  <2>4. QED
    BY <2>1, <2>3 DEF TypeOK
<1>3. ASSUME NEW c \in Categories, Trigger(c)
      PROVE  TypeOK'
  <2>1. ticker' \in [Categories -> {"none", "due", "asleep"}]
    BY <1>0, <1>3 DEF Trigger
  <2>2. CASE inflight[c] # "none"
    BY <1>0, <1>3, <2>1, <2>2 DEF Trigger, TypeOK, RefreshTypeOK
  <2>3. CASE inflight[c] = "none"
    <3>1. PICK w \in Workers :
            /\ work[w].step = "idle" /\ task[w] = "none"
            /\ task' = [task EXCEPT ![w] = "created"]
            /\ inflight' = [inflight EXCEPT ![c] = w]
            /\ work' = [work EXCEPT ![w] = Unused(c)]
      BY <1>3, <2>3 DEF Trigger
    <3>2. UNCHANGED <<source, pool, detail, torn, started, restarts, alone>>
      BY <1>3 DEF Trigger
    <3>3. RefreshTypeOK'
      BY <3>1, <3>2, UnusedIsWork, Others, OneWorkerTypes DEF TypeOK, RefreshTypeOK
    <3>4. LoopTypeOK'
      BY <1>0, <2>1, <3>1, <3>2 DEF TaskStates
    <3>5. QED
      BY <3>3, <3>4 DEF TypeOK
  <2>4. QED
    BY <2>2, <2>3
<1>4. ASSUME NEW w \in Workers, Run(w)
      PROVE  TypeOK'
  <2>1. RefreshTypeOK'
    BY <1>4, WorkTypes, SchedulerIsOwner, BeginTypes DEF Run
  <2>2. LoopTypeOK'
    BY <1>0, <1>4 DEF Run, TaskStates
  <2>3. QED
    BY <2>1, <2>2 DEF TypeOK
<1>5. ASSUME NEW w \in Workers, ThreadStep(w)
      PROVE  TypeOK'
  <2>1. RefreshTypeOK'
    BY <1>5, StepTypes DEF ThreadStep
  <2>2. LoopTypeOK'
    BY <1>0, <1>5 DEF ThreadStep, Settle, TaskStates
  <2>3. QED
    BY <2>1, <2>2 DEF TypeOK
<1>6. ASSUME NEW w \in Workers, Resume(w)
      PROVE  TypeOK'
  <2>1. RefreshTypeOK'
    BY <1>0, <1>6 DEF Resume, refreshVars, RefreshTypeOK
  <2>2. LoopTypeOK'
    BY <1>0, <1>6 DEF Resume, TaskStates
  <2>3. QED
    BY <2>1, <2>2 DEF TypeOK
<1>7. CASE Crash
  <2>1. Die /\ UNCHANGED <<source, pool, detail>>
    BY <1>7 DEF Crash, Die
  <2>2. \A w \in Workers : work'[w].step \in {"pool", "details"} => work'[w] = work[w]
    BY <2>1, DieDoes
  <2>3. RefreshTypeOK'
    BY <1>0, <2>1, <2>2, DieDoes DEF RefreshTypeOK
  <2>4. restarts' \in 0..MaxRestarts
    BY <1>0, <1>7, SchedulerAssumption DEF Crash
  <2>5. LoopTypeOK'
    BY <1>0, <1>7, <2>4 DEF Crash, TaskStates
  <2>6. QED
    BY <2>3, <2>5 DEF TypeOK
<1>8. CASE Other
  <2>1. RefreshTypeOK'
    BY <1>8, OtherTypes
  <2>2. LoopTypeOK'
    BY <1>0, <1>8, GuestBegins DEF Other
  <2>3. QED
    BY <2>1, <2>2 DEF TypeOK
<1>9. CASE UNCHANGED vars
  BY <1>9 DEF TypeOK, RefreshTypeOK, vars, refreshVars, loopVars
<1>10. QED
  BY <1>1, <1>2, <1>3, <1>4, <1>5, <1>6, <1>7, <1>8, <1>9 DEF Next

-----------------------------------------------------------------------------
(***************************************************************************)
(* What is stored.                                                         *)
(***************************************************************************)
\* An idle worker is given a refresh, which has fetched nothing yet.
Opens(w) ==
  /\ work[w].step = "idle" /\ work'[w].step \in {"idle", "fetch"}
  /\ \A v \in Workers : v # w => work'[v] = work[v]
  /\ UNCHANGED <<source, pool, detail, torn>>

LEMMA RefreshCases ==
  ASSUME TypeOK, [Next]_vars
  PROVE  \/ UNCHANGED refreshVars
         \/ \E w \in Workers : WorkerStep(w) \/ Opens(w)
         \/ Die /\ alone' = FALSE
         \/ \E p \in Products : Expire(p)
         \/ \E c \in Categories : Publish(c)
<1>1. ASSUME NEW c \in Categories, Trigger(c)
      PROVE  UNCHANGED refreshVars \/ \E w \in Workers : Opens(w)
  <2>1. CASE inflight[c] # "none"
    BY <1>1, <2>1 DEF Trigger, refreshVars
  <2>2. CASE inflight[c] = "none"
    <3>1. PICK w \in Workers : work[w].step = "idle" /\ work' = [work EXCEPT ![w] = Unused(c)]
      BY <1>1, <2>2 DEF Trigger
    <3>2. UNCHANGED <<source, pool, detail, torn>>
      BY <1>1 DEF Trigger
    <3>3. Opens(w)
      BY <3>1, <3>2, UnusedIsWork, Others DEF Opens
    <3>4. QED
      BY <3>3
  <2>3. QED
    BY <2>1, <2>2
<1>2. ASSUME NEW w \in Workers, Run(w)
      PROVE  Opens(w)
  <2>1. UNCHANGED <<source, pool, detail, torn>> /\ Begin(w, work[w].cat, "scheduler")
    BY <1>2 DEF Run
  <2>2. QED
    BY <2>1, WorkTypes, SchedulerIsOwner, BeginDoes DEF Opens
<1>3. ASSUME Other
      PROVE  \/ \E w \in Workers : Opens(w)
             \/ \E p \in Products : Expire(p)
             \/ \E c \in Categories : Publish(c)
  <2>1. ASSUME NEW w \in Workers, NEW c \in Categories, NEW o \in Owners, Begin(w, c, o),
               UNCHANGED <<source, pool, detail, torn>>
        PROVE  Opens(w)
    BY <2>1, BeginDoes DEF Opens
  <2>2. QED
    BY <1>3, <2>1, GuestBegins
<1>4. CASE Start \/ Stop \/ \E w \in Workers : Resume(w)
  BY <1>4 DEF Start, Stop, Resume
<1>5. CASE UNCHANGED vars
  BY <1>5 DEF vars
<1>6. QED
  BY <1>1, <1>2, <1>3, <1>4, <1>5 DEF Next, ThreadStep, Crash

LEMMA OneWorkerWhole ==
  ASSUME ListsWhole, NEW w \in Workers,
         \A v \in Workers : v # w => work'[v] = work[v],
         work'[w].step = "pool" => work'[w].left = Lists[work'[w].cat][work'[w].ver],
         work'[w].step = "details" => work'[w].left \subseteq Lists[work'[w].cat][work'[w].ver]
  PROVE  ListsWhole'
BY DEF ListsWhole

LEMMA WholeNext == TypeOK /\ ListsWhole /\ [Next]_vars => ListsWhole'
<1> SUFFICES ASSUME TypeOK, ListsWhole, [Next]_vars PROVE ListsWhole'
  OBVIOUS
<1>1. CASE UNCHANGED refreshVars
  BY <1>1 DEF ListsWhole, refreshVars
<1>2. ASSUME NEW w \in Workers, FetchFails(w) \/ Opens(w)
      PROVE  ListsWhole'
  BY <1>2, FinishDoes, OneWorkerWhole DEF FetchFails, Opens
<1>3. ASSUME NEW w \in Workers, FetchOk(w)
      PROVE  ListsWhole'
  BY <1>3, FetchDoes, OneWorkerWhole DEF Unmoved
<1>4. ASSUME NEW w \in Workers, PutPool(w)
      PROVE  ListsWhole'
  <2>1. work[w].left = Lists[work[w].cat][work[w].ver]
    BY <1>4, PutPoolDoes DEF ListsWhole
  <2>2. QED
    BY <1>4, <2>1, PutPoolDoes, OneWorkerWhole DEF Unmoved
<1>5. ASSUME NEW w \in Workers, PutDetail(w)
      PROVE  ListsWhole'
  <2>1. PICK p \in Products : Puts(w, p)
    BY <1>5, PutDetailDoes
  <2>2. work[w].left \subseteq Lists[work[w].cat][work[w].ver]
    BY <1>5, PutDetailDoes DEF ListsWhole
  <2>3. QED
    BY <1>5, <2>1, <2>2, PutDetailDoes, OneWorkerWhole DEF Unmoved, Puts
<1>6. CASE Die
  BY <1>6, DieDoes DEF ListsWhole
<1>7. CASE (\E p \in Products : Expire(p)) \/ (\E c \in Categories : Publish(c))
  BY <1>7 DEF Expire, Publish, ListsWhole
<1>8. QED
  BY <1>1, <1>2, <1>3, <1>4, <1>5, <1>6, <1>7, RefreshCases DEF WorkerStep

\* The pool changes by PutPool only, which stores a list that is not empty.
LEMMA PoolStep ==
  ASSUME TypeOK, ListsWhole, [Next]_vars, NEW c \in Categories
  PROVE  \/ pool'[c] = pool[c]
         \/ /\ pool'[c] \in Versions /\ pool'[c] # 0 /\ Lists[c][pool'[c]] # {}
            /\ \E w \in Workers : PutPool(w) /\ work[w].cat = c
<1>1. ASSUME NEW w \in Workers, PutPool(w), work[w].cat = c
      PROVE  pool'[c] \in Versions /\ pool'[c] # 0 /\ Lists[c][pool'[c]] # {}
  <2>1. pool'[c] = work[w].ver /\ work[w].left # {} /\ work[w].step = "pool"
        /\ pool'[c] \in Versions /\ pool'[c] # 0
    BY <1>1, PutPoolDoes
  <2>2. QED
    BY <1>1, <2>1 DEF ListsWhole
<1>2. ASSUME NEW w \in Workers, PutPool(w), work[w].cat # c
      PROVE  pool'[c] = pool[c]
  BY <1>2, PutPoolDoes
<1>3. ASSUME NEW w \in Workers, WorkerStep(w), ~PutPool(w)
      PROVE  pool' = pool
  BY <1>3 DEF WorkerStep, FetchFails, FetchOk, PutDetail
<1>4. QED
  BY <1>1, <1>2, <1>3, RefreshCases DEF refreshVars, Opens, Die, Expire, Publish

\* A stored detail is replaced by another version, never removed.
LEMMA DetailStep ==
  ASSUME TypeOK, [Next]_vars, NEW p \in Products
  PROVE  \/ detail'[p].ver = detail[p].ver
         \/ /\ detail'[p].ver # 0
            /\ \E w \in Workers : PutDetail(w) /\ Puts(w, p)
<1>1. ASSUME NEW w \in Workers, PutDetail(w), detail'[p].ver # detail[p].ver
      PROVE  detail'[p].ver # 0 /\ Puts(w, p)
  <2>1. PICK q \in Products : Puts(w, q)
    BY <1>1, PutDetailDoes
  <2>2. q = p
    BY <1>1, <2>1 DEF Puts
  <2>3. QED
    BY <1>1, <2>1, <2>2, PutDetailDoes DEF Puts
<1>2. ASSUME NEW w \in Workers, WorkerStep(w), ~PutDetail(w)
      PROVE  detail' = detail
  BY <1>2 DEF WorkerStep, FetchFails, FetchOk, PutPool
<1>3. ASSUME NEW q \in Products, Expire(q)
      PROVE  detail'[p].ver = detail[p].ver
  <2>1. detail' = [detail EXCEPT ![q].fresh = FALSE]
        /\ detail \in [Products -> [ver: Versions \union {0}, fresh: BOOLEAN]]
    BY <1>3 DEF Expire, TypeOK, RefreshTypeOK
  <2>2. QED
    BY <2>1
<1>4. QED
  BY <1>1, <1>2, <1>3, RefreshCases DEF refreshVars, Opens, Die, Publish

LEMMA StoreInit == Init => StoreInv
<1> SUFFICES ASSUME Init PROVE StoreInv
  OBVIOUS
<1>1. TypeOK /\ PoolsListed
  BY TypeInit DEF Init, RefreshInit, PoolsListed
<1>2. \A w \in Workers : work[w].step = "idle"
  BY RefreshAssumption DEF Init, RefreshInit, Unused
<1>3. QED
  BY <1>1, <1>2 DEF StoreInv, ListsWhole

LEMMA StoreNext == StoreInv /\ [Next]_vars => StoreInv'
BY TypeNext, WholeNext, PoolStep DEF StoreInv, PoolsListed

LEMMA StoreInvariant == Spec => []StoreInv
BY StoreInit, StoreNext, PTL DEF Spec

\* Whatever fails, is cancelled or dies, the previous pool and the details stay,
\* and no pool that offers nothing is ever stored.
THEOREM NothingIsLost == Spec => NothingStoredIsLost
<1> DEFINE A ==
      /\ \A c \in Categories : pool[c] # 0 => pool'[c] # 0 /\ Lists[c][pool'[c]] # {}
      /\ \A p \in Products : detail[p].ver # 0 => detail'[p].ver # 0
<1>1. StoreInv /\ [Next]_vars => [A]_<<pool, detail>>
  <2> SUFFICES ASSUME StoreInv, [Next]_vars PROVE A
    OBVIOUS
  <2>1. ASSUME NEW c \in Categories, pool[c] # 0
        PROVE  pool'[c] # 0 /\ Lists[c][pool'[c]] # {}
    BY <2>1, PoolStep DEF StoreInv, PoolsListed
  <2>2. ASSUME NEW p \in Products, detail[p].ver # 0
        PROVE  detail'[p].ver # 0
    BY <2>2, DetailStep DEF StoreInv
  <2>3. QED
    BY <2>1, <2>2
<1> HIDE DEF A
<1>2. Spec => [][A]_<<pool, detail>>
  BY <1>1, StoreInvariant, PTL DEF Spec
<1>3. QED
  BY <1>2 DEF NothingStoredIsLost, A

-----------------------------------------------------------------------------
(***************************************************************************)
(* What is offered has a page.                                             *)
(***************************************************************************)
\* Worker w is going to store the detail of p, which the pool of c lists.
Storing(w, c, p) ==
  /\ work[w].step = "details" /\ work[w].cat = c
  /\ work[w].ver = pool[c] /\ p \in work[w].left

Covered(c, p) == detail[p].ver # 0 \/ c \in torn \/ \E w \in Workers : Storing(w, c, p)

PagesCovered ==
  \A c \in Categories : pool[c] # 0 => \A p \in Lists[c][pool[c]] : Covered(c, p)

LEMMA CoveredIsShown == TypeOK /\ PagesCovered => OfferedHasPage
<1> SUFFICES ASSUME TypeOK, PagesCovered, NEW c \in Categories, NEW p \in Offered(c)
             PROVE  \/ Shown(p) # "not_found" \/ c \in torn
                    \/ \E w \in Workers : Storing(w, c, p)
  BY DEF OfferedHasPage, Storing
<1>1. CASE pool[c] = 0
  BY <1>1 DEF Offered, Shown
<1>2. CASE pool[c] # 0
  <2>1. p \in Products
    <3>1. pool[c] \in Versions
      BY <1>2 DEF TypeOK, RefreshTypeOK
    <3>2. QED
      BY <1>2, <3>1, Listed DEF Offered
  <2>2. Covered(c, p)
    BY <1>2 DEF Offered, PagesCovered
  <2>3. detail[p].ver # 0 => Shown(p) # "not_found"
    BY <2>1 DEF Shown, TypeOK, RefreshTypeOK
  <2>4. QED
    BY <2>2, <2>3 DEF Covered
<1>3. QED
  BY <1>1, <1>2

\* What is covered stays covered while the pool stays what it is.
LEMMA CoverKept ==
  ASSUME StoreInv, [Next]_vars, NEW c \in Categories, NEW p \in Products,
         pool'[c] = pool[c], Covered(c, p), ~\E w \in Workers : PutPool(w) /\ work[w].cat = c
  PROVE  Covered(c, p)'
<1>0. TypeOK
  BY DEF StoreInv
<1>1. CASE detail[p].ver # 0
  <2>1. detail'[p].ver # 0
    BY <1>0, <1>1, DetailStep
  <2>2. QED
    BY <2>1 DEF Covered
<1>2. CASE c \in torn
  <2>1. c \in torn'
    <3>1. ASSUME NEW w \in Workers, PutPool(w)
          PROVE  c \in torn'
      BY <1>2, <3>1 DEF PutPool
    <3>2. ASSUME NEW w \in Workers, WorkerStep(w), ~PutPool(w)
          PROVE  torn' = torn
      BY <3>2 DEF WorkerStep, FetchFails, FetchOk, PutDetail
    <3>3. QED
      BY <1>0, <1>2, <3>1, <3>2, RefreshCases, DieDoes DEF refreshVars, Opens, Expire, Publish
  <2>2. QED
    BY <2>1 DEF Covered
<1>3. ASSUME NEW w \in Workers, Storing(w, c, p)
      PROVE  Covered(c, p)'
  <2>1. CASE work'[w] = work[w]
    <3>1. Storing(w, c, p)'
      BY <1>3, <2>1 DEF Storing
    <3>2. QED
      BY <3>1 DEF Covered
  <2>2. CASE PutDetail(w)
    <3>1. PICK q \in Products : Puts(w, q)
      BY <1>0, <2>2, PutDetailDoes
    <3>2. CASE q = p
      <4>1. detail'[p].ver # 0
        BY <1>0, <2>2, <3>1, <3>2, PutDetailDoes DEF Puts
      <4>2. QED
        BY <4>1 DEF Covered
    <3>3. CASE q # p
      <4>1. Storing(w, c, p)'
        BY <1>0, <1>3, <2>2, <3>1, <3>3, PutDetailDoes DEF Storing, Puts, Unmoved
      <4>2. QED
        BY <4>1 DEF Covered
    <3>4. QED
      BY <3>2, <3>3
  <2>3. CASE Die
    <3>1. work'[w] = work[w] \/ c \in torn'
      BY <1>0, <1>3, <2>3, DieDoes DEF Storing
    <3>2. QED
      BY <2>1, <3>1 DEF Covered
  <2>4. ASSUME NEW v \in Workers, WorkerStep(v) \/ Opens(v), v # w
        PROVE  work'[w] = work[w]
    BY <1>0, <2>4, FinishDoes, FetchDoes, PutPoolDoes, PutDetailDoes
       DEF WorkerStep, FetchFails, Opens
  <2>5. ~Opens(w) /\ (WorkerStep(w) => PutDetail(w))
    BY <1>3 DEF Storing, Opens, WorkerStep, FetchFails, FetchOk, PutPool
  <2>6. QED
    BY <1>0, <2>1, <2>2, <2>3, <2>4, <2>5, RefreshCases DEF refreshVars, Expire, Publish
<1>4. QED
  BY <1>1, <1>2, <1>3 DEF Covered

LEMMA CoveredNext == StoreInv /\ PagesCovered /\ [Next]_vars => PagesCovered'
<1> SUFFICES ASSUME StoreInv, PagesCovered, [Next]_vars, NEW c \in Categories, pool'[c] # 0,
                    NEW p \in Lists[c][pool'[c]]
             PROVE  Covered(c, p)'
  BY DEF PagesCovered
<1>0. TypeOK /\ ListsWhole /\ StoreInv'
  BY StoreNext DEF StoreInv
<1>1. p \in Products
  <2>1. pool'[c] \in Versions
    BY <1>0 DEF StoreInv, TypeOK, RefreshTypeOK
  <2>2. QED
    BY <2>1, Listed
<1>2. ASSUME NEW w \in Workers, PutPool(w), work[w].cat = c
      PROVE  Covered(c, p)'
  <2>1. Storing(w, c, p)'
    BY <1>0, <1>2, PutPoolDoes DEF Storing, Unmoved, ListsWhole
  <2>2. QED
    BY <2>1 DEF Covered
<1>3. CASE ~\E w \in Workers : PutPool(w) /\ work[w].cat = c
  <2>1. pool'[c] = pool[c]
    BY <1>0, <1>3, PoolStep
  <2>2. Covered(c, p)
    BY <2>1 DEF PagesCovered
  <2>3. QED
    BY <1>1, <1>3, <2>1, <2>2, CoverKept
<1>4. QED
  BY <1>2, <1>3

\* A product that is offered has its page, or the thread that listed it is about
\* to store it, or the process died in between.
THEOREM OfferedPages == Spec => []OfferedHasPage
<1>1. Init => PagesCovered
  BY DEF Init, RefreshInit, PagesCovered
<1>2. StoreInv /\ PagesCovered => OfferedHasPage
  BY CoveredIsShown DEF StoreInv
<1>3. QED
  BY <1>1, <1>2, CoveredNext, StoreInvariant, PTL DEF Spec

-----------------------------------------------------------------------------
(***************************************************************************)
(* The table of running refreshes.                                         *)
(***************************************************************************)
Pending(w) == task[w] \in {"created", "waiting", "settled"}

\* InflightExact, worker by worker.
Registered ==
  \A c \in Categories, w \in Workers : Pending(w) /\ work[w].cat = c <=> inflight[c] = w

StoppedIsEmpty ==
  ~started => \A c \in Categories : inflight[c] = "none" /\ ticker[c] = "none"

TableInv == TypeOK /\ Registered /\ StoppedIsEmpty

LEMMA TableIsExact == TableInv => InflightExact
<1> SUFFICES ASSUME TableInv, NEW c \in Categories
             PROVE  Unfinished(c) = {inflight[c]} \ {"none"}
  BY DEF TableInv, StoppedIsEmpty, InflightExact
<1>1. inflight[c] \in Workers \union {"none"} /\ "none" \notin Workers
  BY SchedulerAssumption DEF TableInv, TypeOK
<1>2. QED
  BY <1>1 DEF TableInv, Registered, Unfinished, Pending

\* What is registered is a worker, or nothing.
LEMMA InflightIs ==
  ASSUME TypeOK, NEW c \in Categories
  PROVE  inflight[c] \in Workers <=> inflight[c] # "none"
BY SchedulerAssumption DEF TypeOK

LEMMA TableNext == TableInv /\ [Next]_vars => TableInv'
<1> SUFFICES ASSUME TableInv, [Next]_vars PROVE TableInv'
  OBVIOUS
<1>0. TypeOK /\ TypeOK' /\ Registered /\ StoppedIsEmpty /\ "none" \notin Workers
  BY TypeNext, SchedulerAssumption DEF TableInv
<1> SUFFICES Registered' /\ StoppedIsEmpty'
  BY <1>0 DEF TableInv
<1>1. CASE Start
  BY <1>0, <1>1 DEF Start, refreshVars, Registered, Pending, StoppedIsEmpty
<1>2. CASE Stop
  <2>1. \A w \in Workers : ~Pending(w)'
    BY <1>0, <1>2 DEF Stop, Pending, TypeOK, TaskStates
  <2>2. \A c \in Categories : inflight'[c] = "none" /\ ticker'[c] = "none"
    BY <1>2 DEF Stop
  <2>3. QED
    BY <1>0, <2>1, <2>2 DEF Registered, StoppedIsEmpty
<1>3. ASSUME NEW c \in Categories, Trigger(c)
      PROVE  Registered' /\ StoppedIsEmpty'
  <2>1. started /\ started'
    BY <1>0, <1>3 DEF Trigger, StoppedIsEmpty, TypeOK
  <2>2. CASE inflight[c] # "none"
    BY <1>0, <1>3, <2>1, <2>2 DEF Trigger, Registered, Pending, StoppedIsEmpty
  <2>3. CASE inflight[c] = "none"
    <3>1. PICK w \in Workers :
            /\ work[w].step = "idle" /\ task[w] = "none"
            /\ task' = [task EXCEPT ![w] = "created"]
            /\ inflight' = [inflight EXCEPT ![c] = w]
            /\ work' = [work EXCEPT ![w] = Unused(c)]
      BY <1>3, <2>3 DEF Trigger
    <3> HIDE <1>3, <2>3
    <3>a. work'[w].cat = c /\ \A v \in Workers : v # w => work'[v] = work[v]
      BY <1>0, <3>1, UnusedIsWork, Others
    <3>b. task'[w] = "created" /\ \A v \in Workers : v # w => task'[v] = task[v]
      BY <1>0, <3>1 DEF TypeOK
    <3>2. Pending(w)' /\ work'[w].cat = c /\ ~Pending(w)
          /\ \A v \in Workers : v # w => work'[v] = work[v] /\ (Pending(v)' <=> Pending(v))
      BY <3>1, <3>a, <3>b DEF Pending
    <3>3. inflight'[c] = w /\ \A d \in Categories : d # c => inflight'[d] = inflight[d]
      BY <1>0, <3>1 DEF TypeOK
    <3>4. ASSUME NEW d \in Categories, NEW v \in Workers
          PROVE  Pending(v)' /\ work'[v].cat = d <=> inflight'[d] = v
      BY <1>0, <2>3, <3>2, <3>3 DEF Registered
    <3>5. QED
      BY <2>1, <3>4 DEF Registered, StoppedIsEmpty
  <2>4. QED
    BY <2>2, <2>3
<1>4. ASSUME NEW w \in Workers, UNCHANGED <<started, ticker, inflight>>,
             \A v \in Workers : Pending(v)' <=> Pending(v),
             \A v \in Workers : Pending(v) => Unmoved(v)
      PROVE  Registered' /\ StoppedIsEmpty'
  <2>1. Registered'
    BY <1>0, <1>4 DEF Registered, Unmoved
  <2>2. StoppedIsEmpty'
    BY <1>0, <1>4 DEF StoppedIsEmpty
  <2>3. QED
    BY <2>1, <2>2
<1>5. ASSUME NEW w \in Workers, Run(w)
      PROVE  Registered' /\ StoppedIsEmpty'
  <2>1. Begin(w, work[w].cat, "scheduler") /\ UNCHANGED <<started, ticker, inflight>>
    BY <1>5 DEF Run
  <2>2. \A v \in Workers : Unmoved(v)
    BY <1>0, <2>1, WorkTypes, SchedulerIsOwner, BeginDoes DEF Unmoved
  <2>3. \A v \in Workers : Pending(v)' <=> Pending(v)
    BY <1>0, <1>5 DEF Run, Pending, TypeOK
  <2>4. QED
    BY <1>4, <2>1, <2>2, <2>3
<1>6. ASSUME NEW w \in Workers, ThreadStep(w)
      PROVE  Registered' /\ StoppedIsEmpty'
  <2>1. WorkerStep(w) /\ Settle(w) /\ UNCHANGED <<started, ticker, inflight>>
    BY <1>6 DEF ThreadStep
  <2>2. \A v \in Workers : Unmoved(v)
    BY <1>0, <2>1, FinishDoes, FetchDoes, PutPoolDoes, PutDetailDoes
       DEF WorkerStep, FetchFails, Unmoved
  <2>3. \A v \in Workers : Pending(v)' <=> Pending(v)
    BY <1>0, <2>1 DEF Settle, Pending, TypeOK
  <2>4. QED
    BY <1>4, <2>1, <2>2, <2>3
<1>7. ASSUME NEW w \in Workers, Resume(w)
      PROVE  Registered' /\ StoppedIsEmpty'
  <2>1. \A c \in Categories : inflight'[c] = IF inflight[c] = w THEN "none" ELSE inflight[c]
    BY <1>7 DEF Resume
  <2>2. ~Pending(w)' /\ \A v \in Workers : v # w => (Pending(v)' <=> Pending(v))
    BY <1>0, <1>7 DEF Resume, Pending, TypeOK
  <2>3. UNCHANGED <<work, started, ticker>>
    BY <1>7 DEF Resume, refreshVars
  <2>4. ASSUME NEW d \in Categories, NEW v \in Workers
        PROVE  Pending(v)' /\ work'[v].cat = d <=> inflight'[d] = v
    BY <1>0, <2>1, <2>2, <2>3 DEF Registered
  <2>5. QED
    BY <1>0, <2>1, <2>3, <2>4 DEF Registered, StoppedIsEmpty
<1>8. CASE Crash
  BY <1>0, <1>8 DEF Crash, Registered, Pending, StoppedIsEmpty
<1>9. CASE Other
  <2>1. UNCHANGED <<started, ticker, inflight, task>>
    BY <1>9 DEF Other
  <2>2. \A v \in Workers : Pending(v) => Unmoved(v)
    BY <1>0, <1>9, GuestBegins, BeginDoes DEF Unmoved, Pending, Expire, Publish
  <2>3. \A v \in Workers : Pending(v)' <=> Pending(v)
    BY <2>1 DEF Pending
  <2>4. Registered' /\ StoppedIsEmpty'
    BY <1>0, <2>1, <2>2, <2>3 DEF Registered, StoppedIsEmpty, Unmoved
  <2>5. QED
    BY <2>4
<1>10. CASE UNCHANGED vars
  BY <1>0, <1>10 DEF vars, refreshVars, loopVars, Registered, Pending, StoppedIsEmpty
<1>11. QED
  BY <1>1, <1>2, <1>3, <1>5, <1>6, <1>7, <1>8, <1>9, <1>10 DEF Next

LEMMA TableInvariant == Spec => []TableInv
<1>1. Init => TableInv
  <2> SUFFICES ASSUME Init PROVE TableInv
    OBVIOUS
  <2>1. TypeOK
    BY TypeInit
  <2>2. QED
    BY <2>1, SchedulerAssumption DEF Init, TableInv, Registered, Pending, StoppedIsEmpty
<1>2. QED
  BY <1>1, TableNext, PTL DEF Spec

\* The table of running refreshes names exactly the unfinished task of each
\* category, through cancellation, crash and restart.
THEOREM TableOfRefreshes == Spec => []InflightExact
BY TableIsExact, TableInvariant, PTL

-----------------------------------------------------------------------------
(***************************************************************************)
(* A scheduler that nobody disturbs.                                       *)
(***************************************************************************)
\* A thread runs exactly while its task waits for it.
Attended ==
  \A w \in Workers : task[w] # "cancelled" /\ (work[w].step # "idle" <=> task[w] = "waiting")

\* What is in the pool, at a worker and at the provider is in this order.
WorkOrdered(w) ==
  /\ work[w].step \in {"pool", "details"} => work[w].ver <= source[work[w].cat]
  /\ work[w].step = "pool" => pool[work[w].cat] <= work[w].ver
  /\ work[w].step = "details" => pool[work[w].cat] = work[w].ver
Ordered ==
  (\A c \in Categories : pool[c] <= source[c]) /\ (\A w \in Workers : WorkOrdered(w))

\* A listed product has the detail of the list, or its thread is storing it.
UpToDate(c, p) == detail[p].ver = pool[c] \/ \E w \in Workers : Storing(w, c, p)
Current == \A c \in Categories : pool[c] # 0 => \A p \in Lists[c][pool[c]] : UpToDate(c, p)

AloneInv == alone => Attended /\ Ordered /\ Current

SchedulerInv == StoreInv /\ TableInv /\ AloneInv

LEMMA OneThread ==
  ASSUME TableInv, Attended, NEW v \in Workers, NEW w \in Workers,
         work[v].step # "idle", work[w].step # "idle", work[v].cat = work[w].cat
  PROVE  v = w
<1>1. Pending(v) /\ Pending(w)
  BY DEF Attended, Pending
<1>2. work[v].cat \in Categories
  BY WorkTypes DEF TableInv
<1>3. QED
  BY <1>1, <1>2 DEF TableInv, Registered

\* What may happen while nobody disturbs it.
LEMMA AloneSteps ==
  ASSUME TypeOK, [Next]_vars, alone'
  PROVE  /\ alone
         /\ \/ UNCHANGED <<refreshVars, task>>
            \/ \E c \in Categories : Trigger(c)
            \/ \E w \in Workers : Run(w) \/ ThreadStep(w) \/ Resume(w)
            \/ UNCHANGED task /\ \E p \in Products : Expire(p)
            \/ UNCHANGED task /\ \E c \in Categories : Publish(c)
<1>1. ASSUME Other
      PROVE  /\ alone /\ UNCHANGED task
             /\ (\E p \in Products : Expire(p)) \/ (\E c \in Categories : Publish(c))
  BY <1>1, GuestBegins DEF Other
<1>2. QED
  BY <1>1 DEF Next, Start, Stop, Trigger, Run, ThreadStep, Resume, Crash, vars, loopVars

LEMMA WorkerStepKind ==
  ASSUME TypeOK, NEW w \in Workers, WorkerStep(w)
  PROVE  /\ work[w].step # "idle" /\ Unmoved(w)
         /\ work' \in [Workers -> Work]
         /\ \A v \in Workers : v # w => work'[v] = work[v]
BY FinishDoes, FetchDoes, PutPoolDoes, PutDetailDoes DEF WorkerStep, FetchFails, Unmoved

LEMMA AttendedNext ==
  ASSUME TypeOK, [Next]_vars, alone', Attended
  PROVE  Attended'
<1> DEFINE Fine(w) == task[w] # "cancelled" /\ (work[w].step # "idle" <=> task[w] = "waiting")
<1>0. task \in [Workers -> TaskStates] /\ \A w \in Workers : Fine(w)
  BY DEF TypeOK, Attended
<1>1. ASSUME NEW c \in Categories, Trigger(c)
      PROVE  Attended'
  <2>1. CASE inflight[c] # "none"
    BY <1>0, <1>1, <2>1 DEF Trigger, Attended
  <2>2. CASE inflight[c] = "none"
    <3>1. PICK w \in Workers :
            /\ work[w].step = "idle" /\ task[w] = "none"
            /\ task' = [task EXCEPT ![w] = "created"]
            /\ work' = [work EXCEPT ![w] = Unused(c)]
      BY <1>1, <2>2 DEF Trigger
    <3>2. work'[w].step = "idle" /\ \A v \in Workers : v # w => work'[v] = work[v]
      BY <3>1, UnusedIsWork, Others
    <3>3. task'[w] = "created" /\ \A v \in Workers : v # w => task'[v] = task[v]
      BY <1>0, <3>1
    <3>4. QED
      BY <1>0, <3>2, <3>3 DEF Attended
  <2>3. QED
    BY <2>1, <2>2
<1>2. ASSUME NEW w \in Workers, Run(w)
      PROVE  Attended'
  <2>1. Begin(w, work[w].cat, "scheduler") /\ task' = [task EXCEPT ![w] = "waiting"]
    BY <1>2 DEF Run
  <2>2. work'[w].step = "fetch" /\ \A v \in Workers : v # w => work'[v] = work[v]
    BY <2>1, WorkTypes, SchedulerIsOwner, BeginDoes
  <2>3. task'[w] = "waiting" /\ \A v \in Workers : v # w => task'[v] = task[v]
    BY <1>0, <2>1
  <2>4. QED
    BY <1>0, <2>2, <2>3 DEF Attended
<1>3. ASSUME NEW w \in Workers, ThreadStep(w)
      PROVE  Attended'
  <2>1. WorkerStep(w) /\ Settle(w)
    BY <1>3 DEF ThreadStep
  <2>2. work[w].step # "idle" /\ task[w] = "waiting"
        /\ \A v \in Workers : v # w => work'[v] = work[v]
    BY <1>0, <2>1, WorkerStepKind
  <2>3. \A v \in Workers : v # w => task'[v] = task[v]
    BY <1>0, <2>1 DEF Settle
  <2>4. CASE work'[w].step = "idle"
    <3>1. task'[w] = "settled"
      BY <1>0, <2>1, <2>2, <2>4 DEF Settle, Returning
    <3>2. QED
      BY <1>0, <2>2, <2>3, <2>4, <3>1 DEF Attended
  <2>5. CASE work'[w].step # "idle"
    <3>1. task' = task
      BY <2>1, <2>5 DEF Settle, Returning
    <3>2. QED
      BY <1>0, <2>2, <2>5, <3>1 DEF Attended
  <2>6. QED
    BY <2>4, <2>5
<1>4. ASSUME NEW w \in Workers, Resume(w)
      PROVE  Attended'
  <2>1. UNCHANGED work /\ task' = [task EXCEPT ![w] = "none"] /\ task[w] \in {"settled", "cancelled"}
    BY <1>4 DEF Resume, refreshVars
  <2>2. QED
    BY <1>0, <2>1 DEF Attended
<1>5. CASE UNCHANGED <<work, task>>
  BY <1>0, <1>5 DEF Attended
<1>6. QED
  BY <1>1, <1>2, <1>3, <1>4, <1>5, AloneSteps DEF refreshVars, Expire, Publish

LEMMA OrderedNext ==
  ASSUME SchedulerInv, [Next]_vars, alone'
  PROVE  Ordered'
<1>0. TypeOK /\ TypeOK' /\ TableInv /\ alone /\ Attended /\ Ordered
  BY AloneSteps, TypeNext DEF SchedulerInv, StoreInv, AloneInv
<1>a. /\ Versions \subseteq Nat /\ source \in [Categories -> Versions]
      /\ pool \in [Categories -> Versions \union {0}]
      /\ source' \in [Categories -> Versions]
      /\ pool' \in [Categories -> Versions \union {0}]
  BY <1>0, RefreshAssumption DEF TypeOK, RefreshTypeOK
<1>b. \A w \in Workers : work[w].cat \in Categories /\ work[w].ver \in Nat /\ WorkOrdered(w)
  BY <1>0, Numbers, WorkTypes DEF Ordered
<1>1. ASSUME UNCHANGED <<source, pool>>, NEW w \in Workers,
             \A v \in Workers : v # w => work'[v] = work[v], WorkOrdered(w)'
      PROVE  Ordered'
  BY <1>0, <1>1 DEF Ordered, WorkOrdered
<1>2. ASSUME NEW w \in Workers, WorkerStep(w)
      PROVE  Ordered'
  <2>1. CASE FetchFails(w)
    BY <1>0, <1>1, <2>1, FinishDoes DEF FetchFails, WorkOrdered
  <2>2. CASE FetchOk(w)
    <3>1. UNCHANGED <<source, pool>>
      BY <2>2 DEF FetchOk
    <3>2. work'[w].ver = source[work[w].cat] /\ work'[w].step = "pool"
          /\ work'[w].cat = work[w].cat /\ \A v \in Workers : v # w => work'[v] = work[v]
      BY <1>0, <2>2, FetchDoes DEF Unmoved
    <3>3. pool[work[w].cat] <= source[work[w].cat] /\ source[work[w].cat] \in Nat
      BY <1>0, <1>a, <1>b DEF Ordered
    <3>4. WorkOrdered(w)'
      BY <3>1, <3>2, <3>3 DEF WorkOrdered
    <3>5. QED
      BY <1>1, <3>1, <3>2, <3>4
  <2>3. CASE PutPool(w)
    <3>1. /\ UNCHANGED source /\ pool'[work[w].cat] = work[w].ver
          /\ \A c \in Categories : c # work[w].cat => pool'[c] = pool[c]
          /\ work[w].step = "pool" /\ work'[w].step = "details"
          /\ work'[w].ver = work[w].ver /\ work'[w].cat = work[w].cat
          /\ \A v \in Workers : v # w => work'[v] = work[v]
      BY <1>0, <2>3, PutPoolDoes DEF PutPool, Unmoved
    <3>2. work[w].ver <= source[work[w].cat]
      BY <1>b, <3>1 DEF WorkOrdered
    <3>3. \A c \in Categories : pool'[c] <= source'[c]
      BY <1>0, <3>1, <3>2 DEF Ordered
    <3>4. WorkOrdered(w)'
      BY <3>1, <3>2 DEF WorkOrdered
    <3>5. ASSUME NEW v \in Workers, v # w
          PROVE  WorkOrdered(v)'
      <4>1. CASE work[v].step = "idle"
        BY <3>1, <3>5, <4>1 DEF WorkOrdered
      <4>2. CASE work[v].step # "idle"
        <5>1. work[v].cat # work[w].cat
          BY <1>0, <3>1, <3>5, <4>2, OneThread
        <5>2. QED
          BY <1>b, <3>1, <3>5, <5>1 DEF WorkOrdered
      <4>3. QED
        BY <4>1, <4>2
    <3>6. QED
      BY <3>3, <3>4, <3>5 DEF Ordered
  <2>4. CASE PutDetail(w)
    <3>1. PICK p \in Products : Puts(w, p)
      BY <1>0, <2>4, PutDetailDoes
    <3>2. /\ UNCHANGED <<source, pool>> /\ work[w].step = "details"
          /\ \A v \in Workers : v # w => work'[v] = work[v]
          /\ work'[w].cat = work[w].cat
      BY <1>0, <2>4, PutDetailDoes DEF PutDetail, Unmoved
    <3>3. WorkOrdered(w)'
      BY <1>b, <3>1, <3>2 DEF WorkOrdered, Puts
    <3>4. QED
      BY <1>1, <3>2, <3>3
  <2>5. QED
    BY <1>2, <2>1, <2>2, <2>3, <2>4 DEF WorkerStep
<1>3. ASSUME NEW w \in Workers, Opens(w)
      PROVE  Ordered'
  BY <1>1, <1>3 DEF Opens, WorkOrdered
<1>4. ASSUME NEW c \in Categories, Publish(c)
      PROVE  Ordered'
  <2>1. PICK v \in Versions : v > source[c] /\ source' = [source EXCEPT ![c] = v]
    BY <1>4 DEF Publish
  <2>2. UNCHANGED <<pool, work>>
    BY <1>4 DEF Publish
  <2>4. /\ \A d \in Categories : pool[d] \in Nat /\ source[d] \in Nat
        /\ \A u \in Versions : u \in Nat
    BY <1>0, Numbers
  <2>a. ASSUME NEW d \in Categories
        PROVE  source[d] <= source'[d] /\ source'[d] \in Nat
    <3>1. source'[d] = IF d = c THEN v ELSE source[d]
      BY <1>a, <2>1
    <3>2. QED
      BY <2>1, <2>4, <3>1
  <2>3. \A d \in Categories : source[d] <= source'[d] /\ source'[d] \in Nat
    BY <2>a
  <2>5. \A d \in Categories : pool'[d] <= source'[d]
    BY <1>0, <2>2, <2>3, <2>4 DEF Ordered
  <2>6. \A w \in Workers : WorkOrdered(w)'
    BY <1>b, <2>2, <2>3, <2>4 DEF WorkOrdered
  <2>7. QED
    BY <2>5, <2>6 DEF Ordered
<1>5. CASE UNCHANGED <<source, pool, work>>
  BY <1>0, <1>5 DEF Ordered, WorkOrdered
<1>6. QED
  BY <1>0, <1>2, <1>3, <1>4, <1>5, RefreshCases DEF refreshVars, Expire

LEMMA CurrentNext ==
  ASSUME SchedulerInv, [Next]_vars, alone'
  PROVE  Current'
<1>0. /\ TypeOK /\ TypeOK' /\ TableInv /\ ListsWhole /\ alone
      /\ Attended /\ Ordered /\ Current
  BY AloneSteps, TypeNext DEF SchedulerInv, StoreInv, AloneInv
<1>1. ASSUME NEW c \in Categories, pool[c] # 0, NEW p \in Lists[c][pool[c]]
      PROVE  p \in Products /\ CategoryOf[p] = c
  <2>1. pool[c] \in Versions
    BY <1>0, <1>1 DEF TypeOK, RefreshTypeOK
  <2>2. QED
    BY <1>1, <2>1, Listed, RefreshAssumption
<1>2. ASSUME NEW c \in Categories, NEW p, UpToDate(c, p), pool'[c] = pool[c],
             detail'[p].ver = detail[p].ver,
             \A w \in Workers : work[w].step = "details" => work'[w] = work[w]
      PROVE  UpToDate(c, p)'
  BY <1>2 DEF UpToDate, Storing
<1>3. ASSUME UNCHANGED pool, \A p \in Products : detail'[p].ver = detail[p].ver,
             \A w \in Workers : work[w].step = "details" => work'[w] = work[w]
      PROVE  Current'
  BY <1>0, <1>1, <1>2, <1>3 DEF Current
<1>4. ASSUME NEW w \in Workers, PutPool(w)
      PROVE  Current'
  <2> SUFFICES ASSUME NEW c \in Categories, pool'[c] # 0, NEW p \in Lists[c][pool'[c]]
               PROVE  UpToDate(c, p)'
    BY DEF Current
  <2>1. CASE c = work[w].cat
    <3>1. Storing(w, c, p)'
      BY <1>0, <1>4, <2>1, PutPoolDoes DEF Storing, Unmoved, ListsWhole
    <3>2. QED
      BY <3>1 DEF UpToDate
  <2>2. CASE c # work[w].cat
    <3>1. pool'[c] = pool[c] /\ UNCHANGED detail /\ work[w].step # "details"
          /\ \A v \in Workers : v # w => work'[v] = work[v]
      BY <1>0, <1>4, <2>2, PutPoolDoes DEF PutPool
    <3>2. UpToDate(c, p)
      BY <1>0, <3>1 DEF Current
    <3>3. QED
      BY <1>2, <3>1, <3>2
  <2>3. QED
    BY <2>1, <2>2
<1>5. ASSUME NEW w \in Workers, PutDetail(w)
      PROVE  Current'
  <2>1. PICK q \in Products : Puts(w, q)
    BY <1>0, <1>5, PutDetailDoes
  <2>2. /\ UNCHANGED pool /\ work[w].step = "details" /\ work[w].ver \in Versions
        /\ work'[w].cat = work[w].cat /\ work[w].cat \in Categories
        /\ \A v \in Workers : v # w => work'[v] = work[v]
    BY <1>0, <1>5, WorkTypes, PutDetailDoes DEF PutDetail, Unmoved
  <2>3. q \in Lists[work[w].cat][work[w].ver] /\ work[w].ver = pool[work[w].cat]
    BY <1>0, <2>1, <2>2 DEF Puts, ListsWhole, Ordered, WorkOrdered
  <2>4. CategoryOf[q] = work[w].cat
    BY <2>2, <2>3, RefreshAssumption
  <2> SUFFICES ASSUME NEW c \in Categories, pool[c] # 0, NEW p \in Lists[c][pool[c]]
               PROVE  UpToDate(c, p)'
    BY <2>2 DEF Current
  <2>5. UpToDate(c, p) /\ p \in Products /\ CategoryOf[p] = c
    BY <1>0, <1>1 DEF Current
  <2>6. CASE p = q
    <3>1. c = work[w].cat /\ detail'[p].ver = work[w].ver
      BY <2>1, <2>4, <2>5, <2>6 DEF Puts
    <3>2. QED
      BY <2>2, <2>3, <3>1 DEF UpToDate
  <2>7. CASE p # q
    <3>1. detail'[p] = detail[p]
      BY <2>1, <2>5, <2>7 DEF Puts
    <3>2. CASE detail[p].ver = pool[c]
      BY <2>2, <3>1, <3>2 DEF UpToDate
    <3>3. ASSUME NEW v \in Workers, Storing(v, c, p)
          PROVE  Storing(v, c, p)'
      <4>1. CASE v # w
        BY <2>2, <3>3, <4>1 DEF Storing
      <4>2. CASE v = w
        BY <2>1, <2>2, <2>7, <3>3, <4>2 DEF Storing, Puts
      <4>3. QED
        BY <4>1, <4>2
    <3>4. QED
      BY <2>5, <3>2, <3>3 DEF UpToDate
  <2>8. QED
    BY <2>6, <2>7
<1>6. ASSUME NEW w \in Workers, FetchFails(w) \/ FetchOk(w) \/ Opens(w)
      PROVE  Current'
  <2>1. UNCHANGED <<pool, detail>> /\ work[w].step # "details"
        /\ \A v \in Workers : v # w => work'[v] = work[v]
    BY <1>0, <1>6, FinishDoes, FetchDoes DEF FetchFails, FetchOk, Opens
  <2>2. QED
    BY <1>3, <2>1
<1>7. ASSUME NEW p \in Products, Expire(p)
      PROVE  Current'
  <2>1. UNCHANGED <<pool, work>>
    BY <1>7 DEF Expire
  <2>2. detail' = [detail EXCEPT ![p].fresh = FALSE]
        /\ detail \in [Products -> [ver: Versions \union {0}, fresh: BOOLEAN]]
    BY <1>0, <1>7 DEF Expire, TypeOK, RefreshTypeOK
  <2>3. \A q \in Products : detail'[q].ver = detail[q].ver
    BY <2>2
  <2>4. QED
    BY <1>3, <2>1, <2>3
<1>8. CASE UNCHANGED <<pool, detail, work>>
  BY <1>3, <1>8
<1>9. QED
  BY <1>0, <1>4, <1>5, <1>6, <1>7, <1>8, RefreshCases DEF WorkerStep, refreshVars, Publish

LEMMA SchedulerInit == Init => SchedulerInv
<1> SUFFICES ASSUME Init PROVE SchedulerInv
  OBVIOUS
<1>1. StoreInv /\ TypeOK
  BY StoreInit, TypeInit
<1>2. TableInv
  BY <1>1, SchedulerAssumption DEF Init, TableInv, Registered, Pending, StoppedIsEmpty
<1>3. \A w \in Workers : work[w].step = "idle"
  BY RefreshAssumption DEF Init, RefreshInit, Unused
<1>4. Attended /\ Current
  BY <1>3 DEF Init, RefreshInit, Attended, Current
<1>5. \A c \in Categories : pool[c] = 0 /\ source[c] \in Nat
  BY RefreshAssumption DEF Init, RefreshInit
<1>6. Ordered
  BY <1>3, <1>5 DEF Ordered, WorkOrdered
<1>7. QED
  BY <1>1, <1>2, <1>4, <1>6 DEF SchedulerInv, AloneInv

LEMMA SchedulerNext == SchedulerInv /\ [Next]_vars => SchedulerInv'
<1> SUFFICES ASSUME SchedulerInv, [Next]_vars PROVE SchedulerInv'
  OBVIOUS
<1>1. StoreInv' /\ TableInv'
  BY StoreNext, TableNext DEF SchedulerInv
<1>2. ASSUME alone' PROVE Attended' /\ Ordered' /\ Current'
  <2>1. TypeOK /\ alone /\ Attended
    BY <1>2, AloneSteps DEF SchedulerInv, StoreInv, AloneInv
  <2>2. QED
    BY <1>2, <2>1, AttendedNext, OrderedNext, CurrentNext
<1>3. QED
  BY <1>1, <1>2 DEF SchedulerInv, AloneInv

LEMMA SchedulerInvariant == Spec => []SchedulerInv
BY SchedulerInit, SchedulerNext, PTL DEF Spec

\* As long as the scheduler is not stopped and nobody else refreshes, a category
\* has one thread, and without one its products have the details of its pool.
THEOREM UndisturbedIsConsistent == Spec => []AloneConsistent
<1>1. SchedulerInv => AloneConsistent
  <2> SUFFICES ASSUME SchedulerInv, alone, NEW c \in Categories
               PROVE  /\ Cardinality({w \in Workers : work[w].step # "idle" /\ work[w].cat = c}) <= 1
                      /\ (\A w \in Workers : work[w].cat = c => work[w].step = "idle") /\ pool[c] # 0 =>
                           \A p \in Lists[c][pool[c]] : detail[p].ver = pool[c]
    BY DEF AloneConsistent
  <2>1. TableInv /\ Attended /\ Current
    BY DEF SchedulerInv, AloneInv
  <2> DEFINE busy == {w \in Workers : work[w].step # "idle" /\ work[w].cat = c}
  <2>2. \A v, w \in busy : v = w
    BY <2>1, OneThread
  <2> HIDE DEF busy
  <2>3. busy = {} \/ \E w \in busy : busy = {w}
    BY <2>2
  <2>4. Cardinality(busy) <= 1
    <3>1. CASE busy = {}
      <4>1. Cardinality(busy) = 0
        BY <3>1, FS_EmptySet
      <4>2. QED
        BY <4>1
    <3>2. ASSUME NEW w \in busy, busy = {w}
          PROVE  Cardinality(busy) <= 1
      <4>1. Cardinality({w}) = 1
        BY FS_Singleton
      <4>2. QED
        BY <3>2, <4>1
    <3>3. QED
      BY <2>3, <3>1, <3>2
  <2>5. ASSUME \A w \in Workers : work[w].cat = c => work[w].step = "idle", pool[c] # 0,
               NEW p \in Lists[c][pool[c]]
        PROVE  detail[p].ver = pool[c]
    BY <2>1, <2>5 DEF Current, UpToDate, Storing
  <2>6. QED
    BY <2>4, <2>5 DEF busy
<1>2. QED
  BY <1>1, SchedulerInvariant, PTL

\* An undisturbed scheduler never puts an older list in the place of a newer one.
THEOREM UndisturbedMovesForward == Spec => AloneMovesForward
<1> DEFINE A == alone => \A c \in Categories : pool'[c] >= pool[c]
<1>1. SchedulerInv /\ [Next]_vars => [A]_pool
  <2> SUFFICES ASSUME SchedulerInv, [Next]_vars, alone, NEW c \in Categories
               PROVE  pool'[c] >= pool[c]
    OBVIOUS
  <2>1. TypeOK /\ ListsWhole /\ Ordered
    BY DEF SchedulerInv, StoreInv, AloneInv
  <2>2. pool[c] \in Nat
    BY <2>1, Numbers
  <2>3. ASSUME NEW w \in Workers, PutPool(w), work[w].cat = c
        PROVE  pool'[c] >= pool[c]
    <3>1. work[w].step = "pool" /\ pool'[c] = work[w].ver /\ work[w].ver \in Nat
      BY <2>1, <2>3, PutPoolDoes, RefreshAssumption
    <3>2. pool[c] <= work[w].ver
      BY <2>1, <2>3, <3>1 DEF Ordered, WorkOrdered
    <3>3. QED
      BY <2>2, <3>1, <3>2
  <2>4. QED
    BY <2>1, <2>2, <2>3, PoolStep
<1> HIDE DEF A
<1>2. Spec => [][A]_pool
  BY <1>1, SchedulerInvariant, PTL DEF Spec
<1>3. QED
  BY <1>2 DEF AloneMovesForward, A
=============================================================================
