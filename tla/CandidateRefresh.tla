-------------------------- MODULE CandidateRefresh --------------------------
(***************************************************************************)
(* Prefetched candidate pools and product details: the refresher of        *)
(* candidate_pool/refresh.py, the product detail endpoint with the         *)
(* background refresh it starts, and the refresh script.                   *)
(*                                                                         *)
(* A refresh fetches a category's products, stores the pool and then its   *)
(* details one by one.  It runs on a thread of whoever started it, and     *)
(* nothing keeps two refreshes of a category apart: RefreshScheduler does  *)
(* that for its own.  The snapshot cache is Redis here (SnapshotCache      *)
(* models its fallback): what is stored survives the process.              *)
(***************************************************************************)
EXTENDS Naturals, FiniteSets

CONSTANTS
  Categories,  \* refreshed categories
  Products,    \* product ids
  Versions,    \* what a provider may list over time
  Lists,       \* category -> version -> the products listed
  CategoryOf,  \* product -> its category, which its id tells
  Catalog,     \* products of the static catalogue
  Workers,     \* refresh threads that may run at once (bound)
  ScriptRuns,  \* TRUE: the refresh script may be run
  Views        \* products whose detail page may be opened

ASSUME RefreshAssumption ==
  /\ Categories # {}
  /\ Versions \subseteq Nat \ {0}
  /\ Lists \in [Categories -> [Versions -> SUBSET Products]]
  /\ Catalog \subseteq Products
  /\ Views \subseteq Products
  /\ ScriptRuns \in BOOLEAN
  /\ \A c \in Categories, v \in Versions : \A p \in Lists[c][v] : CategoryOf[p] = c

VARIABLES
  source,  \* category -> version its provider lists
  pool,    \* category -> version of the cached pool, 0 if none was ever stored
  detail,  \* product -> [ver, fresh]: the cached detail, ver 0 if none
  work,    \* worker -> state of a refresh_category call, see Work
  torn     \* ghost: categories whose pool lost its worker before its details

refreshVars == <<source, pool, detail, work, torn>>

Owners == {"scheduler", "page", "script"}
Work == [step: {"idle", "fetch", "pool", "details"}, cat: Categories,
         owner: Owners, ver: Versions \union {0}, left: SUBSET Products]

RefreshTypeOK ==
  /\ source \in [Categories -> Versions]
  /\ pool \in [Categories -> Versions \union {0}]
  /\ detail \in [Products -> [ver: Versions \union {0}, fresh: BOOLEAN]]
  /\ work \in [Workers -> Work]
  /\ \A w \in Workers : work[w].step \in {"pool", "details"} =>
                          work[w].ver # 0 /\ work[w].left # {}
  /\ torn \in SUBSET Categories

Unused(c) == [step |-> "idle", cat |-> c, owner |-> "script", ver |-> 0, left |-> {}]

RefreshInit ==
  /\ source \in [Categories -> Versions]
  /\ pool = [c \in Categories |-> 0]
  /\ detail = [p \in Products |-> [ver |-> 0, fresh |-> FALSE]]
  /\ work \in [Workers -> {Unused(CHOOSE c \in Categories : TRUE)}]
  /\ torn = {}

\* refresh_category is called on a thread of its own.
Begin(w, c, owner) ==
  /\ work[w].step = "idle"
  /\ work' = [work EXCEPT ![w] = [Unused(c) EXCEPT !.step = "fetch", !.owner = owner]]

Finish(w) == work' = [work EXCEPT ![w] = Unused(work[w].cat)]

\* The call of worker w returns or raises after this step.
Returning(w) == work[w].step # "idle" /\ work'[w].step = "idle"

\* list_product_details and build_candidate_pool_snapshot: the provider raises,
\* or lists nothing, which is an error too: the pool and details stay.
FetchFails(w) ==
  /\ work[w].step = "fetch"
  /\ Finish(w)
  /\ UNCHANGED <<source, pool, detail, torn>>

\* Mutant of FetchOk: an empty list is a refresh like any other.
FetchAny(w) ==
  LET c == work[w].cat IN
  /\ work[w].step = "fetch"
  /\ work' = [work EXCEPT ![w] = [@ EXCEPT !.step = "pool", !.ver = source[c],
                                          !.left = Lists[c][source[c]]]]
  /\ UNCHANGED <<source, pool, detail, torn>>

FetchOk(w) ==
  LET c == work[w].cat IN
  /\ work[w].step = "fetch"
  /\ Lists[c][source[c]] # {}
  /\ work' = [work EXCEPT ![w] = [@ EXCEPT !.step = "pool", !.ver = source[c],
                                          !.left = Lists[c][source[c]]]]
  /\ UNCHANGED <<source, pool, detail, torn>>

\* put_candidate_pool
PutPool(w) ==
  /\ work[w].step = "pool"
  /\ pool' = [pool EXCEPT ![work[w].cat] = work[w].ver]
  /\ torn' = torn \ {work[w].cat}
  /\ work' = [work EXCEPT ![w].step = "details"]
  /\ UNCHANGED <<source, detail>>

\* Mutant of PutDetail: put_many stops one short.
PutDetailButOne(w) ==
  /\ work[w].step = "details"
  /\ \E p \in work[w].left :
       /\ detail' = [detail EXCEPT ![p] = [ver |-> work[w].ver, fresh |-> TRUE]]
       /\ IF Cardinality(work[w].left) <= 2
          THEN Finish(w)
          ELSE work' = [work EXCEPT ![w].left = @ \ {p}]
  /\ UNCHANGED <<source, pool, torn>>

\* Mutant of PutDetail: a detail that is there already is kept.
PutDetailIfMissing(w) ==
  /\ work[w].step = "details"
  /\ \E p \in work[w].left :
       /\ detail' = IF detail[p].ver = 0
                    THEN [detail EXCEPT ![p] = [ver |-> work[w].ver, fresh |-> TRUE]] ELSE detail
       /\ IF work[w].left = {p}
          THEN Finish(w)
          ELSE work' = [work EXCEPT ![w].left = @ \ {p}]
  /\ UNCHANGED <<source, pool, torn>>

\* put_many, one detail; after the last one the call returns.
PutDetail(w) ==
  /\ work[w].step = "details"
  /\ \E p \in work[w].left :
       /\ detail' = [detail EXCEPT ![p] = [ver |-> work[w].ver, fresh |-> TRUE]]
       /\ IF work[w].left = {p}
          THEN Finish(w)
          ELSE work' = [work EXCEPT ![w].left = @ \ {p}]
  /\ UNCHANGED <<source, pool, torn>>

WorkerStep(w) == FetchFails(w) \/ FetchOk(w) \/ PutPool(w) \/ PutDetail(w)

-----------------------------------------------------------------------------
\* _list_category: what recommendations of category c choose from, an expired
\* pool included.
Offered(c) == IF pool[c] # 0 THEN Lists[c][pool[c]] ELSE {p \in Catalog : CategoryOf[p] = c}

\* get_product_detail: what the detail page of p shows.
Shown(p) == CASE detail[p].ver # 0 /\ detail[p].fresh -> "fresh"
              [] detail[p].ver # 0 /\ ~detail[p].fresh -> "stale"
              [] detail[p].ver = 0 /\ p \in Catalog -> "catalog"
              [] OTHER -> "not_found"

\* Bound: one refresh that is not the scheduler's at a time.
NoGuest == \A w \in Workers : work[w].owner # "scheduler" => work[w].step = "idle"

\* The page of p is opened: a stale answer, the catalogue's included, starts a
\* refresh of the whole category in the background (refresh_product_detail).
View(w, p) ==
  /\ p \in Views /\ NoGuest
  /\ Shown(p) \in {"stale", "catalog"}
  /\ CategoryOf[p] \in Categories /\ Begin(w, CategoryOf[p], "page")
  /\ UNCHANGED <<source, pool, detail, torn>>

\* scripts/refresh_recommendation_candidate_pool.py
Script(w, c) ==
  /\ ScriptRuns /\ NoGuest
  /\ Begin(w, c, "script")
  /\ UNCHANGED <<source, pool, detail, torn>>

\* The TTL of a detail passes.
Expire(p) ==
  /\ detail[p].fresh
  /\ detail' = [detail EXCEPT ![p].fresh = FALSE]
  /\ UNCHANGED <<source, pool, work, torn>>

\* The provider's list changes.
Publish(c) ==
  /\ \E v \in Versions : v > source[c] /\ source' = [source EXCEPT ![c] = v]
  /\ UNCHANGED <<pool, detail, work, torn>>

\* The API process dies, and with it the refreshes of its threads.
Die ==
  LET dead == {w \in Workers : work[w].step # "idle" /\ work[w].owner # "script"} IN
  /\ work' = [w \in Workers |-> IF w \in dead THEN Unused(work[w].cat) ELSE work[w]]
  /\ torn' = torn \union {work[w].cat : w \in {x \in dead : work[x].step = "details"}}
  /\ UNCHANGED <<source, pool, detail>>
=============================================================================
