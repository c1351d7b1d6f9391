------------------------ MODULE DeterministicAgents ------------------------
(***************************************************************************)
(* _DeterministicAgentRuntime of graph/runtime.py: the five agents of the  *)
(* offline pipeline (with_deterministic_services), which answer by rules.  *)
(* The pipeline admits every answer of an agent; these are the ones that   *)
(* the rules give to what a stage is shown.  A basket has no order in the  *)
(* pipeline, so "the first two" are any two.                               *)
(***************************************************************************)
EXTENDS RecommendationGraph

\* analyze_user_profile: cautious, the prompt speaks of capital or liquidity.
OfflineTier(p, cautious) ==
  IF cautious /\ FallbackTier[p] > 2 THEN 2 ELSE FallbackTier[p]

\* analyze_market_intelligence; its stance is defensive when it avoids stocks.
OfflineAvoided(tier, bad) == IF bad \/ tier \in {1, 2} THEN {"stock"} ELSE {}

AllowsStock(u, m) == u.tier \notin {1, 2} /\ "stock" \notin m.avoided

\* match_products
OfflineSelections(plan, u, m) ==
  LET of(c) == {p \in plan : Category[p] = c}
      take(c, n) == {ids \in SUBSET of(c) : \/ Cardinality(ids) = n
                                            \/ ids = of(c) /\ Cardinality(ids) < n}
  IN {f \union w \union s : f \in take("fund", 2), w \in take("wealth_management", 2),
                            s \in take("stock", IF AllowsStock(u, m) THEN 1 ELSE 0)}

\* review_compliance: an unknown tier counts as R2, an unknown risk as too high.
OfflineApproved(u, ids) ==
  {p \in ids : Risk[p] # 0 /\ Risk[p] <= (IF u.tier = 0 THEN 2 ELSE u.tier)}
OfflineVerdict(u, ids) ==
  IF OfflineApproved(u, ids) = ids THEN "approve"
  ELSE IF OfflineApproved(u, ids) # {} THEN "revise_conservative" ELSE "block"

\* coordinate_manager; stocks are recommended when one was selected.
OfflineStatus(verdict, ids) ==
  IF verdict = "block" THEN "blocked"
  ELSE IF verdict = "revise_conservative" \/ \A p \in ids : Category[p] # "stock" THEN "limited"
  ELSE "ready"

-----------------------------------------------------------------------------
(***************************************************************************)
(* Property.                                                               *)
(***************************************************************************)

\* The offline agents fit the pipeline around them: of a plan that is not empty they
\* never select nothing, nor anything outside it, so no fallback replaces them; what
\* the filters of the plan let through their own review approves; and the status they
\* ask for is the one that is released.
OfflineAnswersStand ==
  LET plan == RetrievalPlan(pool, user, market) IN
    /\ node = "product_match_expert" /\ ~Blocked
    /\ \E cautious, bad \in BOOLEAN :
         user.tier = OfflineTier(profile, cautious) /\ market.avoided = OfflineAvoided(user.tier, bad)
    => \A ids \in OfflineSelections(plan, user, market) :
         LET verdict == OfflineVerdict(user, ids) IN
           /\ ids \subseteq plan
           /\ plan # {} => ids # {}
           /\ verdict = "approve"
           /\ ManagerStatus(verdict, OfflineStatus(verdict, ids)) = OfflineStatus(verdict, ids)
=============================================================================
