------------------------ MODULE RecommendationGraph ------------------------
(***************************************************************************)
(* One run of the recommendation pipeline: the LangGraph of                *)
(* recommendation/graph (nodes.py, runtime.py, routing.py, state.py), the  *)
(* static compliance review it falls back to, the retrieval plan and the   *)
(* assembler that turns the final graph state into the HTTP response.      *)
(*                                                                         *)
(* The language-model agents and the evidence services are the             *)
(* environment: each may fail, and what it answers is chosen by \E.        *)
(* Products are opaque; what the pipeline looks at is their category, risk *)
(* level and liquidity.  Prompts, wording and scores are left out; the     *)
(* order of a basket is left out too, because no decision reads it.        *)
(***************************************************************************)
EXTENDS Naturals, Sequences, FiniteSets

CONSTANTS
  Products,   \* every product a candidate repository may list
  Category,   \* CandidateProduct.category
  Risk,       \* CandidateProduct.risk_level: 1..5 for R1..R5, 0 for any other text
  Liquid,     \* TRUE: T+0, T+1, open-ended, or at most 90 days
  Profiles    \* questionnaire profiles a request may carry

Categories == {"fund", "wealth_management", "stock"}
AllProfiles == {"conservative", "stable", "balanced", "growth", "aggressive"}

ASSUME CatalogAssumption ==
  /\ Category \in [Products -> Categories]
  /\ Risk \in [Products -> 0..5]
  /\ Liquid \in [Products -> BOOLEAN]
  /\ Profiles \subseteq AllProfiles

\* user_intelligence.risk_tier: the contract upper-cases R1..R5 and maps the
\* known aliases; any other text passes through and is tier 0 here.
Tiers == 0..5
Verdicts == {"approve", "revise_conservative", "block"}

VARIABLES
  node,      \* the graph node that runs next, then "assemble", "answered" or "raised"
  profile,   \* riskAssessmentResult.finalProfile
  services,  \* [agents, staticReview]: which optional GraphServices are wired
  pool,      \* product_candidates of this request
  user,      \* user_intelligence
  market,    \* market_intelligence
  basket,    \* retrieval_context (product_strategy is set with it)
  review,    \* compliance_review, and who produced it
  approved,  \* history: ids the review approved
  final,     \* final_response.recommendation_status, "none" while unset
  warnings,  \* warnings, as <<stage, code>>
  trace,     \* agent_trace, as <<node, status>>
  response   \* what assemble_graph_recommendation_response returned

vars == <<node, profile, services, pool, user, market, basket, review,
          approved, final, warnings, trace, response>>

-----------------------------------------------------------------------------
NodeOrder == <<"user_profile_analyst", "market_intelligence",
               "product_match_expert", "compliance_risk_officer",
               "manager_coordinator">>
Nodes == {NodeOrder[i] : i \in 1..5}
WarningCodes ==
  {"agent_runtime_required", "market_facts_unavailable", "agent_market_intelligence_failed",
   "product_evidence_unavailable", "agent_product_match_failed",
   "agent_product_match_invalid_output", "compliance_evidence_unavailable",
   "agent_compliance_review_failed", "agent_compliance_invalid_output",
   "agent_manager_coordinator_failed"}

NoResponse == [status |-> "none", sections |-> [c \in Categories |-> {}],
               allocation |-> [c \in Categories |-> 0],
               aggressive |-> [c \in Categories |-> 0],
               complianceShown |-> FALSE]

\* build_initial_graph_state, with the services of this request.
Init ==
  /\ node = "user_profile_analyst"
  /\ profile \in Profiles
  /\ services \in [agents: BOOLEAN, staticReview: BOOLEAN]
  /\ pool \in SUBSET Products
  /\ user = [known |-> FALSE, tier |-> 0, high |-> FALSE]
  /\ market = [known |-> FALSE, avoided |-> {}]
  /\ basket = [known |-> FALSE, products |-> {}]
  /\ review = [verdict |-> "none", source |-> "none"]
  /\ approved = {}
  /\ final = "none"
  /\ warnings = {}
  /\ trace = <<>>
  /\ response = NoResponse

request == <<profile, services, pool>>

\* _is_blocked
Blocked == final = "blocked" \/ review.verdict = "block"

\* _append_skipped_trace
Skip(n) ==
  /\ trace' = Append(trace, <<n, "transition">>)
  /\ UNCHANGED <<user, market, basket, review, approved, warnings>>

\* Mutant of Block: the warning and status are set, the review is not.
BlockWithoutReview(n, code) ==
  /\ warnings' = warnings \union {<<n, code>>}
  /\ final' = "blocked"
  /\ trace' = Append(trace, <<n, "error">>)
  /\ UNCHANGED <<user, market, basket, review, approved>>

\* _block_state_due_to_agent_failure
Block(n, code) ==
  /\ warnings' = warnings \union {<<n, code>>}
  /\ review' = [verdict |-> "block", source |-> "failure"]
  /\ final' = "blocked"
  /\ trace' = Append(trace, <<n, "error">>)
  /\ UNCHANGED <<user, market, basket, approved>>

-----------------------------------------------------------------------------
FallbackTier == [conservative |-> 2, stable |-> 2, balanced |-> 3,
                 growth |-> 4, aggressive |-> 5]

\* user_profile_analyst_node.  The run starts here, so nothing is blocked yet.
\* A failed chat recall only empties part of the prompt.
UserProfileAnalyst ==
  /\ node = "user_profile_analyst"
  /\ node' = "market_intelligence"
  /\ UNCHANGED <<request, response>>
  /\ \/ /\ ~services.agents
        /\ Block("user_profile_analyst", "agent_runtime_required")
     \/ /\ services.agents
        /\ user' = [known |-> TRUE, tier |-> FallbackTier[profile], high |-> FALSE]
        /\ trace' = Append(trace, <<"user_profile_analyst", "error">>)
        /\ UNCHANGED <<market, basket, review, approved, final, warnings>>
     \/ /\ services.agents
        /\ \E tier \in Tiers, high \in BOOLEAN :
             user' = [known |-> TRUE, tier |-> tier, high |-> high]
        /\ trace' = Append(trace, <<"user_profile_analyst", "finish">>)
        /\ UNCHANGED <<market, basket, review, approved, final, warnings>>

\* Mutant of MarketIntelligence: the _is_blocked early return is missing.
MarketIntelligenceUnguarded ==
  /\ node = "market_intelligence"
  /\ node' = "product_match_expert"
  /\ \E avoided \in SUBSET Categories : market' = [known |-> TRUE, avoided |-> avoided]
  /\ trace' = Append(trace, <<"market_intelligence", "finish">>)
  /\ UNCHANGED <<request, response, user, basket, review, approved, final, warnings>>

\* market_intelligence_node.  The same agent runtime serves every node, so one
\* that is missing has blocked the run at the first node already.
MarketIntelligence ==
  /\ node = "market_intelligence"
  /\ node' = "product_match_expert"
  /\ UNCHANGED <<request, response>>
  /\ \/ /\ Blocked
        /\ Skip("market_intelligence")
        /\ UNCHANGED final
     \/ /\ ~Blocked
        /\ \E code \in {"market_facts_unavailable", "agent_market_intelligence_failed"} :
             Block("market_intelligence", code)
     \/ /\ ~Blocked
        /\ \E avoided \in SUBSET Categories :
             market' = [known |-> TRUE, avoided |-> avoided]
        /\ trace' = Append(trace, <<"market_intelligence", "finish">>)
        /\ UNCHANGED <<user, basket, review, approved, final, warnings>>

-----------------------------------------------------------------------------
\* _allowed_risk_levels_for_tier: an unrecognised tier is treated as R2.
AllowedRisk(tier) == 1..(IF tier = 0 THEN 2 ELSE tier)

\* ProductRetrievalService.plan_retrieval: the candidates it keeps.
RetrievalPlan(candidates, u, m) ==
  {p \in candidates : /\ Risk[p] \in AllowedRisk(u.tier)
                      /\ Category[p] \notin m.avoided
                      /\ u.high => Liquid[p]}

\* _product_match_fallback_state: the agent failed, or chose what is not in the
\* plan or nothing, so the plan is taken.
TakePlan(plan, lost) ==
  /\ \E code \in {"agent_product_match_failed", "agent_product_match_invalid_output"} :
       warnings' = warnings \union lost \union {<<"product_match_expert", code>>}
  /\ basket' = [known |-> TRUE, products |-> plan]
  /\ trace' = Append(trace, <<"product_match_expert", "error">>)

\* The agent's ids, all of the plan and at least one.
TakeSelection(plan, lost) ==
  /\ \E ids \in SUBSET plan \ {{}} : basket' = [known |-> TRUE, products |-> ids]
  /\ warnings' = warnings \union lost
  /\ trace' = Append(trace, <<"product_match_expert", "finish">>)

\* product_match_expert_node.  lost: the product evidence search raised, which
\* it can do only when there is a candidate to search for.  The agent's ids are
\* those of the plan or not; one id outside it, or no id, rejects the answer.  The
\* recall of memories (:361) is under no try: it does not raise, as the store that
\* runtime.py gives it is a list of constants.
ProductMatchExpert ==
  LET plan == RetrievalPlan(pool, user, market) IN
  /\ node = "product_match_expert"
  /\ node' = "compliance_risk_officer"
  /\ UNCHANGED <<request, response>>
  /\ \/ /\ Blocked
        /\ Skip("product_match_expert")
        /\ UNCHANGED final
     \/ /\ ~Blocked
        /\ plan = {}
        /\ \E code \in {"agent_product_match_failed", "agent_product_match_invalid_output"} :
             Block("product_match_expert", code)
     \/ /\ ~Blocked
        /\ plan # {}
        /\ \E lost \in SUBSET {<<"product_match_expert", "product_evidence_unavailable">>} :
             TakePlan(plan, lost) \/ TakeSelection(plan, lost)
        /\ UNCHANGED <<user, market, review, approved, final>>

-----------------------------------------------------------------------------
\* ComplianceReviewService._requires_conservative_liquidity_guardrail
LiquidityGuardrail(u) == u.tier \in {1, 2} \/ u.high

\* ComplianceReviewService.approved_candidate_ids
StaticApproved(u, candidates) ==
  {p \in candidates : /\ u.tier # 0
                      /\ Risk[p] \in 1..u.tier
                      /\ LiquidityGuardrail(u) => Liquid[p]}

\* Mutant of StaticVerdict: the liquidity guardrail is forgotten.
StaticVerdictRiskOnly(u, candidates) ==
  IF u.tier = 0 \/ \E p \in candidates : Risk[p] = 0 \/ Risk[p] > u.tier
  THEN "revise_conservative"
  ELSE "approve"

\* ComplianceReviewService.review, which decides without calling the former.
StaticVerdict(u, candidates) ==
  IF \/ u.tier = 0
     \/ \E p \in candidates : Risk[p] = 0 \/ Risk[p] > u.tier
     \/ LiquidityGuardrail(u) /\ \E p \in candidates : ~Liquid[p]
  THEN "revise_conservative"
  ELSE "approve"

\* Mutants of Filtered: the approved ids replace the basket; only a block filters.
FilteredToIds(verdict, candidates, ids) ==
  IF verdict = "approve" THEN candidates ELSE ids
FilteredOnBlock(verdict, candidates, ids) ==
  IF verdict = "block" THEN candidates \intersect ids ELSE candidates

\* Candidates left after a verdict: only a verdict other than "approve" filters.
Filtered(verdict, candidates, ids) ==
  IF verdict = "approve" THEN candidates ELSE candidates \intersect ids

\* Mutant of StaticFallback: the warning is appended to a state that is dropped.
StaticFallbackSilent(code) ==
  LET ids == StaticApproved(user, basket.products)
      verdict == StaticVerdict(user, basket.products)
  IN /\ review' = [verdict |-> verdict, source |-> "static"]
     /\ approved' = ids
     /\ basket' = [basket EXCEPT !.products = Filtered(verdict, @, ids)]
     /\ trace' = Append(trace, <<"compliance_risk_officer", "error">>)
     /\ UNCHANGED <<user, market, final, warnings>>

\* _static_compliance_fallback_state
StaticFallback(code) ==
  LET verdict == StaticVerdict(user, basket.products)
      ids     == StaticApproved(user, basket.products)
  IN /\ warnings' = warnings \union {<<"compliance_risk_officer", code>>}
     /\ review' = [verdict |-> verdict, source |-> "static"]
     /\ approved' = ids
     /\ basket' = [basket EXCEPT !.products = Filtered(verdict, @, ids)]
     /\ trace' = Append(trace, <<"compliance_risk_officer", "error">>)
     /\ UNCHANGED <<user, market, final>>

\* The agent's review was valid: its verdict is adopted.
AdoptReview(verdict, ids, lost) ==
  /\ warnings' = warnings \union lost
  /\ review' = [verdict |-> verdict, source |-> "agent"]
  /\ approved' = ids
  /\ basket' = [basket EXCEPT !.products = Filtered(verdict, @, ids)]
  /\ trace' = Append(trace, <<"compliance_risk_officer", "finish">>)
  /\ UNCHANGED <<user, market, final>>

\* compliance_risk_officer_node.  A basket that reaches it is never empty
\* (BasketUnderReview), so "selected_candidates_missing" cannot occur.  Without
\* a static reviewer a failure blocks from the state before the evidence
\* warning, which is therefore dropped.  The facts for the prompt (:664) are under
\* no try: the service that runtime.py gives has no source of rules and only reads
\* the state, so no outcome stands for its failure.
ComplianceRiskOfficer ==
  /\ node = "compliance_risk_officer"
  /\ UNCHANGED <<request, response>>
  /\ \/ /\ Blocked
        /\ node' = "manager_coordinator"
        /\ Skip("compliance_risk_officer")
        /\ UNCHANGED final
     \/ /\ ~Blocked
        /\ services.staticReview
        /\ node' = "manager_coordinator"
        /\ \E code \in {"compliance_evidence_unavailable", "agent_compliance_review_failed",
                        "agent_compliance_invalid_output"} : StaticFallback(code)
     \/ /\ ~Blocked
        /\ ~services.staticReview
        /\ node' = "manager_coordinator"
        /\ \E code \in {"agent_compliance_review_failed", "agent_compliance_invalid_output"} :
             Block("compliance_risk_officer", code)
     \/ /\ ~Blocked
        /\ node' = "manager_coordinator"
        /\ \E verdict \in Verdicts, ids \in SUBSET pool,
              lost \in SUBSET {<<"compliance_risk_officer", "compliance_evidence_unavailable">>} :
             /\ services.staticReview => lost = {}
             /\ AdoptReview(verdict, ids, lost)
     \/ \* a verdict outside the vocabulary fails ComplianceReviewState's validation,
        \* outside any try: the exception leaves graph.invoke
        /\ ~Blocked
        /\ node' = "raised"
        /\ UNCHANGED <<user, market, basket, review, approved, final, warnings, trace>>

-----------------------------------------------------------------------------
\* Mutant of ManagerStatus: the agent's wish wins.
ManagerStatusRequested(verdict, requested) ==
  IF verdict = "block" THEN "blocked" ELSE requested

\* _manager_status_for_verdict
ManagerStatus(verdict, requested) ==
  CASE verdict = "approve" -> IF requested \in {"ready", "limited"} THEN requested ELSE "ready"
    [] verdict = "revise_conservative" -> "limited"
    [] OTHER -> "blocked"

\* manager_coordinator_node; all three routes of route_compliance_verdict lead here.
ManagerCoordinator ==
  /\ node = "manager_coordinator"
  /\ node' = "assemble"
  /\ UNCHANGED <<request, response>>
  /\ \/ /\ Blocked
        /\ Skip("manager_coordinator")
        /\ final' = IF final = "none" THEN "blocked" ELSE final  \* _finalize_blocked_response
     \/ /\ ~Blocked
        /\ Block("manager_coordinator", "agent_manager_coordinator_failed")
     \/ /\ ~Blocked
        /\ \E requested \in {"ready", "limited", "blocked"} :
             final' = ManagerStatus(review.verdict, requested)
        /\ trace' = Append(trace, <<"manager_coordinator", "finish">>)
        /\ UNCHANGED <<user, market, basket, review, approved, warnings>>

-----------------------------------------------------------------------------
\* rules/profile_catalog.py, in percent
Percent(f, w, s) == [fund |-> f, wealth_management |-> w, stock |-> s]
BaseAllocations ==
  [conservative |-> Percent(25, 70, 5),  stable |-> Percent(35, 50, 15),
   balanced     |-> Percent(45, 35, 20), growth |-> Percent(45, 20, 35),
   aggressive   |-> Percent(35, 15, 50)]
AggressiveAllocations ==
  [conservative |-> Percent(30, 55, 15), stable |-> Percent(35, 35, 30),
   balanced     |-> Percent(40, 25, 35), growth |-> Percent(35, 15, 50),
   aggressive   |-> Percent(30, 10, 60)]

\* _graph_allocation_display: where the share of an unavailable category goes.
RebalanceOrder == [fund              |-> <<"wealth_management", "stock">>,
                   wealth_management |-> <<"fund", "stock">>,
                   stock             |-> <<"wealth_management", "fund">>]

\* Mutant of Shift: only the preferred target is tried.
ShiftFirstOnly(display, c, available) ==
  LET first == RebalanceOrder[c][1]
  IN IF c \in available THEN display
     ELSE IF first \in available
     THEN [display EXCEPT ![c] = 0, ![first] = @ + display[c]]
     ELSE [display EXCEPT ![c] = 0]

\* One turn of its loop: empty category c and move its share, if anywhere.
Shift(display, c, available) ==
  LET first  == RebalanceOrder[c][1]
      second == RebalanceOrder[c][2]
      moved(target) == [display EXCEPT ![c] = 0, ![target] = @ + display[c]]
  IN IF c \in available THEN display
     ELSE IF first \in available THEN moved(first)
     ELSE IF second \in available THEN moved(second)
     ELSE [display EXCEPT ![c] = 0]

Rebalance(allocation, available) ==
  Shift(Shift(Shift(allocation, "fund", available),
              "wealth_management", available),
        "stock", available)

\* _assemble_graph_sections
RawSections == [c \in Categories |-> {p \in basket.products : Category[p] = c}]

\* assemble_graph_recommendation_response, called by generate_recommendation.
Assemble ==
  LET status    == IF final = "none" THEN "ready" ELSE final
      available == {c \in Categories : RawSections[c] # {}}
      display   == Rebalance(BaseAllocations[profile], available)
  IN /\ node = "assemble"
     /\ node' = "answered"
     /\ response' = [status |-> status,
                     sections |-> [c \in Categories |->
                                     IF display[c] > 0 THEN RawSections[c] ELSE {}],
                     allocation |-> display,
                     aggressive |-> Rebalance(AggressiveAllocations[profile], available),
                     complianceShown |-> /\ review.verdict # "none"
                                         /\ review.verdict # "approve" \/ status # "ready"]
     /\ UNCHANGED <<request, user, market, basket, review, approved, final,
                    warnings, trace>>

Next == \/ UserProfileAnalyst \/ MarketIntelligence \/ ProductMatchExpert
        \/ ComplianceRiskOfficer \/ ManagerCoordinator \/ Assemble

Spec == Init /\ [][Next]_vars

-----------------------------------------------------------------------------
(***************************************************************************)
(* Properties.                                                             *)
(***************************************************************************)

\* Every variable has the shape the graph state declares.
TypeOK ==
  /\ node \in Nodes \union {"assemble", "answered", "raised"}
  /\ profile \in Profiles
  /\ services \in [agents: BOOLEAN, staticReview: BOOLEAN]
  /\ pool \in SUBSET Products
  /\ user \in [known: BOOLEAN, tier: Tiers, high: BOOLEAN]
  /\ market \in [known: BOOLEAN, avoided: SUBSET Categories]
  /\ basket \in [known: BOOLEAN, products: SUBSET Products]
  /\ review \in [verdict: Verdicts \union {"none"},
                 source: {"none", "agent", "static", "failure"}]
  /\ approved \in SUBSET Products
  /\ final \in {"none", "ready", "limited", "blocked"}
  /\ warnings \in SUBSET (Nodes \X WarningCodes)
  /\ trace \in Seq(Nodes \X {"finish", "error", "transition"})
  /\ response.status \in {"none", "ready", "limited", "blocked"}
  /\ response.sections \in [Categories -> SUBSET Products]
  /\ response.allocation \in [Categories -> Nat]
  /\ response.aggressive \in [Categories -> Nat]
  /\ response.complianceShown \in BOOLEAN

\* A product reaches the user only if the retrieval plan kept it for this very
\* profile and market view, whichever agent, fallback or block produced the
\* basket: no path around plan_retrieval's risk, category and liquidity filters.
DeliveredWithinPlan ==
  /\ basket.products \subseteq RetrievalPlan(pool, user, market)
  /\ \A c \in Categories : response.sections[c] \subseteq basket.products

\* A recommendation is released as ready or limited only after the market and
\* manager agents answered and a compliance review, by agent or static rules,
\* reached a verdict that allows it; a conservative revision is never "ready".
ReleasedOnlyAfterReview ==
  final \in {"ready", "limited"} =>
    /\ review.source \in {"agent", "static"}
    /\ review.verdict \in {"approve", "revise_conservative"}
    /\ review.verdict = "revise_conservative" => final = "limited"
    /\ trace[2] = <<"market_intelligence", "finish">>
    /\ trace[5] = <<"manager_coordinator", "finish">>

\* When the static rules stand in for the compliance agent, what is left in the
\* basket passes them all, although review() and approved_candidate_ids() decide
\* separately and an "approve" filters nothing.
StaticReviewSuitable ==
  review.source = "static" => basket.products = StaticApproved(user, basket.products)

\* The compliance officer only ever narrows the basket, and a conservative
\* revision leaves nothing that the reviewer did not approve.
RevisionOnlyNarrows ==
  [][/\ basket.known => basket'.products \subseteq basket.products
     /\ review'.verdict = "revise_conservative" => basket'.products \subseteq approved']_vars

\* Once a step has blocked the run no later node calls an agent, replaces the
\* review, changes the basket or adds a warning, and nothing unblocks it.
NothingRunsAfterBlock ==
  [][Blocked => /\ Blocked'
                /\ UNCHANGED <<user, market, basket, review, warnings>>
                /\ trace' = trace \/ trace'[Len(trace')][2] = "transition"]_vars

\* A released answer without a warning was selected and reviewed by the agents
\* themselves: every fallback that replaces one of them is visible in it.
UnwarnedMeansAgentReviewed ==
  (node = "answered" /\ warnings = {} /\ response.status # "blocked") =>
    /\ review.source = "agent"
    /\ \A i \in 2..5 : trace[i][2] = "finish"

\* An answer that is not "ready" shows its compliance review, and the default
\* "ready" for a missing final_response is never what decides the status.
HeldAnswerIsExplained ==
  node = "answered" =>
    /\ final # "none"
    /\ response.status # "ready" => response.complianceShown

\* Both allocations of an answer distribute the whole portfolio over the
\* categories that have a product (or nothing, if none has), and a category is
\* shown with products exactly when it gets a share.
AllocationCoversSections ==
  node = "answered" =>
    LET covered == {c \in Categories : response.sections[c] # {}}
        total(display) == display["fund"] + display["wealth_management"] + display["stock"]
    IN \A display \in {response.allocation, response.aggressive} :
         /\ total(display) = IF covered = {} THEN 0 ELSE 100
         /\ covered = {c \in Categories : display[c] > 0}

-----------------------------------------------------------------------------
(***************************************************************************)
(* Why they hold: what each stage leaves behind for the stages after it.   *)
(***************************************************************************)

\* One event per stage, and no answer before the assembler.
EventsBefore == [user_profile_analyst |-> 0, market_intelligence |-> 1,
                 product_match_expert |-> 2, compliance_risk_officer |-> 3,
                 manager_coordinator |-> 4]
StageTrace ==
  /\ node \in Nodes => Len(trace) = EventsBefore[node]
  /\ node # "answered" => response = NoResponse

\* Nothing is selected before the product stage.
StageBasket ==
  node \in {"user_profile_analyst", "market_intelligence", "product_match_expert"} =>
    basket = [known |-> FALSE, products |-> {}]

\* Before the compliance stage only a block has a review, after it there is one.
StageReview ==
  /\ node \in Nodes \ {"manager_coordinator"} => review.source \in {"none", "failure"}
  /\ review.source = "none" <=> review.verdict = "none"
  /\ review.source = "failure" => review.verdict = "block"
  /\ review.source = "static" => review.verdict # "block"
  /\ node \in {"manager_coordinator", "assemble", "answered"} => review.source # "none"
  /\ review.verdict = "revise_conservative" => basket.products \subseteq approved

\* final_response is set by a block, which sets the review too, or by the manager.
StageFinal ==
  /\ node = "user_profile_analyst" => ~Blocked
  /\ node \in Nodes => final = "none" \/ (final = "blocked" /\ review.verdict = "block")
  /\ node \in {"assemble", "answered"} => final # "none"
  /\ node = "raised" => final = "none"
  /\ node = "answered" => response.status = final

\* An unblocked run has been through the stages behind it.
StageTrail ==
  LET finished(i) == trace[i] = <<NodeOrder[i], "finish">>
  IN ~Blocked =>
       /\ node \in {"product_match_expert", "compliance_risk_officer",
                    "manager_coordinator"} => finished(2)
       /\ node \in {"compliance_risk_officer", "manager_coordinator"} /\ warnings = {} =>
            finished(3)
       /\ node = "manager_coordinator" /\ warnings = {} =>
            review.source = "agent" /\ finished(4)
       /\ node \in {"assemble", "answered"} /\ warnings = {} =>
            review.source = "agent" /\ \A i \in 2..5 : finished(i)

\* The inductive invariant of the pipeline: the stages, and the safety
\* properties that they make inductive.
StageInv == StageTrace /\ StageBasket /\ StageReview /\ StageFinal /\ StageTrail
=============================================================================
