--------------------- MODULE RecommendationGraph_proofs ---------------------
(***************************************************************************)
(* Proofs about RecommendationGraph for every catalogue, every set of      *)
(* profiles and every answer of the agents; about the offline agents; and  *)
(* about what the agents are given, for all of their inputs: the view of   *)
(* the market, its page, the order of the candidates and the recall.       *)
(***************************************************************************)
EXTENDS AgentInputs, FiniteSetTheorems, SequenceTheorems, WellFoundedInduction, TLAPS

LEMMA NodesAre ==
  Nodes = {"user_profile_analyst", "market_intelligence", "product_match_expert",
           "compliance_risk_officer", "manager_coordinator"}
BY DEF Nodes, NodeOrder

-----------------------------------------------------------------------------
(* The allocation arithmetic.                                              *)

LEMMA ShiftType ==
  ASSUME NEW d \in [Categories -> Nat], NEW c \in Categories, NEW available
  PROVE  Shift(d, c, available) \in [Categories -> Nat]
BY DEF Shift, RebalanceOrder, Categories

LEMMA RebalanceType ==
  ASSUME NEW d \in [Categories -> Nat], NEW available
  PROVE  Rebalance(d, available) \in [Categories -> Nat]
BY ShiftType DEF Rebalance, Categories

LEMMA AllocationsType ==
  ASSUME NEW p \in AllProfiles
  PROVE  /\ BaseAllocations[p] \in [Categories -> Nat]
         /\ AggressiveAllocations[p] \in [Categories -> Nat]
BY DEF AllProfiles, BaseAllocations, AggressiveAllocations, Percent, Categories

-----------------------------------------------------------------------------
(* Type correctness.                                                       *)

LEMMA InitTypeOK == Init => TypeOK
BY NodesAre DEF Init, TypeOK, NoResponse, Tiers, Verdicts, Categories

\* A block, or a skip that leaves final_response well typed, keeps the types.
LEMMA BlockTypeOK ==
  ASSUME TypeOK, UNCHANGED <<request, response>>,
         node' \in Nodes \union {"assemble", "answered", "raised"},
         NEW n \in Nodes, NEW code \in WarningCodes, Block(n, code)
  PROVE  TypeOK'
<1>1. trace' \in Seq(Nodes \X {"finish", "error", "transition"})
  BY DEF Block, TypeOK
<1>2. warnings' \in SUBSET (Nodes \X WarningCodes)
  BY DEF Block, TypeOK
<1> QED
  BY <1>1, <1>2 DEF Block, TypeOK, request, Verdicts

LEMMA SkipTypeOK ==
  ASSUME TypeOK, UNCHANGED <<request, response>>,
         node' \in Nodes \union {"assemble", "answered", "raised"},
         NEW n \in Nodes, Skip(n),
         final' \in {"none", "ready", "limited", "blocked"}
  PROVE  TypeOK'
<1>1. trace' \in Seq(Nodes \X {"finish", "error", "transition"})
  BY DEF Skip, TypeOK
<1> QED
  BY <1>1 DEF Skip, TypeOK, request

\* What a step that appends one event does to the trace.
LEMMA AppendTypeOK ==
  ASSUME TypeOK, NEW n \in Nodes, NEW s \in {"finish", "error", "transition"},
         trace' = Append(trace, <<n, s>>)
  PROVE  trace' \in Seq(Nodes \X {"finish", "error", "transition"})
BY DEF TypeOK

LEMMA NextTypeOK == TypeOK /\ [Next]_vars => TypeOK'
<1> SUFFICES ASSUME TypeOK, [Next]_vars PROVE TypeOK'
  OBVIOUS
<1>1. CASE UserProfileAnalyst
  <2>0. UNCHANGED <<request, response>> /\ node' \in Nodes
    BY <1>1, NodesAre DEF UserProfileAnalyst
  <2>1. CASE Block("user_profile_analyst", "agent_runtime_required")
    <3>1. "user_profile_analyst" \in Nodes /\ "agent_runtime_required" \in WarningCodes
      BY NodesAre DEF WarningCodes
    <3>2. node' \in Nodes \union {"assemble", "answered", "raised"}
      BY <2>0
    <3> QED
      BY <2>0, <2>1, <3>1, <3>2, BlockTypeOK
  <2>2. ASSUME NEW tier \in Tiers, NEW high \in BOOLEAN,
               user' = [known |-> TRUE, tier |-> tier, high |-> high],
               NEW s \in {"finish", "error"},
               trace' = Append(trace, <<"user_profile_analyst", s>>),
               UNCHANGED <<market, basket, review, approved, final, warnings>>
        PROVE  TypeOK'
    <3>1. trace' \in Seq(Nodes \X {"finish", "error", "transition"})
      BY <2>2, AppendTypeOK, NodesAre
    <3> QED
      BY <2>0, <2>2, <3>1 DEF TypeOK, request
  <2>3. FallbackTier[profile] \in Tiers
    BY CatalogAssumption DEF FallbackTier, AllProfiles, Tiers, TypeOK
  <2> QED
    BY <1>1, <2>1, <2>2, <2>3 DEF UserProfileAnalyst
<1>2. CASE MarketIntelligence
  <2>0. UNCHANGED <<request, response>> /\ node' \in Nodes
    BY <1>2, NodesAre DEF MarketIntelligence
  <2>1. CASE Skip("market_intelligence") /\ UNCHANGED final
    BY <2>0, <2>1, SkipTypeOK, NodesAre DEF TypeOK
  <2>2. ASSUME NEW code \in {"market_facts_unavailable", "agent_market_intelligence_failed"},
               Block("market_intelligence", code)
        PROVE  TypeOK'
    <3>1. "market_intelligence" \in Nodes /\ code \in WarningCodes
      BY NodesAre DEF WarningCodes
    <3>2. node' \in Nodes \union {"assemble", "answered", "raised"}
      BY <2>0
    <3> QED
      BY <2>0, <2>2, <3>1, <3>2, BlockTypeOK
  <2>3. ASSUME NEW avoided \in SUBSET Categories,
               market' = [known |-> TRUE, avoided |-> avoided],
               trace' = Append(trace, <<"market_intelligence", "finish">>),
               UNCHANGED <<user, basket, review, approved, final, warnings>>
        PROVE  TypeOK'
    <3>1. trace' \in Seq(Nodes \X {"finish", "error", "transition"})
      BY <2>3, AppendTypeOK, NodesAre
    <3> QED
      BY <2>0, <2>3, <3>1 DEF TypeOK, request
  <2> QED
    BY <1>2, <2>1, <2>2, <2>3 DEF MarketIntelligence
<1>3. CASE ProductMatchExpert
  <2> DEFINE plan == RetrievalPlan(pool, user, market)
  <2>0. UNCHANGED <<request, response>> /\ node' \in Nodes
    BY <1>3, NodesAre DEF ProductMatchExpert, TakePlan, TakeSelection
  <2>1. plan \subseteq Products
    BY DEF RetrievalPlan, TypeOK
  <2>2. CASE Skip("product_match_expert") /\ UNCHANGED final
    BY <2>0, <2>2, SkipTypeOK, NodesAre DEF TypeOK
  <2>3. ASSUME NEW code \in {"agent_product_match_failed", "agent_product_match_invalid_output"},
               Block("product_match_expert", code)
        PROVE  TypeOK'
    <3>1. "product_match_expert" \in Nodes /\ code \in WarningCodes
      BY NodesAre DEF WarningCodes
    <3>2. node' \in Nodes \union {"assemble", "answered", "raised"}
      BY <2>0
    <3> QED
      BY <2>0, <2>3, <3>1, <3>2, BlockTypeOK
  <2>4. ASSUME NEW ids \in SUBSET plan, basket' = [known |-> TRUE, products |-> ids],
               NEW added \in SUBSET (Nodes \X WarningCodes), warnings' = warnings \union added,
               NEW s \in {"finish", "error"},
               trace' = Append(trace, <<"product_match_expert", s>>),
               UNCHANGED <<user, market, review, approved, final>>
        PROVE  TypeOK'
    <3>1. trace' \in Seq(Nodes \X {"finish", "error", "transition"})
      BY <2>4, AppendTypeOK, NodesAre
    <3>2. warnings' \in SUBSET (Nodes \X WarningCodes)
      BY <2>4 DEF TypeOK
    <3> QED
      BY <2>0, <2>1, <2>4, <3>1, <3>2 DEF TypeOK, request
  <2>5. "product_match_expert" \in Nodes
    BY NodesAre
  <2>6. ASSUME NEW lost \in SUBSET {<<"product_match_expert", "product_evidence_unavailable">>}
        PROVE  /\ lost \in SUBSET (Nodes \X WarningCodes)
               /\ \A code \in WarningCodes : lost \union {<<"product_match_expert", code>>}
                                         \in SUBSET (Nodes \X WarningCodes)
    <3>1. \A code \in WarningCodes : <<"product_match_expert", code>> \in Nodes \X WarningCodes
      BY <2>5
    <3>2. <<"product_match_expert", "product_evidence_unavailable">> \in Nodes \X WarningCodes
      BY <3>1 DEF WarningCodes
    <3>3. lost \in SUBSET (Nodes \X WarningCodes)
      BY <3>2
    <3> QED
      BY <3>1, <3>3
  <2>7. ASSUME NEW lost \in SUBSET {<<"product_match_expert", "product_evidence_unavailable">>},
               NEW code \in {"agent_product_match_failed", "agent_product_match_invalid_output"},
               warnings' = warnings \union lost \union {<<"product_match_expert", code>>},
               basket' = [known |-> TRUE, products |-> plan],
               trace' = Append(trace, <<"product_match_expert", "error">>),
               UNCHANGED <<user, market, review, approved, final>>
        PROVE  TypeOK'
    <3>1. warnings' = warnings \union (lost \union {<<"product_match_expert", code>>})
      BY <2>7
    <3>2. lost \union {<<"product_match_expert", code>>} \in SUBSET (Nodes \X WarningCodes)
      BY <2>6 DEF WarningCodes
    <3> HIDE DEF plan
    <3>3. plan \in SUBSET plan
      OBVIOUS
    <3> QED
      BY <2>4, <2>7, <3>1, <3>2, <3>3
  <2> QED
    BY <1>3, <2>2, <2>3, <2>4, <2>6, <2>7
    DEF ProductMatchExpert, TakePlan, TakeSelection, WarningCodes
<1>4. CASE ComplianceRiskOfficer
  <2>0. /\ UNCHANGED <<request, response>>
        /\ node' \in Nodes \union {"assemble", "answered", "raised"}
    BY <1>4, NodesAre DEF ComplianceRiskOfficer
  <2>1. CASE Skip("compliance_risk_officer") /\ UNCHANGED final
    BY <2>0, <2>1, SkipTypeOK, NodesAre DEF TypeOK
  <2>2. ASSUME NEW code \in WarningCodes, Block("compliance_risk_officer", code)
        PROVE  TypeOK'
    <3>1. "compliance_risk_officer" \in Nodes
      BY NodesAre
    <3> QED
      BY <2>0, <2>2, <3>1, BlockTypeOK
  <2>3. ASSUME NEW verdict \in Verdicts, NEW ids \in SUBSET Products,
               NEW source \in {"agent", "static"},
               review' = [verdict |-> verdict, source |-> source], approved' = ids,
               basket' = [basket EXCEPT !.products = Filtered(verdict, @, ids)],
               NEW added \in SUBSET (Nodes \X WarningCodes), warnings' = warnings \union added,
               NEW s \in {"finish", "error"},
               trace' = Append(trace, <<"compliance_risk_officer", s>>),
               UNCHANGED <<user, market, final>>
        PROVE  TypeOK'
    <3>1. trace' \in Seq(Nodes \X {"finish", "error", "transition"})
      BY <2>3, AppendTypeOK, NodesAre
    <3>2. warnings' \in SUBSET (Nodes \X WarningCodes)
      BY <2>3 DEF TypeOK
    <3>3. basket' \in [known: BOOLEAN, products: SUBSET Products]
      BY <2>3 DEF TypeOK, Filtered
    <3> QED
      BY <2>0, <2>3, <3>1, <3>2, <3>3 DEF TypeOK, request
  <2>4. ASSUME NEW code \in WarningCodes, StaticFallback(code)
        PROVE  TypeOK'
    <3>1. {<<"compliance_risk_officer", code>>} \in SUBSET (Nodes \X WarningCodes)
      BY NodesAre
    <3>2. StaticVerdict(user, basket.products) \in Verdicts
      BY DEF StaticVerdict, Verdicts
    <3>3. StaticApproved(user, basket.products) \in SUBSET Products
      BY DEF StaticApproved, TypeOK
    <3> QED
      BY <2>3, <2>4, <3>1, <3>2, <3>3 DEF StaticFallback
  <2>5. ASSUME NEW verdict \in Verdicts, NEW ids \in SUBSET pool,
               NEW lost \in SUBSET {<<"compliance_risk_officer", "compliance_evidence_unavailable">>},
               AdoptReview(verdict, ids, lost)
        PROVE  TypeOK'
    <3>1. lost \in SUBSET (Nodes \X WarningCodes)
      <4>1. <<"compliance_risk_officer", "compliance_evidence_unavailable">> \in Nodes \X WarningCodes
        BY NodesAre DEF WarningCodes
      <4> QED
        BY <4>1
    <3>2. ids \in SUBSET Products
      BY DEF TypeOK
    <3> QED
      BY <2>3, <2>5, <3>1, <3>2 DEF AdoptReview
  <2>6. CASE UNCHANGED <<user, market, basket, review, approved, final, warnings, trace>>
    BY <2>0, <2>6 DEF TypeOK, request
  <2>7. \/ Skip("compliance_risk_officer") /\ UNCHANGED final
        \/ \E code \in WarningCodes : \/ Block("compliance_risk_officer", code)
                               \/ StaticFallback(code)
        \/ \E verdict \in Verdicts, ids \in SUBSET pool,
              lost \in SUBSET {<<"compliance_risk_officer", "compliance_evidence_unavailable">>} :
             AdoptReview(verdict, ids, lost)
        \/ UNCHANGED <<user, market, basket, review, approved, final, warnings, trace>>
    BY <1>4 DEF ComplianceRiskOfficer, WarningCodes
  <2> QED
    BY <2>1, <2>2, <2>4, <2>5, <2>6, <2>7
<1>5. CASE ManagerCoordinator
  <2>0. /\ UNCHANGED <<request, response>>
        /\ node' \in Nodes \union {"assemble", "answered", "raised"}
    BY <1>5 DEF ManagerCoordinator
  <2>1. CASE Skip("manager_coordinator")
             /\ final' = IF final = "none" THEN "blocked" ELSE final
    BY <2>0, <2>1, SkipTypeOK, NodesAre DEF TypeOK
  <2>2. CASE Block("manager_coordinator", "agent_manager_coordinator_failed")
    <3>1. "manager_coordinator" \in Nodes /\ "agent_manager_coordinator_failed" \in WarningCodes
      BY NodesAre DEF WarningCodes
    <3> QED
      BY <2>0, <2>2, <3>1, BlockTypeOK
  <2>3. ASSUME NEW requested \in {"ready", "limited", "blocked"},
               final' = ManagerStatus(review.verdict, requested),
               trace' = Append(trace, <<"manager_coordinator", "finish">>),
               UNCHANGED <<user, market, basket, review, approved, warnings>>
        PROVE  TypeOK'
    <3>1. trace' \in Seq(Nodes \X {"finish", "error", "transition"})
      BY <2>3, AppendTypeOK, NodesAre
    <3>2. final' \in {"ready", "limited", "blocked"}
      BY <2>3 DEF ManagerStatus
    <3> QED
      BY <2>0, <2>3, <3>1, <3>2 DEF TypeOK, request
  <2> QED
    BY <1>5, <2>1, <2>2, <2>3 DEF ManagerCoordinator
<1>6. CASE Assemble
  <2>1. profile \in AllProfiles
    BY CatalogAssumption DEF TypeOK
  <2>2. \A available : /\ Rebalance(BaseAllocations[profile], available) \in [Categories -> Nat]
                       /\ Rebalance(AggressiveAllocations[profile], available)
                            \in [Categories -> Nat]
    BY <2>1, AllocationsType, RebalanceType
  <2>3. RawSections \in [Categories -> SUBSET Products]
    BY DEF RawSections, TypeOK
  <2>4. UNCHANGED <<request, user, market, basket, review, approved, final, warnings, trace>>
        /\ node' = "answered"
    BY <1>6 DEF Assemble
  <2>5. /\ response'.status \in {"none", "ready", "limited", "blocked"}
        /\ response'.sections \in [Categories -> SUBSET Products]
        /\ response'.allocation \in [Categories -> Nat]
        /\ response'.aggressive \in [Categories -> Nat]
        /\ response'.complianceShown \in BOOLEAN
    BY <1>6, <2>2, <2>3 DEF Assemble, TypeOK
  <2> QED
    BY <2>4, <2>5 DEF TypeOK, request
<1>7. CASE UNCHANGED vars
  BY <1>7 DEF vars, TypeOK
<1> QED
  BY <1>1, <1>2, <1>3, <1>4, <1>5, <1>6, <1>7 DEF Next

\* Type correctness, for every catalogue.
THEOREM TypeCorrect == Spec => []TypeOK
<1>1. Init => TypeOK
  BY InitTypeOK
<1>2. TypeOK /\ [Next]_vars => TypeOK'
  BY NextTypeOK
<1> QED
  BY <1>1, <1>2, PTL DEF Spec

-----------------------------------------------------------------------------
(* The stages.                                                             *)

LEMMA InitStageInv == Init => StageInv
BY NodesAre DEF Init, StageInv, StageTrace, StageBasket, StageReview, StageFinal,
                StageTrail, EventsBefore, Blocked, Tiers

\* Which stage each action runs in, and what it appends to the trace.
LEMMA Stages ==
  ASSUME TypeOK, Next
  PROVE  \/ /\ node = "user_profile_analyst" /\ node' = "market_intelligence"
            /\ \E s \in {"finish", "error", "transition"} :
                 trace' = Append(trace, <<"user_profile_analyst", s>>)
            /\ UNCHANGED <<request, response>>
         \/ /\ node = "market_intelligence" /\ node' = "product_match_expert"
            /\ \E s \in {"finish", "error", "transition"} :
                 trace' = Append(trace, <<"market_intelligence", s>>)
            /\ UNCHANGED <<request, response>>
         \/ /\ node = "product_match_expert" /\ node' = "compliance_risk_officer"
            /\ \E s \in {"finish", "error", "transition"} :
                 trace' = Append(trace, <<"product_match_expert", s>>)
            /\ UNCHANGED <<request, response>>
         \/ /\ node = "compliance_risk_officer" /\ node' = "manager_coordinator"
            /\ \E s \in {"finish", "error", "transition"} :
                 trace' = Append(trace, <<"compliance_risk_officer", s>>)
            /\ UNCHANGED <<request, response>>
         \/ /\ node = "compliance_risk_officer" /\ node' = "raised"
            /\ UNCHANGED <<request, response, user, market, basket, review, approved,
                          final, warnings, trace>>
         \/ /\ node = "manager_coordinator" /\ node' = "assemble"
            /\ \E s \in {"finish", "error", "transition"} :
                 trace' = Append(trace, <<"manager_coordinator", s>>)
            /\ UNCHANGED <<request, response>>
         \/ /\ node = "assemble" /\ node' = "answered"
            /\ UNCHANGED <<request, user, market, basket, review, approved, final,
                          warnings, trace>>
<1>1. CASE UserProfileAnalyst
  BY <1>1 DEF UserProfileAnalyst, Block
<1>2. CASE MarketIntelligence
  BY <1>2 DEF MarketIntelligence, Block, Skip
<1>3. CASE ProductMatchExpert
  BY <1>3 DEF ProductMatchExpert, TakePlan, TakeSelection, Block, Skip
<1>4. CASE ComplianceRiskOfficer
  BY <1>4 DEF ComplianceRiskOfficer, Block, Skip, StaticFallback, AdoptReview
<1>5. CASE ManagerCoordinator
  BY <1>5 DEF ManagerCoordinator, Block, Skip
<1>6. CASE Assemble
  BY <1>6 DEF Assemble
<1> QED
  BY <1>1, <1>2, <1>3, <1>4, <1>5, <1>6 DEF Next

LEMMA StageTraceStep == TypeOK /\ StageTrace /\ [Next]_vars => StageTrace'
<1> SUFFICES ASSUME TypeOK, StageTrace, [Next]_vars PROVE StageTrace'
  OBVIOUS
<1>1. CASE UNCHANGED vars
  BY <1>1 DEF vars, StageTrace
<1>2. CASE Next
  <2>1. \A n \in Nodes, s \in {"finish", "error", "transition"} :
          Len(Append(trace, <<n, s>>)) = Len(trace) + 1
    BY DEF TypeOK
  <2>2. Len(trace) \in Nat
    BY DEF TypeOK
  <2>3. node' \in Nodes => Len(trace') = EventsBefore[node']
    BY <1>2, <2>1, <2>2, Stages, NodesAre DEF StageTrace, EventsBefore
  <2>4. node' # "answered" => response' = NoResponse
    BY <1>2, Stages DEF StageTrace
  <2> QED
    BY <2>3, <2>4 DEF StageTrace
<1> QED
  BY <1>1, <1>2

LEMMA StageBasketStep == TypeOK /\ StageBasket /\ [Next]_vars => StageBasket'
<1> SUFFICES ASSUME TypeOK, StageBasket, [Next]_vars PROVE StageBasket'
  OBVIOUS
<1>1. CASE UserProfileAnalyst
  BY <1>1 DEF UserProfileAnalyst, Block, StageBasket
<1>2. CASE MarketIntelligence
  BY <1>2 DEF MarketIntelligence, Block, Skip, StageBasket
<1>3. CASE ProductMatchExpert
  BY <1>3 DEF ProductMatchExpert, TakePlan, TakeSelection, StageBasket
<1>4. CASE ComplianceRiskOfficer
  BY <1>4 DEF ComplianceRiskOfficer, StageBasket
<1>5. CASE ManagerCoordinator
  BY <1>5 DEF ManagerCoordinator, StageBasket
<1>6. CASE Assemble
  BY <1>6 DEF Assemble, StageBasket
<1>7. CASE UNCHANGED vars
  BY <1>7 DEF vars, StageBasket
<1> QED
  BY <1>1, <1>2, <1>3, <1>4, <1>5, <1>6, <1>7 DEF Next

LEMMA StageReviewStep == TypeOK /\ StageReview /\ StageFinal /\ [Next]_vars => StageReview'
<1> SUFFICES ASSUME TypeOK, StageReview, StageFinal, [Next]_vars PROVE StageReview'
  OBVIOUS
<1> USE NodesAre DEF StageReview
<1>1. CASE UserProfileAnalyst
  BY <1>1 DEF UserProfileAnalyst, Block
<1>2. CASE MarketIntelligence
  BY <1>2 DEF MarketIntelligence, Block, Skip
<1>3. CASE ProductMatchExpert
  <2>1. /\ node' = "compliance_risk_officer"
        /\ node = "product_match_expert"
        /\ approved' = approved
        /\ \/ UNCHANGED review
           \/ review' = [verdict |-> "block", source |-> "failure"]
    BY <1>3 DEF ProductMatchExpert, TakePlan, TakeSelection, Block, Skip
  <2>2. review.verdict # "revise_conservative"
    BY <2>1 DEF TypeOK
  <2> QED
    BY <2>1, <2>2
<1>4. CASE ComplianceRiskOfficer
  <2>1. CASE Skip("compliance_risk_officer") /\ Blocked
    BY <1>4, <2>1 DEF ComplianceRiskOfficer, Skip, Blocked, StageFinal
  <2>2. CASE \E code \in WarningCodes : StaticFallback(code)
    BY <1>4, <2>2 DEF ComplianceRiskOfficer, StaticFallback, StaticVerdict, Filtered
  <2>3. CASE \E code \in WarningCodes : Block("compliance_risk_officer", code)
    BY <1>4, <2>3 DEF ComplianceRiskOfficer, Block
  <2>4. CASE \E verdict \in Verdicts, ids \in SUBSET pool,
                lost \in SUBSET {<<"compliance_risk_officer",
                                   "compliance_evidence_unavailable">>} :
               AdoptReview(verdict, ids, lost)
    BY <1>4, <2>4 DEF ComplianceRiskOfficer, AdoptReview, Filtered, Verdicts
  <2>5. CASE node' = "raised" /\ UNCHANGED <<basket, review, approved>>
    BY <1>4, <2>5
  <2> QED
    BY <1>4, <2>1, <2>2, <2>3, <2>4, <2>5 DEF ComplianceRiskOfficer, WarningCodes
<1>5. CASE ManagerCoordinator
  BY <1>5 DEF ManagerCoordinator, Block, Skip
<1>6. CASE Assemble
  BY <1>6 DEF Assemble
<1>7. CASE UNCHANGED vars
  BY <1>7 DEF vars
<1> QED
  BY <1>1, <1>2, <1>3, <1>4, <1>5, <1>6, <1>7 DEF Next

LEMMA StageFinalStep == TypeOK /\ StageReview /\ StageFinal /\ [Next]_vars => StageFinal'
<1> SUFFICES ASSUME TypeOK, StageReview, StageFinal, [Next]_vars PROVE StageFinal'
  OBVIOUS
<1> USE NodesAre DEF StageFinal, Blocked
<1>1. CASE UserProfileAnalyst
  BY <1>1 DEF UserProfileAnalyst, Block
<1>2. CASE MarketIntelligence
  BY <1>2 DEF MarketIntelligence, Block, Skip
<1>3. CASE ProductMatchExpert
  BY <1>3 DEF ProductMatchExpert, TakePlan, TakeSelection, Block, Skip
<1>4. CASE ComplianceRiskOfficer
  BY <1>4 DEF ComplianceRiskOfficer, Block, Skip, StaticFallback, AdoptReview
<1>5. CASE ManagerCoordinator
  BY <1>5 DEF ManagerCoordinator, Block, Skip, ManagerStatus
<1>6. CASE Assemble
  BY <1>6 DEF Assemble
<1>7. CASE UNCHANGED vars
  BY <1>7 DEF vars
<1> QED
  BY <1>1, <1>2, <1>3, <1>4, <1>5, <1>6, <1>7 DEF Next

LEMMA AppendElements ==
  ASSUME TypeOK, NEW n \in Nodes, NEW s \in {"finish", "error", "transition"},
         trace' = Append(trace, <<n, s>>)
  PROVE  /\ Len(trace) = 1 => trace'[2] = <<n, s>>
         /\ Len(trace) = 2 => trace'[2] = trace[2] /\ trace'[3] = <<n, s>>
         /\ Len(trace) = 3 => /\ trace'[2] = trace[2] /\ trace'[3] = trace[3]
                              /\ trace'[4] = <<n, s>>
         /\ Len(trace) = 4 => /\ trace'[2] = trace[2] /\ trace'[3] = trace[3]
                              /\ trace'[4] = trace[4] /\ trace'[5] = <<n, s>>
<1>1. trace \in Seq(Nodes \X {"finish", "error", "transition"})
  BY DEF TypeOK
<1>2. <<n, s>> \in Nodes \X {"finish", "error", "transition"}
  OBVIOUS
<1>3. /\ \A i \in 1..Len(trace) : trace'[i] = trace[i]
      /\ trace'[Len(trace) + 1] = <<n, s>>
  BY <1>1, <1>2
<1>4. ASSUME Len(trace) = 1
      PROVE  trace'[2] = <<n, s>>
  BY <1>3, <1>4
<1>5. ASSUME Len(trace) = 2
      PROVE  trace'[2] = trace[2] /\ trace'[3] = <<n, s>>
  <2>1. 2 \in 1..Len(trace)
    BY <1>5
  <2>2. trace'[2] = trace[2]
    BY <1>3, <2>1
  <2>3. Len(trace) + 1 = 3
    BY <1>5
  <2>4. trace'[3] = <<n, s>>
    BY <1>3, <2>3
  <2> QED
    BY <2>2, <2>4
<1>6. ASSUME Len(trace) = 3
      PROVE  /\ trace'[2] = trace[2] /\ trace'[3] = trace[3]
             /\ trace'[4] = <<n, s>>
  <2>1. 2 \in 1..Len(trace) /\ 3 \in 1..Len(trace)
    BY <1>6
  <2>2. trace'[2] = trace[2] /\ trace'[3] = trace[3]
    BY <1>3, <2>1
  <2>3. Len(trace) + 1 = 4
    BY <1>6
  <2>4. trace'[4] = <<n, s>>
    BY <1>3, <2>3
  <2> QED
    BY <2>2, <2>4
<1>7. ASSUME Len(trace) = 4
      PROVE  /\ trace'[2] = trace[2] /\ trace'[3] = trace[3]
             /\ trace'[4] = trace[4] /\ trace'[5] = <<n, s>>
  <2>1. 2 \in 1..Len(trace) /\ 3 \in 1..Len(trace) /\ 4 \in 1..Len(trace)
    BY <1>7
  <2>2. trace'[2] = trace[2] /\ trace'[3] = trace[3] /\ trace'[4] = trace[4]
    BY <1>3, <2>1
  <2>3. Len(trace) + 1 = 5
    BY <1>7
  <2>4. trace'[5] = <<n, s>>
    BY <1>3, <2>3
  <2> QED
    BY <2>2, <2>4
<1> QED
  BY <1>4, <1>5, <1>6, <1>7

LEMMA StageTrailStep ==
  TypeOK /\ StageTrace /\ StageReview /\ StageFinal /\ StageTrail /\ [Next]_vars => StageTrail'
<1> SUFFICES ASSUME TypeOK, StageTrace, StageReview, StageFinal, StageTrail, [Next]_vars
             PROVE  StageTrail'
  OBVIOUS
<1>0. {"market_intelligence", "product_match_expert", "compliance_risk_officer",
       "manager_coordinator"} \subseteq Nodes
  BY NodesAre
<1>a. /\ node = "market_intelligence" => Len(trace) = 1
      /\ node = "product_match_expert" => Len(trace) = 2
      /\ node = "compliance_risk_officer" => Len(trace) = 3
      /\ node = "manager_coordinator" => Len(trace) = 4
  <2>1. node \in Nodes => Len(trace) = EventsBefore[node]
    BY DEF StageTrace
  <2>2. /\ EventsBefore["market_intelligence"] = 1
        /\ EventsBefore["product_match_expert"] = 2
        /\ EventsBefore["compliance_risk_officer"] = 3
        /\ EventsBefore["manager_coordinator"] = 4
    BY DEF EventsBefore
  <2> QED
    BY <1>0, <2>1, <2>2
<1>1. CASE UserProfileAnalyst
  <2>1. node' = "market_intelligence"
    BY <1>1 DEF UserProfileAnalyst
  <2> QED
    BY <2>1 DEF StageTrail
<1>2. CASE MarketIntelligence
  <2>1. CASE Blocked'
    BY <1>2, <2>1 DEF MarketIntelligence, StageTrail
  <2>2. CASE ~Blocked'
    <3>1. trace' = Append(trace, <<"market_intelligence", "finish">>)
      BY <1>2, <2>2 DEF MarketIntelligence, Blocked, Block, Skip
    <3>0. node = "market_intelligence" /\ node' = "product_match_expert"
      BY <1>2 DEF MarketIntelligence
    <3>2. trace'[2] = <<"market_intelligence", "finish">>
      BY <1>0, <1>a, <3>0, <3>1, AppendElements
    <3> QED
      BY <3>0, <3>2 DEF StageTrail, NodeOrder
  <2> QED
    BY <2>1, <2>2
<1>3. CASE ProductMatchExpert
  <2>1. CASE Blocked'
    BY <1>3, <2>1 DEF ProductMatchExpert, TakePlan, TakeSelection, StageTrail
  <2>2. CASE ~Blocked'
    <3>1. /\ ~Blocked
          /\ \/ trace' = Append(trace, <<"product_match_expert", "finish">>)
             \/ /\ trace' = Append(trace, <<"product_match_expert", "error">>)
                /\ warnings' # {}
      BY <1>3, <2>2 DEF ProductMatchExpert, TakePlan, TakeSelection,
          Blocked, Block, Skip
    <3>0. node = "product_match_expert" /\ node' = "compliance_risk_officer"
      BY <1>3 DEF ProductMatchExpert, TakePlan, TakeSelection
    <3>2. trace[2] = <<"market_intelligence", "finish">>
      BY <3>0, <3>1 DEF StageTrail, NodeOrder
    <3>3. trace'[2] = trace[2]
      BY <1>0, <1>a, <3>0, <3>1, AppendElements
    <3>4. warnings' = {} => trace'[3] = <<"product_match_expert", "finish">>
      BY <1>0, <1>a, <3>0, <3>1, AppendElements
    <3> QED
      BY <3>0, <3>2, <3>3, <3>4 DEF StageTrail, NodeOrder
  <2> QED
    BY <2>1, <2>2
<1>4. CASE ComplianceRiskOfficer
  <2>1. CASE Blocked' \/ node' = "raised"
    BY <1>4, <2>1 DEF StageTrail
  <2>2. CASE ~Blocked' /\ node' = "manager_coordinator"
    <3>0. ~Blocked
      BY <1>4, <2>2 DEF ComplianceRiskOfficer, Blocked, Skip
    <3>a. node = "compliance_risk_officer"
      BY <1>4 DEF ComplianceRiskOfficer
    <3>1. \/ /\ trace' = Append(trace, <<"compliance_risk_officer", "finish">>)
             /\ review'.source = "agent"
             /\ warnings \subseteq warnings'
          \/ /\ trace' = Append(trace, <<"compliance_risk_officer", "error">>)
             /\ warnings' # {}
      <4>1. CASE \E code : StaticFallback(code)
        BY <4>1 DEF StaticFallback
      <4>2. CASE \E verdict, ids, lost : AdoptReview(verdict, ids, lost)
        BY <4>2 DEF AdoptReview
      <4>3. ~ \E code \in WarningCodes : Block("compliance_risk_officer", code)
        BY <2>2 DEF Blocked, Block
      <4> QED
        BY <1>4, <2>2, <3>0, <4>1, <4>2, <4>3 DEF ComplianceRiskOfficer, WarningCodes
    <3>2. trace[2] = <<"market_intelligence", "finish">>
      BY <3>0, <3>a DEF StageTrail, NodeOrder
    <3>3. trace'[2] = trace[2] /\ trace'[3] = trace[3]
      BY <1>0, <1>a, <3>a, <3>1, AppendElements
    <3>4. warnings' = {} => /\ trace'[4] = <<"compliance_risk_officer", "finish">>
                            /\ review'.source = "agent"
                            /\ warnings = {}
      BY <1>0, <1>a, <3>a, <3>1, AppendElements
    <3>5. warnings = {} => trace[3] = <<"product_match_expert", "finish">>
      BY <3>0, <3>a DEF StageTrail, NodeOrder
    <3> QED
      BY <2>2, <3>2, <3>3, <3>4, <3>5 DEF StageTrail, NodeOrder
  <2> QED
    BY <1>4, <2>1, <2>2 DEF ComplianceRiskOfficer
<1>5. CASE ManagerCoordinator
  <2>1. CASE Blocked'
    BY <2>1 DEF StageTrail
  <2>2. CASE ~Blocked'
    <3>1. /\ ~Blocked
          /\ trace' = Append(trace, <<"manager_coordinator", "finish">>)
          /\ UNCHANGED <<review, warnings>>
          /\ node = "manager_coordinator"
          /\ node' = "assemble"
      BY <1>5, <2>2 DEF ManagerCoordinator, Blocked, Block, Skip
    <3>2. /\ trace'[2] = trace[2] /\ trace'[3] = trace[3] /\ trace'[4] = trace[4]
          /\ trace'[5] = <<"manager_coordinator", "finish">>
      BY <1>0, <1>a, <3>1, AppendElements
    <3>3. warnings = {} => /\ review.source = "agent"
                           /\ trace[2] = <<"market_intelligence", "finish">>
                           /\ trace[3] = <<"product_match_expert", "finish">>
                           /\ trace[4] = <<"compliance_risk_officer", "finish">>
      BY <3>1 DEF StageTrail, NodeOrder
    <3>4. warnings' = {} => \A i \in 2..5 : trace'[i] = <<NodeOrder[i], "finish">>
      <4>1. warnings = warnings'
        BY <3>1
      <4>2. /\ NodeOrder[2] = "market_intelligence" /\ NodeOrder[3] = "product_match_expert"
            /\ NodeOrder[4] = "compliance_risk_officer" /\ NodeOrder[5] = "manager_coordinator"
        BY DEF NodeOrder
      <4>3. warnings' = {} => /\ trace'[2] = <<NodeOrder[2], "finish">>
                              /\ trace'[3] = <<NodeOrder[3], "finish">>
                              /\ trace'[4] = <<NodeOrder[4], "finish">>
                              /\ trace'[5] = <<NodeOrder[5], "finish">>
        BY <3>2, <3>3, <4>1, <4>2
      <4> QED
        BY <4>3
    <3> QED
      BY <3>1, <3>3, <3>4 DEF StageTrail
  <2> QED
    BY <2>1, <2>2
<1>6. CASE Assemble
  BY <1>6 DEF Assemble, StageTrail, Blocked
<1>7. CASE UNCHANGED vars
  BY <1>7 DEF vars, StageTrail, Blocked
<1> QED
  BY <1>1, <1>2, <1>3, <1>4, <1>5, <1>6, <1>7 DEF Next

\* The stages of the pipeline, for every catalogue and every agent.
THEOREM StagesHold == Spec => []StageInv
<1>1. Init => TypeOK /\ StageInv
  BY InitTypeOK, InitStageInv
<1>2. TypeOK /\ StageInv /\ [Next]_vars => (TypeOK /\ StageInv)'
  BY NextTypeOK, StageTraceStep, StageBasketStep, StageReviewStep, StageFinalStep,
     StageTrailStep DEF StageInv
<1> QED
  BY <1>1, <1>2, PTL DEF Spec

-----------------------------------------------------------------------------
(* Delivery: nothing outside the retrieval plan reaches the answer.        *)

LEMMA DeliveredStep ==
  TypeOK /\ StageTrace /\ StageBasket /\ DeliveredWithinPlan /\ [Next]_vars => DeliveredWithinPlan'
<1> SUFFICES ASSUME TypeOK, StageTrace, StageBasket, DeliveredWithinPlan, [Next]_vars
             PROVE  DeliveredWithinPlan'
  OBVIOUS
<1> USE DEF DeliveredWithinPlan
<1>0. \A c \in Categories : NoResponse.sections[c] = {}
  BY DEF NoResponse
<1>1. CASE UserProfileAnalyst
  <2>1. basket'.products = {} /\ UNCHANGED response
    BY <1>1 DEF UserProfileAnalyst, Block, StageBasket
  <2>2. response = NoResponse
    BY <1>1 DEF UserProfileAnalyst, StageTrace
  <2> QED
    BY <1>0, <2>1, <2>2
<1>2. CASE MarketIntelligence
  <2>1. basket'.products = {} /\ UNCHANGED response
    BY <1>2 DEF MarketIntelligence, Block, Skip, StageBasket
  <2>2. response = NoResponse
    BY <1>2 DEF MarketIntelligence, StageTrace
  <2> QED
    BY <1>0, <2>1, <2>2
<1>3. CASE ProductMatchExpert
  <2>1. response' = NoResponse
    BY <1>3 DEF ProductMatchExpert, TakePlan, TakeSelection, StageTrace
  <2>2. UNCHANGED <<pool, user, market>>
    BY <1>3 DEF ProductMatchExpert, TakePlan, TakeSelection, Block, Skip, request
  <2>3. \/ UNCHANGED basket
        \/ basket'.products \subseteq RetrievalPlan(pool, user, market)
    BY <1>3 DEF ProductMatchExpert, TakePlan, TakeSelection, Block, Skip
  <2>4. RetrievalPlan(pool, user, market)' = RetrievalPlan(pool, user, market)
    BY <2>2 DEF RetrievalPlan
  <2> QED
    BY <1>0, <2>1, <2>3, <2>4
<1>4. CASE ComplianceRiskOfficer
  <2>1. response' = NoResponse
    BY <1>4 DEF ComplianceRiskOfficer, StageTrace
  <2>2. UNCHANGED <<pool, user, market>>
    BY <1>4 DEF ComplianceRiskOfficer, Block, Skip, StaticFallback, AdoptReview, request
  <2>3. basket'.products \subseteq basket.products
    BY <1>4 DEF ComplianceRiskOfficer, Block, Skip, StaticFallback, AdoptReview, Filtered, TypeOK
  <2>4. RetrievalPlan(pool, user, market)' = RetrievalPlan(pool, user, market)
    BY <2>2 DEF RetrievalPlan
  <2> QED
    BY <1>0, <2>1, <2>3, <2>4
<1>5. CASE ManagerCoordinator
  <2>1. UNCHANGED <<pool, user, market, basket, response>>
    BY <1>5 DEF ManagerCoordinator, Block, Skip, request
  <2> QED
    BY <2>1 DEF RetrievalPlan
<1>6. CASE Assemble
  <2>1. UNCHANGED <<pool, user, market, basket>>
    BY <1>6 DEF Assemble, request
  <2>2. \A c \in Categories : RawSections[c] \subseteq basket.products
    BY DEF RawSections
  <2>3. \A c \in Categories : response'.sections[c] \subseteq basket.products
    BY <1>6, <2>2 DEF Assemble
  <2> QED
    BY <2>1, <2>3 DEF RetrievalPlan
<1>7. CASE UNCHANGED vars
  BY <1>7 DEF vars, RetrievalPlan
<1> QED
  BY <1>1, <1>2, <1>3, <1>4, <1>5, <1>6, <1>7 DEF Next

\* Whatever the agents answer and whichever of them fails, only products that
\* the retrieval plan kept are delivered.
THEOREM DeliveryWithinPlan == Spec => []DeliveredWithinPlan
<1>1. Init => DeliveredWithinPlan
  BY DEF Init, DeliveredWithinPlan, NoResponse
<1> QED
  BY <1>1, DeliveredStep, TypeCorrect, StagesHold, PTL DEF Spec, StageInv

-----------------------------------------------------------------------------
(* The static compliance review.                                           *)

\* What StaticVerdict approves is what StaticApproved keeps, and what a
\* revision keeps passes the rules again.
LEMMA StaticFilterSound ==
  ASSUME NEW u \in [known: BOOLEAN, tier: Tiers, high: BOOLEAN],
         NEW candidates \in SUBSET Products
  PROVE  LET kept == Filtered(StaticVerdict(u, candidates), candidates,
                              StaticApproved(u, candidates))
         IN kept = StaticApproved(u, kept)
<1>0. StaticApproved(u, candidates) \subseteq candidates
  BY DEF StaticApproved
<1>1. CASE StaticVerdict(u, candidates) = "approve"
  <2>1. /\ u.tier # 0
        /\ \A p \in candidates : Risk[p] # 0 /\ ~(Risk[p] > u.tier)
        /\ LiquidityGuardrail(u) => \A p \in candidates : Liquid[p]
    BY <1>1 DEF StaticVerdict
  <2>2. u.tier \in 0..5 /\ \A p \in candidates : Risk[p] \in 0..5
    BY CatalogAssumption DEF Tiers
  <2>3. \A p \in candidates : Risk[p] \in 1..u.tier
    BY <2>1, <2>2
  <2>4. StaticApproved(u, candidates) = candidates
    BY <2>1, <2>3 DEF StaticApproved
  <2> QED
    BY <1>1, <2>4 DEF Filtered
<1>2. CASE StaticVerdict(u, candidates) # "approve"
  BY <1>0, <1>2 DEF Filtered, StaticApproved
<1> QED
  BY <1>1, <1>2

LEMMA StaticStep ==
  TypeOK /\ StageReview /\ StaticReviewSuitable /\ [Next]_vars => StaticReviewSuitable'
<1> SUFFICES ASSUME TypeOK, StageReview, StaticReviewSuitable, [Next]_vars
             PROVE  StaticReviewSuitable'
  OBVIOUS
<1> USE NodesAre DEF StaticReviewSuitable
<1>1. CASE UserProfileAnalyst
  <2>1. review'.source # "static"
    BY <1>1 DEF UserProfileAnalyst, Block, StageReview
  <2> QED
    BY <2>1
<1>2. CASE MarketIntelligence
  <2>1. review'.source # "static"
    BY <1>2 DEF MarketIntelligence, Block, Skip, StageReview
  <2> QED
    BY <2>1
<1>3. CASE ProductMatchExpert
  <2>1. review'.source # "static"
    BY <1>3 DEF ProductMatchExpert, TakePlan, TakeSelection, Block, Skip, StageReview
  <2> QED
    BY <2>1
<1>4. CASE ComplianceRiskOfficer
  <2>1. CASE \E code \in WarningCodes : StaticFallback(code)
    <3>1. basket'.products = Filtered(StaticVerdict(user, basket.products), basket.products,
                                      StaticApproved(user, basket.products))
      BY <2>1 DEF StaticFallback, TypeOK
    <3>2. user' = user
      BY <2>1 DEF StaticFallback
    <3>3. user \in [known: BOOLEAN, tier: Tiers, high: BOOLEAN]
          /\ basket.products \in SUBSET Products
      BY DEF TypeOK
    <3>4. basket'.products = StaticApproved(user, basket'.products)
      BY <3>1, <3>3, StaticFilterSound
    <3> QED
      BY <3>2, <3>4 DEF StaticApproved, LiquidityGuardrail
  <2>2. CASE ~ \E code \in WarningCodes : StaticFallback(code)
    <3>1. review'.source # "static"
      BY <1>4, <2>2
      DEF ComplianceRiskOfficer, Block, Skip, AdoptReview, StageReview, WarningCodes
    <3> QED
      BY <3>1
  <2> QED
    BY <2>1, <2>2
<1>5. CASE ManagerCoordinator
  <2>1. \/ review'.source = "failure"
        \/ UNCHANGED <<user, basket, review>>
    BY <1>5 DEF ManagerCoordinator, Block, Skip
  <2> QED
    BY <2>1 DEF StaticApproved, LiquidityGuardrail
<1>6. CASE Assemble
  <2>1. UNCHANGED <<user, basket, review>>
    BY <1>6 DEF Assemble
  <2> QED
    BY <2>1 DEF StaticApproved, LiquidityGuardrail
<1>7. CASE UNCHANGED vars
  BY <1>7 DEF vars, StaticApproved, LiquidityGuardrail
<1> QED
  BY <1>1, <1>2, <1>3, <1>4, <1>5, <1>6, <1>7 DEF Next

\* A basket released by the static rules passes them all.
THEOREM StaticSuitability == Spec => []StaticReviewSuitable
<1>1. Init => StaticReviewSuitable
  BY DEF Init, StaticReviewSuitable
<1> QED
  BY <1>1, StaticStep, TypeCorrect, StagesHold, PTL DEF Spec, StageInv

-----------------------------------------------------------------------------
(* Release.                                                                *)

LEMMA ReleasedStep ==
  TypeOK /\ StageInv /\ ReleasedOnlyAfterReview /\ [Next]_vars => ReleasedOnlyAfterReview'
<1> SUFFICES ASSUME TypeOK, StageInv, ReleasedOnlyAfterReview, [Next]_vars
             PROVE  ReleasedOnlyAfterReview'
  OBVIOUS
<1>1. CASE node \in Nodes \ {"manager_coordinator"} /\ Next
  <2>1. node' \in Nodes \/ node' = "raised"
    BY <1>1, Stages, NodesAre
  <2>2. StageFinal'
    BY StageFinalStep DEF StageInv
  <2> QED
    BY <2>1, <2>2 DEF StageFinal, ReleasedOnlyAfterReview
<1>2. CASE ManagerCoordinator
  <2>1. CASE final' \notin {"ready", "limited"}
    BY <2>1 DEF ReleasedOnlyAfterReview
  <2>2. CASE final' \in {"ready", "limited"}
    <3>1. /\ node = "manager_coordinator"
          /\ ~Blocked
          /\ review' = review
          /\ \E requested \in {"ready", "limited", "blocked"} :
               final' = ManagerStatus(review.verdict, requested)
          /\ trace' = Append(trace, <<"manager_coordinator", "finish">>)
      BY <1>2, <2>2, NodesAre DEF ManagerCoordinator, Block, Skip, StageInv, StageFinal
    <3>2. /\ review.verdict \in {"approve", "revise_conservative"}
          /\ review.verdict = "revise_conservative" => final' = "limited"
      BY <2>2, <3>1 DEF ManagerStatus
    <3>3. review.source \in {"agent", "static"}
      BY <3>1, <3>2 DEF StageInv, StageReview, TypeOK
    <3>4. Len(trace) = 4
      <4>1. "manager_coordinator" \in Nodes /\ EventsBefore["manager_coordinator"] = 4
        BY NodesAre DEF EventsBefore
      <4> QED
        BY <3>1, <4>1 DEF StageInv, StageTrace
    <3>5. trace[2] = <<"market_intelligence", "finish">>
      BY <3>1 DEF StageInv, StageTrail, NodeOrder
    <3>6. trace'[2] = trace[2] /\ trace'[5] = <<"manager_coordinator", "finish">>
      BY <3>1, <3>4, AppendElements, NodesAre
    <3> QED
      BY <3>1, <3>2, <3>3, <3>5, <3>6 DEF ReleasedOnlyAfterReview
  <2> QED
    BY <2>1, <2>2
<1>3. CASE Assemble
  BY <1>3 DEF Assemble, ReleasedOnlyAfterReview
<1>4. CASE UNCHANGED vars
  BY <1>4 DEF vars, ReleasedOnlyAfterReview
<1>5. Next => \/ node \in Nodes \ {"manager_coordinator"}
              \/ ManagerCoordinator
              \/ Assemble
  BY NodesAre DEF Next, UserProfileAnalyst, MarketIntelligence,
                  ProductMatchExpert, TakePlan, TakeSelection,
                  ComplianceRiskOfficer
<1> QED
  BY <1>1, <1>2, <1>3, <1>4, <1>5

\* Nothing is released without a review that allows it.
THEOREM ReleaseAfterReview == Spec => []ReleasedOnlyAfterReview
<1>1. Init => ReleasedOnlyAfterReview
  BY DEF Init, ReleasedOnlyAfterReview
<1> QED
  BY <1>1, ReleasedStep, TypeCorrect, StagesHold, PTL DEF Spec

\* A released answer without a warning was selected and reviewed by the agents.
THEOREM UnwarnedReviewed == Spec => []UnwarnedMeansAgentReviewed
<1>1. TypeOK /\ StageInv /\ ReleasedOnlyAfterReview => UnwarnedMeansAgentReviewed
  <2> SUFFICES ASSUME TypeOK, StageInv, ReleasedOnlyAfterReview, node = "answered", warnings = {},
                      response.status # "blocked"
               PROVE  review.source = "agent" /\ \A i \in 2..5 : trace[i][2] = "finish"
    BY DEF UnwarnedMeansAgentReviewed
  <2>1. final \in {"ready", "limited"}
    BY DEF StageInv, StageFinal, TypeOK
  <2>2. CASE ~Blocked
    <3>1. review.source = "agent" /\ \A i \in 2..5 : trace[i] = <<NodeOrder[i], "finish">>
      BY <2>2 DEF StageInv, StageTrail
    <3> QED
      BY <3>1
  <2>3. CASE Blocked
    BY <2>1, <2>3 DEF Blocked, ReleasedOnlyAfterReview
  <2> QED
    BY <2>2, <2>3
<1> QED
  BY <1>1, TypeCorrect, StagesHold, ReleaseAfterReview, PTL

LEMMA HeldStep ==
  TypeOK /\ StageInv /\ HeldAnswerIsExplained /\ [Next]_vars => HeldAnswerIsExplained'
<1> SUFFICES ASSUME TypeOK, StageInv, HeldAnswerIsExplained, [Next]_vars
             PROVE  HeldAnswerIsExplained'
  OBVIOUS
<1>1. CASE Assemble
  <2>1. /\ final # "none"
        /\ review.verdict # "none"
        /\ UNCHANGED <<final, review>>
        /\ response'.status = final
    BY <1>1 DEF Assemble, StageInv, StageFinal, StageReview
  <2>2. response'.status # "ready" => response'.complianceShown
    BY <1>1, <2>1 DEF Assemble
  <2> QED
    BY <2>1, <2>2 DEF HeldAnswerIsExplained
<1>2. CASE UNCHANGED vars
  BY <1>2 DEF vars, HeldAnswerIsExplained
<1>3. CASE Next /\ ~Assemble
  <2>1. node' # "answered"
    BY <1>3 DEF Next, UserProfileAnalyst, MarketIntelligence,
                ProductMatchExpert, TakePlan, TakeSelection,
                ComplianceRiskOfficer, ManagerCoordinator
  <2> QED
    BY <2>1 DEF HeldAnswerIsExplained
<1> QED
  BY <1>1, <1>2, <1>3

\* What is held back is explained.
THEOREM HeldExplained == Spec => []HeldAnswerIsExplained
<1>1. Init => HeldAnswerIsExplained
  BY DEF Init, HeldAnswerIsExplained
<1> QED
  BY <1>1, HeldStep, TypeCorrect, StagesHold, PTL DEF Spec

\* Every step, of any run, keeps a block and narrows a basket.
LEMMA AfterBlockStep ==
  TypeOK /\ StageInv /\ [Next]_vars =>
    [Blocked => /\ Blocked'
                /\ UNCHANGED <<user, market, basket, review, warnings>>
                /\ trace' = trace \/ trace'[Len(trace')][2] = "transition"]_vars
<1> SUFFICES ASSUME TypeOK, StageInv, Next, Blocked
             PROVE  /\ Blocked'
                    /\ UNCHANGED <<user, market, basket, review, warnings>>
                    /\ trace' = trace \/ trace'[Len(trace')][2] = "transition"
  OBVIOUS
<1>0. \A n \in Nodes : trace' = Append(trace, <<n, "transition">>) =>
                         trace'[Len(trace')][2] = "transition"
  <2> SUFFICES ASSUME NEW n \in Nodes, trace' = Append(trace, <<n, "transition">>)
               PROVE  trace'[Len(trace')][2] = "transition"
    OBVIOUS
  <2>1. trace \in Seq(Nodes \X {"finish", "error", "transition"})
        /\ <<n, "transition">> \in Nodes \X {"finish", "error", "transition"}
    BY DEF TypeOK
  <2>2. Len(trace') = Len(trace) + 1 /\ trace'[Len(trace) + 1] = <<n, "transition">>
    BY <2>1
  <2> QED
    BY <2>2
<1>1. CASE UserProfileAnalyst
  BY <1>1 DEF UserProfileAnalyst, StageInv, StageFinal
<1>2. CASE MarketIntelligence
  BY <1>0, <1>2, NodesAre DEF MarketIntelligence, Skip, Blocked
<1>3. CASE ProductMatchExpert
  BY <1>0, <1>3, NodesAre DEF ProductMatchExpert, TakePlan, TakeSelection, Skip, Blocked
<1>4. CASE ComplianceRiskOfficer
  BY <1>0, <1>4, NodesAre DEF ComplianceRiskOfficer, Skip, Blocked
<1>5. CASE ManagerCoordinator
  <2>1. Skip("manager_coordinator") /\ final' = IF final = "none" THEN "blocked" ELSE final
    BY <1>5 DEF ManagerCoordinator
  <2> QED
    BY <1>0, <2>1, NodesAre DEF Skip, Blocked
<1>6. CASE Assemble
  BY <1>6 DEF Assemble, Blocked
<1> QED
  BY <1>1, <1>2, <1>3, <1>4, <1>5, <1>6 DEF Next

\* A block is final and nothing runs after it.
THEOREM BlockIsFinal == Spec => NothingRunsAfterBlock
<1>1. TypeOK /\ StageInv /\ [Next]_vars =>
        [Blocked => /\ Blocked'
                    /\ UNCHANGED <<user, market, basket, review, warnings>>
                    /\ trace' = trace \/ trace'[Len(trace')][2] = "transition"]_vars
  BY AfterBlockStep
<1> QED
  BY <1>1, TypeCorrect, StagesHold, PTL DEF Spec, NothingRunsAfterBlock

LEMMA NarrowStep ==
  TypeOK /\ StageInv /\ [Next]_vars =>
    [/\ basket.known => basket'.products \subseteq basket.products
     /\ review'.verdict = "revise_conservative" => basket'.products \subseteq approved']_vars
<1> SUFFICES ASSUME TypeOK, StageInv, Next
             PROVE  /\ basket.known => basket'.products \subseteq basket.products
                    /\ review'.verdict = "revise_conservative" =>
                         basket'.products \subseteq approved'
  OBVIOUS
<1>1. review'.verdict = "revise_conservative" => basket'.products \subseteq approved'
  BY StageReviewStep DEF StageInv, StageReview
<1>2. basket.known => basket'.products \subseteq basket.products
  <2>1. CASE UserProfileAnalyst \/ MarketIntelligence \/ ProductMatchExpert
    BY <2>1 DEF UserProfileAnalyst, MarketIntelligence, ProductMatchExpert,
        TakePlan, TakeSelection, StageInv, StageBasket
  <2>2. CASE ComplianceRiskOfficer
    BY <2>2 DEF ComplianceRiskOfficer, Skip, Block, StaticFallback, AdoptReview, Filtered, TypeOK
  <2>3. CASE ManagerCoordinator
    BY <2>3 DEF ManagerCoordinator, Skip, Block
  <2>4. CASE Assemble
    BY <2>4 DEF Assemble
  <2> QED
    BY <2>1, <2>2, <2>3, <2>4 DEF Next
<1> QED
  BY <1>1, <1>2

\* A selected basket only shrinks, and a revision leaves approved ids only.
THEOREM BasketNarrows == Spec => RevisionOnlyNarrows
<1>1. TypeOK /\ StageInv /\ [Next]_vars =>
        [/\ basket.known => basket'.products \subseteq basket.products
         /\ review'.verdict = "revise_conservative" => basket'.products \subseteq approved']_vars
  BY NarrowStep
<1> QED
  BY <1>1, TypeCorrect, StagesHold, PTL DEF Spec, RevisionOnlyNarrows

-----------------------------------------------------------------------------
(* The allocation of an answer.                                            *)

Whole(display) == display["fund"] + display["wealth_management"] + display["stock"]

LEMMA BaseTotals ==
  ASSUME NEW p \in AllProfiles
  PROVE  /\ Whole(BaseAllocations[p]) = 100
         /\ Whole(AggressiveAllocations[p]) = 100
         /\ \A c \in Categories : BaseAllocations[p][c] > 0 /\ AggressiveAllocations[p][c] > 0
BY DEF AllProfiles, BaseAllocations, AggressiveAllocations, Percent, Categories, Whole

\* What one turn of the loop does to each category.
LEMMA ShiftEffect ==
  ASSUME NEW d \in [Categories -> Nat], NEW c \in Categories, NEW available,
         NEW after, after = Shift(d, c, available),
         NEW first, first = RebalanceOrder[c][1],
         NEW second, second = RebalanceOrder[c][2]
  PROVE  /\ after[c] = IF c \in available THEN d[c] ELSE 0
         /\ after[first] = IF c \notin available /\ first \in available
                           THEN d[first] + d[c] ELSE d[first]
         /\ after[second] = IF c \notin available /\ first \notin available
                               /\ second \in available
                            THEN d[second] + d[c] ELSE d[second]
<1>1. CASE c = "fund"
  BY <1>1 DEF Shift, RebalanceOrder, Categories
<1>2. CASE c = "wealth_management"
  BY <1>2 DEF Shift, RebalanceOrder, Categories
<1>3. CASE c = "stock"
  BY <1>3 DEF Shift, RebalanceOrder, Categories
<1> QED
  BY <1>1, <1>2, <1>3 DEF Categories

\* Rebalancing keeps the total if there is a category to hold it, and gives a
\* share to exactly the available categories.
LEMMA RebalanceTotals ==
  ASSUME NEW d \in [Categories -> Nat], \A c \in Categories : d[c] > 0,
         NEW available \in SUBSET Categories
  PROVE  /\ Whole(Rebalance(d, available)) = IF available = {} THEN 0 ELSE Whole(d)
         /\ available = {c \in Categories : Rebalance(d, available)[c] > 0}
<1> DEFINE one == Shift(d, "fund", available)
           two == Shift(one, "wealth_management", available)
           three == Shift(two, "stock", available)
<1>0. "fund" \in Categories /\ "wealth_management" \in Categories /\ "stock" \in Categories
  BY DEF Categories
<1>1. /\ one \in [Categories -> Nat] /\ two \in [Categories -> Nat]
      /\ three \in [Categories -> Nat]
  BY <1>0, ShiftType
<1>o. /\ RebalanceOrder["fund"][1] = "wealth_management"
      /\ RebalanceOrder["fund"][2] = "stock"
      /\ RebalanceOrder["wealth_management"][1] = "fund"
      /\ RebalanceOrder["wealth_management"][2] = "stock"
      /\ RebalanceOrder["stock"][1] = "wealth_management"
      /\ RebalanceOrder["stock"][2] = "fund"
  BY DEF RebalanceOrder
<1> DEFINE F == "fund" \in available
           W == "wealth_management" \in available
           S == "stock" \in available
<1>e. /\ one = Shift(d, "fund", available)
      /\ two = Shift(one, "wealth_management", available)
      /\ three = Shift(two, "stock", available)
  OBVIOUS
<1>6. Rebalance(d, available) = three
  BY DEF Rebalance
<1> HIDE DEF one, two, three
<1>2. /\ one["fund"] = IF F THEN d["fund"] ELSE 0
      /\ one["wealth_management"] = IF ~F /\ W THEN d["wealth_management"] + d["fund"]
                                    ELSE d["wealth_management"]
      /\ one["stock"] = IF ~F /\ ~W /\ S THEN d["stock"] + d["fund"] ELSE d["stock"]
  BY <1>0, <1>o, <1>e, ShiftEffect
<1>3. /\ two["wealth_management"] = IF W THEN one["wealth_management"] ELSE 0
      /\ two["fund"] = IF ~W /\ F THEN one["fund"] + one["wealth_management"]
                       ELSE one["fund"]
      /\ two["stock"] = IF ~W /\ ~F /\ S THEN one["stock"] + one["wealth_management"]
                        ELSE one["stock"]
  BY <1>0, <1>1, <1>o, <1>e, ShiftEffect
<1>4. /\ three["stock"] = IF S THEN two["stock"] ELSE 0
      /\ three["wealth_management"] = IF ~S /\ W THEN two["wealth_management"] + two["stock"]
                                      ELSE two["wealth_management"]
      /\ three["fund"] = IF ~S /\ ~W /\ F THEN two["fund"] + two["stock"] ELSE two["fund"]
  BY <1>0, <1>1, <1>o, <1>e, ShiftEffect
<1>5. /\ d["fund"] \in Nat /\ d["wealth_management"] \in Nat /\ d["stock"] \in Nat
      /\ d["fund"] > 0 /\ d["wealth_management"] > 0 /\ d["stock"] > 0
  BY <1>0
<1>7. available = {} <=> ~F /\ ~W /\ ~S
  BY DEF Categories
<1> HIDE DEF F, W, S
<1>8. Whole(three) = IF available = {} THEN 0 ELSE Whole(d)
  <2>1. CASE ~F /\ ~W /\ ~S
    BY <1>2, <1>3, <1>4, <1>5, <1>7, <2>1 DEF Whole
  <2>2. CASE F \/ W \/ S
    BY <1>2, <1>3, <1>4, <1>5, <1>7, <2>2 DEF Whole
  <2> QED
    BY <2>1, <2>2
<1>9. /\ F <=> three["fund"] > 0
      /\ W <=> three["wealth_management"] > 0
      /\ S <=> three["stock"] > 0
  BY <1>2, <1>3, <1>4, <1>5
<1>10. available = {c \in Categories : three[c] > 0}
  BY <1>9 DEF F, W, S, Categories
<1> QED
  BY <1>6, <1>8, <1>10

LEMMA AllocationStep ==
  TypeOK /\ AllocationCoversSections /\ [Next]_vars => AllocationCoversSections'
<1> SUFFICES ASSUME TypeOK, AllocationCoversSections, [Next]_vars
             PROVE  AllocationCoversSections'
  OBVIOUS
<1>1. CASE Assemble
  <2> DEFINE available == {c \in Categories : RawSections[c] # {}}
             base == Rebalance(BaseAllocations[profile], available)
             aggressive == Rebalance(AggressiveAllocations[profile], available)
  <2>1. profile \in AllProfiles
    BY CatalogAssumption DEF TypeOK
  <2>2. available \in SUBSET Categories
    OBVIOUS
  <2>3. /\ Whole(base) = IF available = {} THEN 0 ELSE 100
        /\ available = {c \in Categories : base[c] > 0}
        /\ Whole(aggressive) = IF available = {} THEN 0 ELSE 100
        /\ available = {c \in Categories : aggressive[c] > 0}
    <3> HIDE DEF available
    <3> QED
      BY <2>1, <2>2, BaseTotals, AllocationsType, RebalanceTotals
  <2>4. /\ response'.allocation = base
        /\ response'.aggressive = aggressive
        /\ response'.sections = [c \in Categories |-> IF base[c] > 0 THEN RawSections[c] ELSE {}]
    BY <1>1 DEF Assemble
  <2>5. {c \in Categories : response'.sections[c] # {}} = available
    <3>1. \A c \in Categories : base[c] > 0 <=> RawSections[c] # {}
      BY <2>3
    <3> HIDE DEF base
    <3> QED
      BY <2>4, <3>1
  <2> HIDE DEF available, base, aggressive
  <2> QED
    BY <2>3, <2>4, <2>5 DEF AllocationCoversSections, Whole
<1>2. CASE UNCHANGED vars
  BY <1>2 DEF vars, AllocationCoversSections
<1>3. CASE Next /\ ~Assemble
  <2>1. node' # "answered"
    BY <1>3 DEF Next, UserProfileAnalyst, MarketIntelligence,
                ProductMatchExpert, TakePlan, TakeSelection,
                ComplianceRiskOfficer, ManagerCoordinator
  <2> QED
    BY <2>1 DEF AllocationCoversSections
<1> QED
  BY <1>1, <1>2, <1>3

\* Both allocations of an answer add up, over the categories shown.
THEOREM AllocationsCover == Spec => []AllocationCoversSections
<1>1. Init => AllocationCoversSections
  BY DEF Init, AllocationCoversSections
<1> QED
  BY <1>1, AllocationStep, TypeCorrect, PTL DEF Spec

-----------------------------------------------------------------------------
(***************************************************************************)
(* The offline agents.                                                     *)
(***************************************************************************)

\* Of a category that the plan has, the offline agent takes something.
LEMMA SomethingTaken ==
  ASSUME NEW of, of # {}, NEW n \in Nat \ {0}, NEW ids \in SUBSET of,
         Cardinality(ids) = n \/ (ids = of /\ Cardinality(ids) < n)
  PROVE  ids # {}
BY FS_EmptySet

\* Whatever the filters of the plan let through their own review approves.
LEMMA PlanApproved ==
  ASSUME TypeOK, NEW ids \in SUBSET RetrievalPlan(pool, user, market)
  PROVE  OfflineVerdict(user, ids) = "approve"
<1>1. user.tier \in 0..5
  BY DEF TypeOK, Tiers
<1>2. \A p \in ids : Risk[p] # 0 /\ Risk[p] <= (IF user.tier = 0 THEN 2 ELSE user.tier)
  BY <1>1 DEF RetrievalPlan, AllowedRisk
<1>3. OfflineApproved(user, ids) = ids
  BY <1>2 DEF OfflineApproved
<1> QED
  BY <1>3 DEF OfflineVerdict

\* Of a plan that is not empty the offline agent selects something: what it does not
\* take for the user's tier or the market the plan does not hold.
LEMMA PlanSelected ==
  ASSUME TypeOK, NEW ids \in OfflineSelections(RetrievalPlan(pool, user, market), user, market),
         NEW bad \in BOOLEAN, market.avoided = OfflineAvoided(user.tier, bad)
  PROVE  /\ ids \subseteq RetrievalPlan(pool, user, market)
         /\ RetrievalPlan(pool, user, market) # {} => ids # {}
<1> DEFINE plan == RetrievalPlan(pool, user, market)
           of(c) == {p \in plan : Category[p] = c}
           take(c, n) == {x \in SUBSET of(c) : \/ Cardinality(x) = n
                                               \/ x = of(c) /\ Cardinality(x) < n}
           shares == IF AllowsStock(user, market) THEN 1 ELSE 0
<1>1. PICK f \in take("fund", 2), w \in take("wealth_management", 2), s \in take("stock", shares) :
        ids = f \union w \union s
  BY DEF OfflineSelections
<1>2. ids \subseteq plan
  BY <1>1
<1>3. ASSUME NEW p \in plan
      PROVE  ids # {}
  <2>1. /\ p \in Products /\ Category[p] \in Categories /\ Category[p] \notin market.avoided
    BY CatalogAssumption DEF RetrievalPlan, TypeOK
  <2>2. CASE Category[p] = "fund"
    <3>1. f # {}
      BY <1>1, <2>2, SomethingTaken
    <3> QED
      BY <1>1, <3>1
  <2>3. CASE Category[p] = "wealth_management"
    <3>1. w # {}
      BY <1>1, <2>3, SomethingTaken
    <3> QED
      BY <1>1, <3>1
  <2>4. CASE Category[p] = "stock"
    <3>1. shares = 1
      BY <2>1, <2>4 DEF AllowsStock, OfflineAvoided
    <3>2. s # {}
      BY <1>1, <2>4, <3>1, SomethingTaken
    <3> QED
      BY <1>1, <3>2
  <2> QED
    BY <2>1, <2>2, <2>3, <2>4 DEF Categories
<1> QED
  BY <1>2, <1>3

\* The offline agents fit the pipeline, for every catalogue: what they select of a plan
\* needs no fallback, their review approves it and their status is the one released.
THEOREM OfflineStands == Spec => []OfflineAnswersStand
<1>1. TypeOK => OfflineAnswersStand
  <2> SUFFICES ASSUME TypeOK,
                      NEW bad \in BOOLEAN, market.avoided = OfflineAvoided(user.tier, bad),
                      NEW ids \in OfflineSelections(RetrievalPlan(pool, user, market), user, market)
               PROVE  LET verdict == OfflineVerdict(user, ids) IN
                        /\ ids \subseteq RetrievalPlan(pool, user, market)
                        /\ RetrievalPlan(pool, user, market) # {} => ids # {}
                        /\ verdict = "approve"
                        /\ ManagerStatus(verdict, OfflineStatus(verdict, ids))
                             = OfflineStatus(verdict, ids)
    BY DEF OfflineAnswersStand
  <2>1. /\ ids \subseteq RetrievalPlan(pool, user, market)
        /\ RetrievalPlan(pool, user, market) # {} => ids # {}
    BY PlanSelected
  <2>2. OfflineVerdict(user, ids) = "approve"
    BY <2>1, PlanApproved
  <2>3. OfflineStatus("approve", ids) \in {"ready", "limited"}
    BY DEF OfflineStatus
  <2>4. ManagerStatus("approve", OfflineStatus("approve", ids)) = OfflineStatus("approve", ids)
    BY <2>3 DEF ManagerStatus
  <2> QED
    BY <2>1, <2>2, <2>4
<1> QED
  BY <1>1, TypeCorrect, PTL

-----------------------------------------------------------------------------
(***************************************************************************)
(* The market facts.                                                       *)
(***************************************************************************)

Views == [sentiment: {"positive", "neutral", "negative"},
          stance: {"offensive", "balanced", "defensive"}]
Counts == [positive: Nat, negative: Nat]

LEMMA ViewType ==
  ASSUME NEW changes
  PROVE  MarketView(changes, <<>>) \in Views
BY DEF MarketView, Views, SentimentFromChange, StanceFromChange

\* News that are better, more good stories or fewer bad ones, never make the view of
\* the market worse: for any changes of the indices and any counts.
THEOREM BetterNewsNeverWorsens ==
  \A changes : \A d, e \in Counts :
    e.positive >= d.positive /\ e.negative <= d.negative
      => AtLeast(MarketView(changes, <<e>>), MarketView(changes, <<d>>))
<1> SUFFICES ASSUME NEW changes, NEW d \in Counts, NEW e \in Counts,
                    e.positive >= d.positive, e.negative <= d.negative
             PROVE  AtLeast(MarketView(changes, <<e>>), MarketView(changes, <<d>>))
  OBVIOUS
<1>1. PICK view : view = MarketView(changes, <<>>)
  OBVIOUS
<1>2. view \in Views
  BY <1>1, ViewType
<1>3. /\ MarketView(changes, <<e>>) = ApplyNews(view, e)
      /\ MarketView(changes, <<d>>) = ApplyNews(view, d)
  BY <1>1 DEF MarketView
<1>4. \A v \in Views : AtLeast(v, v) /\ AtLeast(v, [sentiment |-> "negative", stance |-> "defensive"])
                       /\ AtLeast([sentiment |-> "positive", stance |-> "offensive"], v)
  BY DEF AtLeast, Views, StanceRank, SentimentRank
<1>5. ApplyNews(view, e) \in Views
  BY <1>2 DEF ApplyNews, Views
<1>6. CASE d.negative > d.positive
  BY <1>3, <1>4, <1>5, <1>6 DEF ApplyNews
<1>7. CASE ~(d.negative > d.positive)
  <2>1. ~(e.negative > e.positive)
    BY <1>7 DEF Counts
  <2>2. d.positive > d.negative => e.positive > e.negative
    BY DEF Counts
  <2>3. CASE ApplyNews(view, d) = view
    <3>1. ApplyNews(view, e) \in {view, [sentiment |-> "positive", stance |-> "offensive"]}
      BY <2>1 DEF ApplyNews
    <3> QED
      BY <1>2, <1>3, <1>4, <2>3, <3>1
  <2>4. CASE ApplyNews(view, d) # view
    <3>1. /\ d.positive > d.negative /\ view.sentiment # "negative" /\ view.stance # "defensive"
          /\ ApplyNews(view, d) = [sentiment |-> "positive", stance |-> "offensive"]
      BY <1>7, <2>4 DEF ApplyNews
    <3>2. ApplyNews(view, e) = [sentiment |-> "positive", stance |-> "offensive"]
      BY <2>1, <2>2, <3>1 DEF ApplyNews
    <3> QED
      BY <1>3, <1>4, <1>5, <3>1, <3>2
  <2> QED
    BY <2>3, <2>4
<1> QED
  BY <1>6, <1>7

-----------------------------------------------------------------------------
(***************************************************************************)
(* Order: the places of the members of a set that an order arranges.       *)
(***************************************************************************)

IsOrder(set, before) ==
  /\ \A x, y \in set : <<x, y>> \in before => <<y, x>> \notin before
  /\ \A x, y, z \in set : <<x, y>> \in before /\ <<y, z>> \in before => <<x, z>> \in before
  /\ \A x, y \in set : x # y => <<x, y>> \in before \/ <<y, x>> \in before

\* A bijection from one set to another that keeps what comes before what.
Carries(e, A, R, B, Q) ==
  /\ e \in [A -> B]
  /\ \A y \in B : \E x \in A : e[x] = y
  /\ \A x, y \in A : e[x] = e[y] => x = y
  /\ \A x, y \in A : <<x, y>> \in R <=> <<e[x], e[y]>> \in Q

\* The rank tells what comes before what.
LEMMA RankFacts ==
  ASSUME NEW S, IsFiniteSet(S), NEW R, IsOrder(S, R)
  PROVE  /\ \A x \in S : Rank(S, R, x) \in 0..(Cardinality(S) - 1)
         /\ \A x, y \in S : <<x, y>> \in R <=> Rank(S, R, x) < Rank(S, R, y)
<1> DEFINE B(x) == {y \in S : <<y, x>> \in R}
<1>0. Cardinality(S) \in Nat
  BY FS_CardinalityType
<1>1. ASSUME NEW x \in S
      PROVE  IsFiniteSet(B(x)) /\ Cardinality(B(x)) \in Nat /\ Cardinality(B(x)) < Cardinality(S)
  <2>1. B(x) \in SUBSET S /\ x \notin B(x)
    BY DEF IsOrder
  <2>2. B(x) # S
    BY <2>1
  <2>3. IsFiniteSet(B(x)) /\ Cardinality(B(x)) <= Cardinality(S)
        /\ (Cardinality(S) = Cardinality(B(x)) => S = B(x))
    BY <2>1, FS_Subset
  <2>4. Cardinality(B(x)) \in Nat
    BY <2>3, FS_CardinalityType
  <2> QED
    BY <1>0, <2>2, <2>3, <2>4
<1>2. ASSUME NEW x \in S, NEW y \in S, <<x, y>> \in R
      PROVE  Cardinality(B(x)) < Cardinality(B(y))
  <2>1. B(x) \in SUBSET B(y) /\ x \in B(y) /\ x \notin B(x)
    BY <1>2 DEF IsOrder
  <2>2. B(x) # B(y)
    BY <2>1
  <2>3. Cardinality(B(x)) <= Cardinality(B(y))
        /\ (Cardinality(B(y)) = Cardinality(B(x)) => B(y) = B(x))
    BY <2>1, <1>1, FS_Subset
  <2>4. Cardinality(B(x)) \in Nat /\ Cardinality(B(y)) \in Nat
    BY <1>1
  <2> QED
    BY <2>2, <2>3, <2>4
<1>3. \A x \in S : Rank(S, R, x) = Cardinality(B(x))
  BY DEF Rank
<1> HIDE DEF B
<1>4. ASSUME NEW x \in S, NEW y \in S, Rank(S, R, x) < Rank(S, R, y)
      PROVE  <<x, y>> \in R
  <2>1. x # y
    BY <1>1, <1>3, <1>4
  <2>2. CASE <<y, x>> \in R
    <3>1. Cardinality(B(y)) < Cardinality(B(x))
      BY <2>2, <1>2
    <3> QED
      BY <3>1, <1>1, <1>3, <1>4
  <2> QED
    BY <2>1, <2>2 DEF IsOrder
<1> QED
  BY <1>0, <1>1, <1>2, <1>3, <1>4

\* A set in order: each of its members once, at its rank.
LEMMA InOrderFacts ==
  ASSUME NEW S, IsFiniteSet(S), NEW R, IsOrder(S, R),
         NEW n, n = Cardinality(S), NEW at, at = InOrder(S, R)
  PROVE  /\ n \in Nat /\ at \in [1..n -> S]
         /\ \A k \in 1..n : Rank(S, R, at[k]) = k - 1
         /\ \A x \in S : \E k \in 1..n : at[k] = x
         /\ \A k, l \in 1..n : k < l <=> <<at[k], at[l]>> \in R
         /\ \A k, l \in 1..n : at[k] = at[l] => k = l
<1> DEFINE r == [x \in S |-> Rank(S, R, x)]
           T == 0..(n - 1)
<1>1. n \in Nat
  BY FS_CardinalityType
<1>2. /\ \A x \in S : Rank(S, R, x) \in T
      /\ \A x, y \in S : <<x, y>> \in R <=> Rank(S, R, x) < Rank(S, R, y)
  BY RankFacts
<1>3. \A x, y \in S : r[x] = r[y] => x = y
  <2> SUFFICES ASSUME NEW x \in S, NEW y \in S, r[x] = r[y], x # y PROVE FALSE
    OBVIOUS
  <2>1. ~(r[x] < r[y]) /\ ~(r[y] < r[x])
    BY <1>1, <1>2
  <2> QED
    BY <1>2, <2>1 DEF IsOrder
<1>4. r \in Injection(S, T)
  <2>1. r \in [S -> T]
    BY <1>2
  <2> QED
    BY <2>1, <1>3 DEF Injection, IsInjective
<1>5. IsFiniteSet(T) /\ Cardinality(T) = n
  <2>1. PICK m \in Int : m = n - 1
    BY <1>1
  <2>2. /\ IsFiniteSet(0..m)
        /\ Cardinality(0..m) = IF 0 > m THEN 0 ELSE m - 0 + 1
    BY FS_Interval
  <2> QED
    BY <1>1, <2>1, <2>2
<1>6. r \in Surjection(S, T)
  BY <1>4, <1>5, FS_Injection
<1>7. \A t \in T : \E x \in S : r[x] = t
  BY <1>6 DEF Surjection
<1>8. at = [k \in 1..n |-> CHOOSE x \in S : Rank(S, R, x) = k - 1]
  BY DEF InOrder
<1>9. ASSUME NEW k \in 1..n
      PROVE  at[k] \in S /\ Rank(S, R, at[k]) = k - 1
  <2>1. k - 1 \in T
    BY <1>1
  <2>2. \E x \in S : Rank(S, R, x) = k - 1
    BY <2>1, <1>7
  <2> QED
    BY <2>2, <1>8
<1>10. at \in [1..n -> S]
  BY <1>8, <1>9
<1>11. \A x \in S : Rank(S, R, x) + 1 \in 1..n /\ at[Rank(S, R, x) + 1] = x
  <2> TAKE x \in S
  <2> DEFINE k == Rank(S, R, x) + 1
  <2>1. k \in 1..n /\ k - 1 = Rank(S, R, x)
    BY <1>1, <1>2
  <2>2. r[at[k]] = r[x]
    BY <2>1, <1>9
  <2> QED
    BY <2>1, <2>2, <1>3, <1>9
<1>12. \A k, l \in 1..n : k < l <=> <<at[k], at[l]>> \in R
  <2> TAKE k, l \in 1..n
  <2>1. <<at[k], at[l]>> \in R <=> k - 1 < l - 1
    BY <1>2, <1>9
  <2> QED
    BY <1>1, <2>1
<1>13. \A k, l \in 1..n : at[k] = at[l] => k = l
  <2> TAKE k, l \in 1..n
  <2>1. at[k] = at[l] => k - 1 = l - 1
    BY <1>9
  <2> QED
    BY <1>1, <2>1
<1> QED
  BY <1>1, <1>9, <1>10, <1>11, <1>12, <1>13

\* The order of a set is carried over by a bijection that keeps what comes before what.
LEMMA Transported ==
  ASSUME NEW A, IsFiniteSet(A), NEW R, IsOrder(A, R), NEW B, NEW Q, NEW e, Carries(e, A, R, B, Q)
  PROVE  /\ IsFiniteSet(B) /\ Cardinality(B) = Cardinality(A) /\ IsOrder(B, Q)
         /\ \A k \in 1..Cardinality(A) : InOrder(B, Q)[k] = e[InOrder(A, R)[k]]
<1>0. /\ e \in [A -> B]
      /\ \A y \in B : \E x \in A : e[x] = y
      /\ \A x, y \in A : e[x] = e[y] => x = y
      /\ \A x, y \in A : <<x, y>> \in R <=> <<e[x], e[y]>> \in Q
  BY DEF Carries
<1>1. e \in Bijection(A, B)
  BY <1>0 DEF Bijection, Injection, Surjection, IsInjective
<1>2. IsFiniteSet(B) /\ Cardinality(B) = Cardinality(A)
  BY <1>1, FS_Bijection DEF ExistsBijection
<1>3. IsOrder(B, Q)
  <2>1. ASSUME NEW u \in B, NEW v \in B
        PROVE  /\ <<u, v>> \in Q => <<v, u>> \notin Q
               /\ u # v => <<u, v>> \in Q \/ <<v, u>> \in Q
    <3>1. PICK x \in A, y \in A : e[x] = u /\ e[y] = v
      BY <1>0
    <3> QED
      BY <1>0, <3>1 DEF IsOrder
  <2>2. ASSUME NEW u \in B, NEW v \in B, NEW w \in B, <<u, v>> \in Q, <<v, w>> \in Q
        PROVE  <<u, w>> \in Q
    <3>1. PICK x \in A, y \in A, z \in A : e[x] = u /\ e[y] = v /\ e[z] = w
      BY <1>0
    <3>2. <<x, y>> \in R /\ <<y, z>> \in R
      BY <1>0, <2>2, <3>1
    <3>3. <<x, z>> \in R
      BY <3>2 DEF IsOrder
    <3> QED
      BY <1>0, <3>1, <3>3
  <2> QED
    BY <2>1, <2>2 DEF IsOrder
<1>4. ASSUME NEW x \in A
      PROVE  Rank(B, Q, e[x]) = Rank(A, R, x)
  <2> DEFINE X == {y \in A : <<y, x>> \in R}
             Y == {z \in B : <<z, e[x]>> \in Q}
             g == [y \in X |-> e[y]]
  <2>1. IsFiniteSet(X)
    BY FS_Subset
  <2>2. g \in [X -> Y]
    BY <1>0
  <2>3. g \in Injection(X, Y)
    BY <1>0, <2>2 DEF Injection, IsInjective
  <2>4. g \in Surjection(X, Y)
    <3>1. \A z \in Y : \E y \in X : g[y] = z
      BY <1>0
    <3> QED
      BY <1>0, <2>2, <3>1 DEF Surjection
  <2>5. ExistsBijection(X, Y)
    BY <2>3, <2>4 DEF ExistsBijection, Bijection
  <2>6. Cardinality(Y) = Cardinality(X)
    BY <2>1, <2>5, FS_Bijection
  <2> QED
    BY <2>6 DEF Rank
<1>5. PICK n, a, b : n = Cardinality(A) /\ a = InOrder(A, R) /\ b = InOrder(B, Q)
  OBVIOUS
<1>6. n \in Nat /\ a \in [1..n -> A] /\ \A k \in 1..n : Rank(A, R, a[k]) = k - 1
  BY <1>5, InOrderFacts
<1>7. b \in [1..n -> B] /\ \A k \in 1..n : Rank(B, Q, b[k]) = k - 1
  BY <1>2, <1>3, <1>5, InOrderFacts
<1>8. \A x, y \in B : <<x, y>> \in Q <=> Rank(B, Q, x) < Rank(B, Q, y)
  BY <1>2, <1>3, RankFacts
<1>9. ASSUME NEW k \in 1..n
      PROVE  b[k] = e[a[k]]
  <2>1. a[k] \in A /\ b[k] \in B /\ e[a[k]] \in B
    BY <1>0, <1>6, <1>7
  <2>2. Rank(B, Q, e[a[k]]) = k - 1 /\ Rank(B, Q, b[k]) = k - 1
    BY <1>4, <1>6, <1>7, <2>1
  <2>3. <<b[k], e[a[k]]>> \notin Q /\ <<e[a[k]], b[k]>> \notin Q
    BY <1>6, <1>8, <2>1, <2>2
  <2> QED
    BY <1>3, <2>1, <2>3 DEF IsOrder
<1> QED
  BY <1>2, <1>3, <1>5, <1>9

LEMMA AscendingOrders ==
  ASSUME NEW I \in SUBSET Int
  PROVE  IsOrder(I, Ascending(I)) /\ \A i, j \in I : <<i, j>> \in Ascending(I) <=> i < j
<1>1. \A i, j \in I : <<i, j>> \in Ascending(I) <=> i < j
  BY DEF Ascending
<1>2. \A i \in I : i \in Int
  OBVIOUS
<1> QED
  BY <1>1, <1>2 DEF IsOrder

LEMMA IntervalFacts ==
  ASSUME NEW n \in Nat
  PROVE  IsFiniteSet(1..n) /\ Cardinality(1..n) = n
<1>1. PICK a \in Int, b \in Int : a = 1 /\ b = n
  OBVIOUS
<1>2. IsFiniteSet(a..b) /\ Cardinality(a..b) = IF a > b THEN 0 ELSE b - a + 1
  BY FS_Interval
<1> QED
  BY <1>1, <1>2

\* D is put in order by a; of its part I there is a list e, which puts M in order by Q, and
\* J are the places of the part.
PartOf(D, R, a, I, M, Q, e, J) ==
  /\ D \in SUBSET Int /\ IsFiniteSet(D) /\ IsOrder(D, R) /\ I \in SUBSET D
  /\ Carries(a, D, Ascending(D), D, R)
  /\ IsFiniteSet(M) /\ Carries(e, M, Q, I, R)
  /\ J = {k \in D : a[k] \in I}

\* A part of a set that is in order: the places of its members, in their order, are its
\* order; and so is what a list of the part makes of the order of its places.
LEMMA PartInOrder ==
  ASSUME NEW D, NEW R, NEW a, NEW I, NEW M, NEW Q, NEW e, NEW J, PartOf(D, R, a, I, M, Q, e, J)
  PROVE  /\ IsFiniteSet(J) /\ J \in SUBSET Int /\ IsOrder(M, Q)
         /\ Cardinality(J) = Cardinality(I) /\ Cardinality(M) = Cardinality(I)
         /\ \A k \in 1..Cardinality(I) : e[InOrder(M, Q)[k]] = a[InOrder(J, Ascending(J))[k]]
<1>0. /\ D \in SUBSET Int /\ IsFiniteSet(D) /\ IsOrder(D, R) /\ I \in SUBSET D
      /\ Carries(a, D, Ascending(D), D, R)
      /\ IsFiniteSet(M) /\ Carries(e, M, Q, I, R)
      /\ J = {k \in D : a[k] \in I}
  BY DEF PartOf
<1>1. IsOrder(I, R)
  BY <1>0 DEF IsOrder
<1>2. IsOrder(M, Q)
  <2>1. /\ \A k \in M : e[k] \in I
        /\ \A k, l \in M : e[k] = e[l] => k = l
        /\ \A k, l \in M : <<k, l>> \in Q <=> <<e[k], e[l]>> \in R
    BY <1>0 DEF Carries
  <2>2. \A k, l \in M : <<k, l>> \in Q => <<l, k>> \notin Q
    BY <1>1, <2>1 DEF IsOrder
  <2>3. \A k, l \in M : k # l => <<k, l>> \in Q \/ <<l, k>> \in Q
    BY <1>1, <2>1 DEF IsOrder
  <2>4. ASSUME NEW k \in M, NEW l \in M, NEW j \in M, <<k, l>> \in Q, <<l, j>> \in Q
        PROVE  <<k, j>> \in Q
    <3>1. <<e[k], e[l]>> \in R /\ <<e[l], e[j]>> \in R
      BY <2>1, <2>4
    <3>2. <<e[k], e[j]>> \in R
      BY <1>1, <2>1, <3>1 DEF IsOrder
    <3> QED
      BY <2>1, <3>2
  <2> QED
    BY <2>2, <2>3, <2>4 DEF IsOrder
<1>3. /\ Cardinality(I) = Cardinality(M)
      /\ \A k \in 1..Cardinality(M) : InOrder(I, R)[k] = e[InOrder(M, Q)[k]]
  BY <1>0, <1>1, <1>2, Transported
<1>4. J \in SUBSET D /\ J \in SUBSET Int /\ IsFiniteSet(J)
  BY <1>0, FS_Subset
<1>5. PICK o : o = Ascending(J)
  OBVIOUS
<1>6. IsOrder(J, o) /\ \A i, j \in J : <<i, j>> \in o <=> i < j
  BY <1>4, <1>5, AscendingOrders
<1> DEFINE g == [k \in J |-> a[k]]
<1>7. Carries(g, J, o, I, R)
  <2>1. \A i, j \in D : <<i, j>> \in Ascending(D) <=> i < j
    BY <1>0, AscendingOrders
  <2>2. /\ a \in [D -> D]
        /\ \A y \in D : \E x \in D : a[x] = y
        /\ \A x, y \in D : a[x] = a[y] => x = y
        /\ \A x, y \in D : x < y <=> <<a[x], a[y]>> \in R
    BY <1>0, <2>1 DEF Carries
  <2>3. g \in [J -> I]
    BY <1>0, <2>2
  <2>4. \A i \in I : \E k \in J : g[k] = i
    BY <1>0, <2>2
  <2>5. \A k, l \in J : g[k] = g[l] => k = l
    BY <1>0, <2>2
  <2>6. \A k, l \in J : <<k, l>> \in o <=> <<g[k], g[l]>> \in R
    BY <1>0, <1>4, <1>6, <2>2
  <2> HIDE DEF g
  <2> QED
    BY <2>3, <2>4, <2>5, <2>6 DEF Carries
<1>8. \A k \in J : g[k] = a[k]
  OBVIOUS
<1> HIDE DEF g
<1>9. /\ Cardinality(I) = Cardinality(J)
      /\ \A k \in 1..Cardinality(J) : InOrder(I, R)[k] = g[InOrder(J, o)[k]]
  BY <1>4, <1>6, <1>7, Transported
<1>10. \A k \in 1..Cardinality(J) : InOrder(J, o)[k] \in J
  BY <1>4, <1>6, InOrderFacts
<1> QED
  BY <1>2, <1>3, <1>4, <1>5, <1>8, <1>9, <1>10

\* A set in order carries the order of the places.
LEMMA InOrderCarries ==
  ASSUME NEW S, IsFiniteSet(S), NEW R, IsOrder(S, R),
         NEW n, n = Cardinality(S), NEW at, at = InOrder(S, R)
  PROVE  Carries(at, 1..n, Ascending(1..n), S, R)
<1>2. /\ n \in Nat /\ at \in [1..n -> S]
      /\ \A x \in S : \E k \in 1..n : at[k] = x
      /\ \A k, l \in 1..n : k < l <=> <<at[k], at[l]>> \in R
      /\ \A k, l \in 1..n : at[k] = at[l] => k = l
  BY InOrderFacts
<1>3. \A k, l \in 1..n : <<k, l>> \in Ascending(1..n) <=> k < l
  BY DEF Ascending
<1>4. Carries(at, 1..n, Ascending(1..n), S, R)
  BY <1>2, <1>3 DEF Carries
<1> QED
  BY <1>4

\* Of a list of n that R puts in order, e tells the m places of a filter, Q is the order of
\* what the filter leaves, and J are its places in the ordered list.
Commutes(n, R, I, m, e, Q, J) ==
  /\ n \in Nat /\ IsOrder(1..n, R) /\ I \in SUBSET (1..n)
  /\ m = Cardinality(I) /\ e = InOrder(I, Ascending(I))
  /\ \A k, l \in 1..m : <<k, l>> \in Q <=> <<e[k], e[l]>> \in R
  /\ J = {k \in 1..n : InOrder(1..n, R)[k] \in I}

\* To filter a list and then to sort it, or to sort it and then filter: the same, when
\* the two orders agree.
LEMMA SiftingCommutes ==
  ASSUME NEW n, NEW s, NEW R, NEW I, NEW m, NEW e, NEW Q, NEW J, Commutes(n, R, I, m, e, Q, J)
  PROVE  /\ m \in Nat /\ IsFiniteSet(J) /\ Cardinality(J) = m /\ IsOrder(1..m, Q)
         /\ Arranged(Sifted(s, I), 1..m, Q) = Sifted(Arranged(s, 1..n, R), J)
<1> USE DEF Commutes
<1>1. IsFiniteSet(1..n) /\ Cardinality(1..n) = n
  BY IntervalFacts
<1>2. IsFiniteSet(I)
  BY <1>1, FS_Subset
<1>2a. I \in SUBSET Int
  OBVIOUS
<1>3. IsOrder(I, Ascending(I))
  BY <1>2a, AscendingOrders
<1>4. m \in Nat
  BY <1>2, FS_CardinalityType
<1>5. PICK a : a = InOrder(1..n, R)
  OBVIOUS
<1>6. Carries(a, 1..n, Ascending(1..n), 1..n, R)
  <2>1. IsFiniteSet(1..n) /\ n = Cardinality(1..n)
    BY <1>1
  <2> QED
    BY <1>5, <2>1, InOrderCarries
<1>7. IsFiniteSet(1..m) /\ Cardinality(1..m) = m
  BY <1>4, IntervalFacts
<1>8. PICK h, c : h = InOrder(J, Ascending(J)) /\ c = InOrder(1..m, Q)
  OBVIOUS
<1>9. Carries(e, 1..m, Q, I, R)
  <2>1. Carries(e, 1..m, Ascending(1..m), I, Ascending(I))
    BY <1>2, <1>3, InOrderCarries
  <2> QED
    BY <2>1 DEF Carries
<1>10. /\ IsFiniteSet(J) /\ J \in SUBSET Int /\ IsOrder(1..m, Q)
       /\ Cardinality(J) = m
       /\ \A k \in 1..m : e[c[k]] = a[h[k]]
  <2>1. J = {k \in 1..n : a[k] \in I}
    BY <1>5
  <2>2. PICK D, M : D = 1..n /\ M = 1..m
    OBVIOUS
  <2>3. D \in SUBSET Int /\ I \in SUBSET D
    BY <2>2
  <2>4. IsFiniteSet(D) /\ IsOrder(D, R) /\ Carries(a, D, Ascending(D), D, R)
    BY <1>1, <1>6, <2>2
  <2>5. IsFiniteSet(M) /\ Carries(e, M, Q, I, R) /\ J = {k \in D : a[k] \in I}
    BY <1>7, <1>9, <2>1, <2>2
  <2>6. /\ IsFiniteSet(J) /\ J \in SUBSET Int /\ IsOrder(M, Q)
        /\ Cardinality(J) = Cardinality(I)
        /\ \A k \in 1..Cardinality(I) : e[InOrder(M, Q)[k]] = a[InOrder(J, Ascending(J))[k]]
    <3>1. PartOf(D, R, a, I, M, Q, e, J)
      BY <2>3, <2>4, <2>5 DEF PartOf
    <3> QED
      BY ONLY <3>1, PartInOrder
  <2> QED
    BY <1>8, <2>2, <2>6
<1>11. c \in [1..m -> 1..m]
  BY <1>7, <1>8, <1>10, InOrderFacts
<1>12. h \in [1..m -> J]
  <2>1. IsOrder(J, Ascending(J))
    BY <1>10, AscendingOrders
  <2> QED
    BY <1>8, <1>10, <2>1, InOrderFacts
<1>13. Arranged(Sifted(s, I), 1..m, Q) = [k \in 1..m |-> s[e[c[k]]]]
  <2>1. Sifted(s, I) = [k \in 1..m |-> s[e[k]]]
    BY DEF Sifted, Arranged
  <2>2. Arranged(Sifted(s, I), 1..m, Q) = [k \in 1..m |-> Sifted(s, I)[c[k]]]
    BY <1>7, <1>8 DEF Arranged
  <2> QED
    BY <1>11, <2>1, <2>2
<1>14. Sifted(Arranged(s, 1..n, R), J) = [k \in 1..m |-> s[a[h[k]]]]
  <2>1. Arranged(s, 1..n, R) = [k \in 1..n |-> s[a[k]]]
    BY <1>1, <1>5 DEF Arranged
  <2>2. Sifted(Arranged(s, 1..n, R), J) = [k \in 1..m |-> Arranged(s, 1..n, R)[h[k]]]
    BY <1>8, <1>10 DEF Sifted, Arranged
  <2> QED
    BY <1>12, <2>1, <2>2
<1> QED
  BY <1>4, <1>10, <1>13, <1>14

-----------------------------------------------------------------------------
(***************************************************************************)
(* Loops: a recursive function over 0..n, by its least counterexample.     *)
(***************************************************************************)

\* The least of a set of numbers.
LEMMA LeastExists ==
  ASSUME NEW T, T \subseteq Nat, T # {}
  PROVE  \E x \in T : \A y \in T : x <= y
<1>1. IsWellFoundedOn(OpToRel(<, Nat), Nat)
  BY NatLessThanWellFounded
<1>2. PICK x \in T : \A y \in T : ~ (<<y, x>> \in OpToRel(<, Nat))
  BY <1>1, WFMin
<1>3. \A y \in T : ~ (y < x)
  BY <1>2 DEF OpToRel
<1> QED
  BY <1>3

\* The values of a loop that begins with base and makes n steps.
Follows(f, n, base, step) ==
  f = [i \in 0..n |-> IF i = 0 THEN base ELSE step[<<i, f[i - 1]>>]]

\* A loop has values.
LEMMA LoopHasValues ==
  ASSUME NEW n \in Nat, NEW V, NEW base \in V, NEW step \in [(1..n) \X V -> V]
  PROVE  \E f \in [0..n -> V] : Follows(f, n, base, step)
<1> DEFINE Good(k) == \E f \in [0..k -> V] : Follows(f, k, base, step)
           T == {k \in 0..n : ~Good(k)}
<1> SUFFICES ASSUME T # {} PROVE FALSE
  OBVIOUS
<1>1. PICK k \in T : \A j \in T : k <= j
  <2>1. T \subseteq Nat
    OBVIOUS
  <2> HIDE DEF T
  <2> QED
    BY <2>1, LeastExists
<1>2. k \in 0..n /\ ~Good(k)
  BY <1>1
<1>3. k # 0
  <2> SUFFICES ASSUME k = 0 PROVE FALSE
    OBVIOUS
  <2> DEFINE f == [i \in 0..0 |-> base]
  <2>1. f \in [0..k -> V]
    OBVIOUS
  <2>2. f = [i \in 0..k |-> IF i = 0 THEN base ELSE step[<<i, f[i - 1]>>]]
    <3>1. \A i \in 0..0 : i = 0
      OBVIOUS
    <3> QED
      BY <3>1
  <2>3. Good(k)
    <3> HIDE DEF f
    <3> QED
      BY <2>1, <2>2 DEF Follows
  <2> QED
    BY <1>2, <2>3
<1>4. PICK j \in 0..n : j = k - 1
  BY <1>2, <1>3
<1>5. Good(j)
  <2>1. ~(k <= j)
    BY <1>2, <1>4
  <2>2. j \notin T
    BY <1>1, <2>1
  <2> QED
    BY <2>2
<1>6. PICK g \in [0..j -> V] : Follows(g, j, base, step)
  BY <1>5
<1>7. g = [i \in 0..j |-> IF i = 0 THEN base ELSE step[<<i, g[i - 1]>>]]
  BY <1>6 DEF Follows
<1>8. \A i \in 0..j : g[i] = IF i = 0 THEN base ELSE step[<<i, g[i - 1]>>]
  BY <1>7
<1> DEFINE h == [i \in 0..k |-> IF i <= j THEN g[i] ELSE step[<<k, g[j]>>]]
<1>9. step[<<k, g[j]>>] \in V
  BY <1>2, <1>3, <1>4
<1>10. h \in [0..k -> V]
  <2>1. \A i \in 0..k : i <= j => g[i] \in V
    BY <1>2, <1>4
  <2> QED
    BY <1>9, <2>1
<1>11. \A i \in 0..k : h[i] = IF i = 0 THEN base ELSE step[<<i, h[i - 1]>>]
  <2> TAKE i \in 0..k
  <2>1. CASE i = 0
    <3>1. 0 \in 0..k /\ 0 \in 0..j /\ 0 <= j
      BY <1>2, <1>3, <1>4
    <3>2. h[0] = g[0]
      BY <3>1
    <3>3. g[0] = base
      BY <3>1, <1>8
    <3> QED
      BY <2>1, <3>2, <3>3
  <2>2. CASE i # 0 /\ i <= j
    <3>1. h[i] = g[i] /\ i - 1 \in 0..k /\ i - 1 <= j /\ h[i - 1] = g[i - 1]
      BY <2>2, <1>2, <1>4
    <3>2. i \in 0..j
      BY <2>2, <1>2, <1>4
    <3> QED
      BY <3>1, <3>2, <2>2, <1>8
  <2>3. CASE i > j
    <3>1. i = k /\ i - 1 = j /\ j \in 0..k
      BY <2>3, <1>2, <1>4
    <3>2. h[i] = step[<<k, g[j]>>] /\ h[i - 1] = g[j]
      BY <3>1, <2>3, <1>4
    <3> QED
      BY <3>1, <3>2, <1>3
  <2> QED
    BY <2>1, <2>2, <2>3, <1>2, <1>4
<1>12. Good(k)
  <2> HIDE DEF h
  <2>1. h = [i \in 0..k |-> IF i = 0 THEN base ELSE step[<<i, h[i - 1]>>]]
    BY <1>10, <1>11
  <2> QED
    BY <1>10, <2>1 DEF Follows
<1> QED
  BY <1>2, <1>12

\* Nothing fails from the start on.
LEMMA FromTheStart ==
  ASSUME NEW n \in Nat, NEW Good, 0 \in Good,
         \A i \in 1..n : i - 1 \in Good => i \in Good
  PROVE  \A i \in 0..n : i \in Good
<1> DEFINE T == {i \in 0..n : i \notin Good}
<1> SUFFICES ASSUME T # {} PROVE FALSE
  OBVIOUS
<1>1. PICK k \in T : \A j \in T : k <= j
  <2>1. T \subseteq Nat
    OBVIOUS
  <2> HIDE DEF T
  <2> QED
    BY <2>1, LeastExists
<1>2. k \in 1..n /\ k \notin Good
  BY <1>1
<1>3. k - 1 \in 0..n /\ ~(k <= k - 1)
  BY <1>2
<1>4. k - 1 \notin T
  BY <1>1, <1>3
<1> QED
  BY <1>2, <1>3, <1>4

-----------------------------------------------------------------------------
(***************************************************************************)
(* The indices: how each of them bears on the view of the market.          *)
(***************************************************************************)

LEMMA SumsHave ==
  ASSUME NEW c, NEW f, f = [i \in 0..Len(c) |-> IF i = 0 THEN 0 ELSE f[i - 1] + c[i]]
  PROVE  Sums(c) = [i \in 0..Len(c) |-> IF i = 0 THEN 0 ELSE Sums(c)[i - 1] + c[i]]
BY Zenon DEF Sums

\* The sums of the changes up to each of them.
LEMMA SumsAre ==
  ASSUME NEW c \in Seq(Int)
  PROVE  /\ Sums(c)[0] = 0
         /\ \A i \in 1..Len(c) : Sums(c)[i] = Sums(c)[i - 1] + c[i]
         /\ \A i \in 0..Len(c) : Sums(c)[i] \in Int
<1> DEFINE n == Len(c)
           step == [p \in (1..n) \X Int |-> p[2] + c[p[1]]]
<1>1. n \in Nat /\ 0 \in Int /\ \A i \in 1..n : c[i] \in Int
  BY LenProperties
<1>2. step \in [(1..n) \X Int -> Int]
  BY <1>1
<1>3. \A i \in 1..n, v \in Int : step[<<i, v>>] = v + c[i]
  BY <1>1
<1>4. PICK f \in [0..n -> Int] : Follows(f, n, 0, step)
  <2> HIDE DEF n, step
  <2> QED
    BY <1>1, <1>2, LoopHasValues
<1> HIDE DEF step
<1>5. f = [i \in 0..n |-> IF i = 0 THEN 0 ELSE step[<<i, f[i - 1]>>]]
  BY <1>4 DEF Follows
<1>6. \A i \in 0..n : f[i] = IF i = 0 THEN 0 ELSE f[i - 1] + c[i]
  <2> TAKE i \in 0..n
  <2>1. f[i] = IF i = 0 THEN 0 ELSE step[<<i, f[i - 1]>>]
    BY <1>5
  <2>2. i # 0 => i \in 1..n /\ f[i - 1] \in Int
    BY <1>1, <1>4
  <2> QED
    BY <2>1, <2>2, <1>3
<1>7. f = [i \in 0..n |-> IF i = 0 THEN 0 ELSE f[i - 1] + c[i]]
  BY <1>4, <1>6
<1>8. Sums(c) = [i \in 0..n |-> IF i = 0 THEN 0 ELSE Sums(c)[i - 1] + c[i]]
  BY <1>7, SumsHave
<1>9. /\ Sums(c)[0] = 0
      /\ \A i \in 1..n : Sums(c)[i] = Sums(c)[i - 1] + c[i]
  BY <1>1, <1>8
<1>10. \A i \in 0..n : Sums(c)[i] \in Int
  <2> DEFINE Good == {i \in 0..n : Sums(c)[i] \in Int}
  <2>1. 0 \in Good
    BY <1>1, <1>9
  <2>2. ASSUME NEW i \in 1..n, i - 1 \in Good PROVE i \in Good
    BY <1>1, <1>9, <2>2
  <2>3. \A i \in 0..n : i \in Good
    <3> HIDE DEF Good
    <3> QED
      BY <1>1, <2>1, <2>2, FromTheStart
  <2> QED
    BY <2>3
<1> QED
  BY <1>9, <1>10

LEMMA TotalGrows ==
  ASSUME NEW c \in Seq(Int), NEW b \in Seq(Int), Improves(b, c)
  PROVE  Total(c) \in Int /\ Total(b) \in Int /\ Total(b) >= Total(c)
<1>1. /\ Len(c) \in Nat /\ Len(b) = Len(c)
      /\ \A i \in 1..Len(c) : c[i] \in Int /\ b[i] \in Int /\ b[i] >= c[i]
  BY LenProperties DEF Improves
<1> DEFINE n == Len(c)
           Good == {i \in 0..n : Sums(b)[i] >= Sums(c)[i]}
<1>2. /\ Sums(c)[0] = 0 /\ Sums(b)[0] = 0
      /\ \A i \in 1..n : Sums(c)[i] = Sums(c)[i - 1] + c[i]
      /\ \A i \in 1..n : Sums(b)[i] = Sums(b)[i - 1] + b[i]
      /\ \A i \in 0..n : Sums(c)[i] \in Int /\ Sums(b)[i] \in Int
  BY <1>1, SumsAre
<1>3. 0 \in Good
  BY <1>1, <1>2
<1>4. ASSUME NEW i \in 1..n, i - 1 \in Good PROVE i \in Good
  <2>1. i - 1 \in 0..n /\ i \in 0..n
    BY <1>1
  <2> QED
    <3>1. Sums(b)[i - 1] >= Sums(c)[i - 1]
      BY <1>4
    <3>2. /\ Sums(c)[i] = Sums(c)[i - 1] + c[i] /\ Sums(b)[i] = Sums(b)[i - 1] + b[i]
          /\ Sums(c)[i - 1] \in Int /\ Sums(b)[i - 1] \in Int
      BY <1>2, <2>1
    <3>3. c[i] \in Int /\ b[i] \in Int /\ b[i] >= c[i]
      BY <1>1
    <3>4. Sums(b)[i] >= Sums(c)[i]
      BY <3>1, <3>2, <3>3
    <3> QED
      BY <2>1, <3>4
<1>5. n \in 0..n /\ n \in Nat
  BY <1>1
<1>6. \A i \in 0..n : i \in Good
  <2> HIDE DEF Good, n
  <2> QED
    BY <1>3, <1>4, <1>5, FromTheStart
<1> QED
  BY <1>1, <1>2, <1>5, <1>6 DEF Total

\* The changes that are up are as many as before or more, and down as many or less.
LEMMA CountsGrow ==
  ASSUME NEW c \in Seq(Int), NEW b \in Seq(Int), Improves(b, c)
  PROVE  /\ Count(c, "up") \in Nat /\ Count(b, "up") \in Nat
         /\ Count(c, "down") \in Nat /\ Count(b, "down") \in Nat
         /\ Count(b, "up") >= Count(c, "up") /\ Count(b, "down") <= Count(c, "down")
<1>1. /\ Len(c) \in Nat /\ Len(b) = Len(c) /\ DOMAIN c = 1..Len(c) /\ DOMAIN b = 1..Len(c)
      /\ \A i \in 1..Len(c) : c[i] \in Int /\ b[i] \in Int /\ b[i] >= c[i]
  BY LenProperties DEF Improves
<1> DEFINE D == 1..Len(c)
           Up(s) == {i \in D : s[i] > 0}
           Down(s) == {i \in D : s[i] < 0}
<1>2. /\ Count(c, "up") = Cardinality(Up(c)) /\ Count(b, "up") = Cardinality(Up(b))
      /\ Count(c, "down") = Cardinality(Down(c)) /\ Count(b, "down") = Cardinality(Down(b))
  BY <1>1 DEF Count
<1>3. Up(c) \in SUBSET Up(b) /\ Down(b) \in SUBSET Down(c)
  BY <1>1
<1>4. IsFiniteSet(D)
  BY <1>1, FS_Interval
<1>5. /\ Up(c) \in SUBSET D /\ Up(b) \in SUBSET D /\ Down(c) \in SUBSET D /\ Down(b) \in SUBSET D
  OBVIOUS
<1> HIDE DEF D, Up, Down
<1>6. IsFiniteSet(Up(b)) /\ IsFiniteSet(Up(c)) /\ IsFiniteSet(Down(b)) /\ IsFiniteSet(Down(c))
  BY <1>4, <1>5, FS_Subset
<1>7. Cardinality(Up(c)) <= Cardinality(Up(b)) /\ Cardinality(Down(b)) <= Cardinality(Down(c))
  BY <1>3, <1>6, FS_Subset
<1>8. /\ Cardinality(Up(c)) \in Nat /\ Cardinality(Up(b)) \in Nat
      /\ Cardinality(Down(c)) \in Nat /\ Cardinality(Down(b)) \in Nat
  BY <1>6, FS_CardinalityType
<1> QED
  BY <1>2, <1>7, <1>8

\* Indices that did better never make the view of the market worse: for any number of
\* indices, any changes of them and any news.
THEOREM BetterIndicesNeverWorsen ==
  ASSUME NEW c \in Seq(Int), NEW b \in Seq(Int), Improves(b, c),
         NEW digest, digest # <<>> => digest[1] \in Counts
  PROVE  AtLeast(MarketView(b, digest), MarketView(c, digest))
<1>1. /\ Len(c) \in Nat /\ Len(b) = Len(c)
  BY LenProperties DEF Improves
<1>2. /\ Total(c) \in Int /\ Total(b) \in Int /\ Total(b) >= Total(c)
  BY TotalGrows
<1>3. /\ Rises(c) => Rises(b)
      /\ Falls(b) => Falls(c)
      /\ ~(Rises(b) /\ Falls(b)) /\ ~(Rises(c) /\ Falls(c))
  BY <1>1, <1>2 DEF Rises, Falls
<1>4. PICK u, d, v, e : /\ u = Count(c, "up") /\ d = Count(c, "down")
                        /\ v = Count(b, "up") /\ e = Count(b, "down")
  OBVIOUS
<1>5. u \in Nat /\ d \in Nat /\ v \in Nat /\ e \in Nat /\ v >= u /\ e <= d
  BY <1>4, CountsGrow
<1>6. /\ StanceFromChange(c) = IF Rises(c) /\ u > d THEN "offensive"
                               ELSE IF Falls(c) /\ d > u THEN "defensive" ELSE "balanced"
      /\ StanceFromChange(b) = IF Rises(b) /\ v > e THEN "offensive"
                               ELSE IF Falls(b) /\ e > v THEN "defensive" ELSE "balanced"
  BY <1>4 DEF StanceFromChange
<1>7. PICK x, y : x = MarketView(c, <<>>) /\ y = MarketView(b, <<>>)
  OBVIOUS
<1>8. /\ x = [sentiment |-> SentimentFromChange(c), stance |-> StanceFromChange(c)]
      /\ y = [sentiment |-> SentimentFromChange(b), stance |-> StanceFromChange(b)]
  BY <1>7 DEF MarketView
<1>9. x \in Views /\ y \in Views
  BY <1>7, ViewType
<1>10. u > d => v > e
  BY <1>5
<1>11. e > v => d > u
  BY <1>5
<1>12. ~(v > e /\ e > v) /\ ~(u > d /\ d > u)
  BY <1>5
<1>13. AtLeast(y, x)
  <2>1. StanceRank[y.stance] >= StanceRank[x.stance]
    BY <1>3, <1>6, <1>8, <1>10, <1>11, <1>12 DEF StanceRank
  <2>2. SentimentRank[y.sentiment] >= SentimentRank[x.sentiment]
    BY <1>3, <1>8 DEF SentimentRank, SentimentFromChange
  <2> QED
    BY <2>1, <2>2 DEF AtLeast
<1>14. CASE digest = <<>>
  BY <1>7, <1>13, <1>14
<1>15. CASE digest # <<>>
  <2>1. /\ MarketView(c, digest) = ApplyNews(x, digest[1])
        /\ MarketView(b, digest) = ApplyNews(y, digest[1])
    BY <1>7, <1>15 DEF MarketView
  <2>2. PICK news \in Counts : news = digest[1]
    BY <1>15
  <2>3. y.sentiment = "negative" => x.sentiment = "negative"
    BY <1>9, <1>13 DEF AtLeast, SentimentRank, Views
  <2>4. y.stance = "defensive" => x.stance = "defensive"
    BY <1>9, <1>13 DEF AtLeast, StanceRank, Views
  <2>5. \A w \in Views : AtLeast(w, w) /\ AtLeast([sentiment |-> "positive", stance |-> "offensive"], w)
    BY DEF AtLeast, Views, StanceRank, SentimentRank
  <2>6. ApplyNews(x, news) \in Views /\ ApplyNews(y, news) \in Views
    BY <1>9 DEF ApplyNews, Views
  <2>7. AtLeast(ApplyNews(y, news), ApplyNews(x, news))
    BY <1>13, <2>3, <2>4, <2>5, <2>6 DEF ApplyNews
  <2> QED
    BY <2>1, <2>2, <2>7
<1> QED
  BY <1>14, <1>15

\* A view of data is of one mind for any changes and any news, and never prefers what
\* it avoids.
LEMMA DataIsOfOneMind ==
  ASSUME NEW c \in Seq(Int), NEW digest, digest # <<>> => digest[1] \in Counts
  PROVE  OfOneMind(MarketView(c, digest))
<1>1. Improves(c, c) /\ Len(c) \in Nat
  BY LenProperties DEF Improves
<1>2. Total(c) \in Int
  BY <1>1, TotalGrows
<1>3. ~(Rises(c) /\ Falls(c))
  BY <1>1, <1>2 DEF Rises, Falls
<1>4. OfOneMind(MarketView(c, <<>>))
  BY <1>3 DEF OfOneMind, MarketView, SentimentFromChange, StanceFromChange
<1>5. CASE digest # <<>>
  <2>1. MarketView(c, digest) = ApplyNews(MarketView(c, <<>>), digest[1])
    BY <1>5 DEF MarketView
  <2> QED
    BY <1>4, <2>1 DEF ApplyNews, OfOneMind
<1> QED
  BY <1>4, <1>5

LEMMA NothingWantedIsAvoided ==
  ASSUME NEW view
  PROVE  Preferred(view) \intersect Avoided(view) = {}
BY DEF Preferred, Avoided

\* The facts of the market, for the inputs that the run takes.
LEMMA MarketFactsHold == MarketFactsAreFair
<1>1. \A c \in Changes : c \in Seq(Int)
  <2> SUFFICES ASSUME NEW n \in 0..3, NEW c \in [1..n -> {-100, -21, 0, 21, 100}]
               PROVE  c \in Seq(Int)
    BY DEF Changes
  <2>1. \A i \in 1..n : c[i] \in Int
    OBVIOUS
  <2> QED
    BY <2>1
<1>2. \A d \in Digests : d # <<>> => d[1] \in Counts /\ d = <<d[1]>>
  BY DEF Digests, Counts
<1>3. ASSUME NEW c \in Changes, NEW digest \in Digests
      PROVE  /\ \A better \in Changes :
                  Improves(better, c) => AtLeast(MarketView(better, digest), MarketView(c, digest))
             /\ \A d \in Digests :
                  /\ digest # <<>> /\ d # <<>>
                  /\ d[1].positive >= digest[1].positive /\ d[1].negative <= digest[1].negative
                  => AtLeast(MarketView(c, d), MarketView(c, digest))
  <2>1. ASSUME NEW better \in Changes, Improves(better, c)
        PROVE  AtLeast(MarketView(better, digest), MarketView(c, digest))
    BY <1>1, <1>2, <2>1, BetterIndicesNeverWorsen
  <2>2. ASSUME NEW d \in Digests, digest # <<>> /\ d # <<>>,
               d[1].positive >= digest[1].positive /\ d[1].negative <= digest[1].negative
        PROVE  AtLeast(MarketView(c, d), MarketView(c, digest))
    <3>1. PICK e \in Counts, f \in Counts : e = d[1] /\ f = digest[1] /\ d = <<e>> /\ digest = <<f>>
      BY <1>2, <2>2
    <3> QED
      BY <2>2, <3>1, BetterNewsNeverWorsens
  <2> QED
    BY <2>1, <2>2
<1>4. BetterMarketNeverWorsens
  BY <1>3 DEF BetterMarketNeverWorsens
<1>5. ViewsAreOfOneMind
  BY <1>1, <1>2, DataIsOfOneMind, NothingWantedIsAvoided DEF ViewsAreOfOneMind
<1> QED
  BY <1>4, <1>5 DEF MarketFactsAreFair

-----------------------------------------------------------------------------
(***************************************************************************)
(* The market page.                                                        *)
(***************************************************************************)

\* A set of numbers that is not empty has a largest one.
LEMMA MaxIs ==
  ASSUME NEW S, S \subseteq Int, IsFiniteSet(S), S # {}
  PROVE  Max(S) \in S /\ \A x \in S : x <= Max(S)
<1>1. IsOrder(S, Ascending(S)) /\ \A i, j \in S : <<i, j>> \in Ascending(S) <=> i < j
  BY AscendingOrders
<1>2. PICK n, at : n = Cardinality(S) /\ at = InOrder(S, Ascending(S))
  OBVIOUS
<1>3. /\ n \in Nat /\ at \in [1..n -> S]
      /\ \A x \in S : \E k \in 1..n : at[k] = x
      /\ \A k, l \in 1..n : k < l <=> <<at[k], at[l]>> \in Ascending(S)
  BY <1>1, <1>2, InOrderFacts
<1>4. n \in 1..n
  <2>1. PICK x \in S : TRUE
    OBVIOUS
  <2>2. PICK k \in 1..n : at[k] = x
    BY <1>3
  <2> QED
    BY <1>3, <2>2
<1>5. ASSUME NEW x \in S PROVE x <= at[n]
  <2>1. PICK k \in 1..n : at[k] = x
    BY <1>3
  <2>2. at[n] \in S /\ ~(n < k)
    BY <1>3, <1>4
  <2>3. ~(at[n] < x)
    BY <1>1, <1>3, <1>4, <2>1, <2>2
  <2>4. at[n] \in Int /\ x \in Int
    BY <2>2
  <2> QED
    BY <2>3, <2>4
<1>6. \E m \in S : \A x \in S : m >= x
  BY <1>3, <1>4, <1>5
<1> QED
  BY <1>6 DEF Max

\* The last two of a set of numbers that has most of the largest of another.
LEMMA LastTwo ==
  ASSUME NEW days, days \subseteq Int, IsFiniteSet(days),
         NEW most \in Nat \ {0, 1}, NEW C, C \subseteq days, Cardinality(C) = most,
         \A d \in C : Cardinality({e \in days : e > d}) < most,
         NEW at, at = InOrder(C, Ascending(C))
  PROVE  /\ at \in [1..most -> C] /\ at[most - 1] < at[most]
         /\ \A e \in days : e > at[most - 1] => e = at[most]
<1>1. IsFiniteSet(C) /\ C \subseteq Int
  BY FS_Subset
<1>2. IsOrder(C, Ascending(C)) /\ \A i, j \in C : <<i, j>> \in Ascending(C) <=> i < j
  BY <1>1, AscendingOrders
<1>3. /\ at \in [1..most -> C]
      /\ \A x \in C : \E k \in 1..most : at[k] = x
      /\ \A k, l \in 1..most : k < l <=> <<at[k], at[l]>> \in Ascending(C)
  <2>1. PICK R : R = Ascending(C)
    OBVIOUS
  <2>2. /\ most = Cardinality(C) /\ IsFiniteSet(C) /\ IsOrder(C, R) /\ at = InOrder(C, R)
    BY <1>1, <1>2, <2>1
  <2>3. /\ at \in [1..most -> C]
        /\ \A x \in C : \E k \in 1..most : at[k] = x
        /\ \A k, l \in 1..most : k < l <=> <<at[k], at[l]>> \in R
    BY ONLY <2>2, InOrderFacts
  <2> QED
    BY <2>1, <2>3
<1>4. \A k, l \in 1..most : k < l <=> at[k] < at[l]
  BY <1>2, <1>3
<1>5. 1 \in 1..most /\ most - 1 \in 1..most /\ most \in 1..most /\ most - 1 < most
  OBVIOUS
<1>6. at[most - 1] < at[most]
  BY <1>4, <1>5
<1> DEFINE first == at[1]
           Higher == {e \in days : e > first}
<1>7. first \in C /\ \A d \in C : d = first \/ d > first
  <2>1. first \in C
    BY <1>3, <1>5
  <2>2. ASSUME NEW d \in C, d # first PROVE d > first
    <3>1. PICK k \in 1..most : at[k] = d
      BY <1>3
    <3>2. 1 < k
      BY <2>2, <3>1
    <3>3. at[1] < at[k]
      BY <1>4, <1>5, <3>2
    <3> QED
      BY <1>1, <2>1, <3>1, <3>3
  <2> QED
    BY <2>1, <2>2
<1> HIDE DEF first
<1>8. Cardinality(Higher) < most /\ IsFiniteSet(Higher) /\ Cardinality(Higher) \in Nat
  <2>1. IsFiniteSet(Higher)
    BY FS_Subset
  <2> QED
    BY <1>7, <2>1, FS_CardinalityType
<1>9. C \ {first} \subseteq Higher
  BY <1>7
<1>10. Cardinality(C \ {first}) = most - 1 /\ IsFiniteSet(C \ {first})
  BY <1>1, <1>7, FS_RemoveElement
<1>11. Cardinality(C \ {first}) = Cardinality(Higher)
  <2>1. Cardinality(C \ {first}) <= Cardinality(Higher)
    BY <1>8, <1>9, FS_Subset
  <2> QED
    BY <1>8, <1>10, <2>1
<1>12. C \ {first} = Higher
  BY <1>8, <1>9, <1>11, FS_Subset
<1>13. ASSUME NEW e \in days, e > at[most - 1] PROVE e = at[most]
  <2>1. e > first
    <3>1. at[most - 1] \in C /\ first \in C
      BY <1>3, <1>5, <1>7
    <3>2. at[most - 1] \in Int /\ first \in Int /\ e \in Int
      BY <1>1, <3>1
    <3>3. at[most - 1] = first \/ at[most - 1] > first
      BY <1>7, <3>1
    <3> QED
      BY <1>13, <3>2, <3>3
  <2>2. e \in C
    BY <1>12, <2>1
  <2>3. PICK k \in 1..most : at[k] = e
    BY <1>3, <2>2
  <2>4. most - 1 < k
    BY <1>4, <1>5, <1>13, <2>3
  <2>5. k = most
    BY <2>4
  <2> QED
    BY <2>3, <2>5
<1> QED
  BY <1>3, <1>6, <1>13

LEMMA NewestIs ==
  ASSUME NEW days, days \subseteq Days
  PROVE  /\ days = {} => Newest(days) = 0
         /\ days # {} => Newest(days) \in days /\ \A d \in days : d <= Newest(days)
<1>1. days \subseteq Int
  BY WatchlistAssumption
<1>2. IsFiniteSet(days)
  BY WatchlistAssumption, FS_Subset
<1> QED
  BY <1>1, <1>2, MaxIs DEF Newest, NoDay

\* A snapshot of the watchlist that is accepted is of one day, for every watchlist, any
\* trading days and however their rows come in between the queries: the last two points
\* of each chart are the two days whose closes are compared.
THEOREM AcceptedPricesAreOfOneDay ==
  ASSUME NEW table, DaysComeInOrder(table),
         \A r \in Stocks \X Days : table[r].seen \in Nat
  PROVE  ShowsOneDay(table)
<1> DEFINE latest == LatestDate(table)
           previous == PreviousDate(table)
           days(q) == DaysOfRows(Seen(table, q))
           closes(s) == {d \in RecentDates(table) : /\ <<s, d>> \in Seen(table, 5)
                                                    /\ table[<<s, d>>].filled # "nothing"}
<1> SUFFICES ASSUME Fetched(table) # <<>>, Validated(Fetched(table)[1]), NEW s \in Stocks
             PROVE  /\ Fetched(table)[1].closes[s][TrendDays] = Fetched(table)[1].asOf
                    /\ Fetched(table)[1].closes[s][TrendDays - 1] = Fetched(table)[1].previous
  BY DEF ShowsOneDay
<1>1. /\ Priced(table, latest) = Stocks /\ Priced(table, previous) = Stocks
      /\ \A t \in Stocks : Len(RecentCloses(table, t)) = TrendDays
      /\ Fetched(table) = <<[asOf |-> latest, previous |-> previous,
                             closes |-> [t \in Stocks |-> RecentCloses(table, t)]]>>
  BY DEF Fetched
<1>2. /\ Fetched(table)[1].asOf = latest /\ Fetched(table)[1].previous = previous
      /\ Fetched(table)[1].closes[s] = RecentCloses(table, s)
  BY <1>1
<1>3. RecentCloses(table, s)[TrendDays] = latest
  BY <1>2 DEF Validated
<1>4. \A q : days(q) \subseteq Days
  BY DEF DaysOfRows, Seen
<1>5. \A q, d : d \in days(q) <=> d \in Days /\ \E t \in Stocks : table[<<t, d>>].seen < q
  <2> TAKE q, d
  <2>1. \A r \in Stocks \X Days : r = <<r[1], r[2]>> /\ r[1] \in Stocks /\ r[2] \in Days
    OBVIOUS
  <2>2. days(q) = {r[2] : r \in {x \in Stocks \X Days : table[x].seen < q}}
    BY DEF DaysOfRows, Seen
  <2>3. ASSUME d \in days(q)
        PROVE  d \in Days /\ \E t \in Stocks : table[<<t, d>>].seen < q
    <3>1. PICK r \in Stocks \X Days : table[r].seen < q /\ d = r[2]
      BY <2>2, <2>3
    <3> QED
      BY <2>1, <3>1
  <2>4. ASSUME d \in Days, NEW t \in Stocks, table[<<t, d>>].seen < q
        PROVE  d \in days(q)
    <3>1. <<t, d>> \in Stocks \X Days /\ <<t, d>>[2] = d
      BY <2>4
    <3> QED
      BY <2>2, <2>4, <3>1
  <2> QED
    BY <2>3, <2>4
<1> HIDE DEF days
<1>6. latest \in Days /\ previous \in Days
  <2>1. \A d : Priced(table, d) = Stocks => d \in Days
    BY WatchlistAssumption DEF Priced, Seen
  <2> QED
    BY <1>1, <2>1
<1>7. latest \in days(1)
  <2>1. latest = Newest(days(1))
    BY DEF LatestDate, days
  <2>2. 0 \notin Days
    BY WatchlistAssumption
  <2> HIDE DEF latest
  <2> QED
    BY <1>4, <1>6, <2>1, <2>2, NewestIs
<1>8. /\ previous \in days(2) /\ previous < latest
      /\ \A d \in days(2) : d < latest => d <= previous
  <2> DEFINE E == {d \in days(2) : d < latest}
  <2>1. previous = Newest(E)
    BY DEF PreviousDate, days
  <2>2. E \subseteq Days
    BY <1>4
  <2>3. 0 \notin Days
    BY WatchlistAssumption
  <2>4. previous \in E /\ \A d \in E : d <= previous
    <3> HIDE DEF E, previous, latest
    <3> QED
      BY <1>6, <2>1, <2>2, <2>3, NewestIs
  <2> QED
    BY <2>4
<1> HIDE DEF latest, previous
<1>9. \A d : d \in days(1) \/ d \in days(2) => d \in days(4)
  <2> TAKE d
  <2>1. ASSUME NEW q \in {1, 2}, d \in days(q) PROVE d \in days(4)
    <3>1. PICK t \in Stocks : d \in Days /\ table[<<t, d>>].seen < q
      BY <1>5, <2>1
    <3>2. table[<<t, d>>].seen \in Nat
      BY <3>1
    <3>3. table[<<t, d>>].seen < 4
      BY <3>1, <3>2
    <3> QED
      BY <1>5, <3>1, <3>3
  <2> QED
    BY <2>1
<1>10. RecentDates(table) = {d \in days(4) : Cardinality({e \in days(4) : e > d}) < TrendDays}
  BY DEF RecentDates, days
<1> DEFINE C == closes(s)
           at == InOrder(C, Ascending(C))
<1>11. C \subseteq RecentDates(table) /\ C \subseteq days(4)
  BY <1>10
<1>12. RecentCloses(table, s) = at
  BY DEF RecentCloses
<1>13. days(4) \subseteq Int /\ IsFiniteSet(days(4))
  <2>1. days(4) \subseteq Days
    BY ONLY <1>4
  <2>2. Days \subseteq Int /\ IsFiniteSet(Days)
    BY ONLY WatchlistAssumption
  <2>3. PICK E : E = days(4)
    OBVIOUS
  <2>4. E \subseteq Int
    BY ONLY <2>1, <2>2, <2>3
  <2>5. IsFiniteSet(E)
    BY ONLY <2>1, <2>2, <2>3, FS_Subset, Zenon
  <2> QED
    BY ONLY <2>3, <2>4, <2>5
<1>14. \A d \in C : Cardinality({e \in days(4) : e > d}) < TrendDays
  BY <1>10, <1>11
<1> HIDE DEF C, closes
<1>15. Cardinality(C) = TrendDays
  <2>1. IsFiniteSet(C) /\ C \subseteq Int
    BY <1>11, <1>13, FS_Subset
  <2>2. IsOrder(C, Ascending(C))
    BY <2>1, AscendingOrders
  <2>3. PICK n : n = Cardinality(C)
    OBVIOUS
  <2>4. n \in Nat /\ at \in [1..n -> C]
    BY <2>1, <2>2, <2>3, InOrderFacts
  <2>5. Len(at) = n
    <3> HIDE DEF at
    <3> QED
      BY <2>4
  <2> QED
    BY <1>1, <1>12, <2>3, <2>5
<1>16. /\ at \in [1..TrendDays -> C] /\ at[TrendDays - 1] < at[TrendDays]
       /\ \A e \in days(4) : e > at[TrendDays - 1] => e = at[TrendDays]
  BY <1>11, <1>13, <1>14, <1>15, WatchlistAssumption, LastTwo
<1> HIDE DEF at
<1>17. PICK p : p = at[TrendDays - 1]
  OBVIOUS
<1>18. /\ p \in C /\ p < latest
       /\ \A e \in days(4) : e > p => e = latest
  <2>1. TrendDays - 1 \in 1..TrendDays
    BY WatchlistAssumption
  <2> QED
    BY <1>3, <1>12, <1>16, <1>17, <2>1
<1>19. p \in Days /\ p \in Int /\ latest \in Int /\ previous \in Int
  <2>1. Days \subseteq Int
    BY WatchlistAssumption
  <2>2. p \in Days
    BY <1>4, <1>11, <1>18
  <2> QED
    BY <1>6, <2>1, <2>2
<1>20. ~(previous > p)
  <2>1. previous \in days(4)
    BY <1>8, <1>9
  <2> QED
    BY <1>8, <1>18, <1>19, <2>1
<1>21. p \in days(2)
  <2>1. PICK t \in Stocks : table[<<t, latest>>].seen < 1
    BY <1>5, <1>7
  <2>2. PICK u \in Stocks : table[<<u, p>>].seen <= table[<<t, latest>>].seen
    BY <1>6, <1>18, <1>19 DEF DaysComeInOrder
  <2>3. table[<<t, latest>>].seen \in Nat /\ table[<<u, p>>].seen \in Nat
    BY <1>6, <1>19
  <2>4. table[<<u, p>>].seen < 2
    BY <2>1, <2>2, <2>3
  <2> QED
    BY <1>5, <1>19, <2>4
<1>22. p <= previous
  BY <1>8, <1>18, <1>21
<1>23. p = previous
  BY <1>19, <1>20, <1>22
<1> QED
  BY <1>2, <1>3, <1>12, <1>17, <1>23
\* A slice of a list.
LEMMA FirstOfIs ==
  ASSUME NEW n \in Nat, NEW S, NEW at \in [1..n -> S], NEW limit \in Nat
  PROVE  \E m \in 0..n : /\ m <= limit /\ (m < limit => m = n)
                         /\ FirstOf(at, limit) = [k \in 1..m |-> at[k]]
<1>1. Len(at) = n
  OBVIOUS
<1>2. PICK m : m = IF limit < n THEN limit ELSE n
  OBVIOUS
<1>3. m \in 0..n /\ m <= limit /\ (m < limit => m = n)
  BY <1>2
<1>4. FirstOf(at, limit) = [k \in 1..m |-> at[k]]
  BY <1>1, <1>2 DEF FirstOf
<1> QED
  BY <1>3, <1>4

\* By size, the largest first, and by number where sizes are equal: an order.
LEMMA SizesOrder ==
  ASSUME NEW S, \A i \in S : i \in Int, NEW size, \A i \in S : size[i] \in Int, NEW R,
         \A i, j \in S : <<i, j>> \in R <=> size[i] > size[j] \/ (size[i] = size[j] /\ i < j)
  PROVE  IsOrder(S, R)
<1>1. ASSUME NEW i \in S, NEW j \in S
      PROVE  /\ <<i, j>> \in R => <<j, i>> \notin R
             /\ i # j => <<i, j>> \in R \/ <<j, i>> \in R
  <2>1. i \in Int /\ j \in Int /\ size[i] \in Int /\ size[j] \in Int
    OBVIOUS
  <2>2. /\ <<i, j>> \in R <=> size[i] > size[j] \/ (size[i] = size[j] /\ i < j)
        /\ <<j, i>> \in R <=> size[j] > size[i] \/ (size[j] = size[i] /\ j < i)
    OBVIOUS
  <2> QED
    BY ONLY <2>1, <2>2
<1>2. ASSUME NEW i \in S, NEW j \in S, NEW k \in S, <<i, j>> \in R, <<j, k>> \in R
      PROVE  <<i, k>> \in R
  <2>1. i \in Int /\ j \in Int /\ k \in Int /\ size[i] \in Int /\ size[j] \in Int /\ size[k] \in Int
    OBVIOUS
  <2>2. /\ size[i] > size[j] \/ (size[i] = size[j] /\ i < j)
        /\ size[j] > size[k] \/ (size[j] = size[k] /\ j < k)
    BY <1>2
  <2>3. size[i] > size[k] \/ (size[i] = size[k] /\ i < k)
    BY ONLY <2>1, <2>2
  <2> QED
    BY <2>3
<1> QED
  BY <1>1, <1>2 DEF IsOrder

\* What split_rankings lists moved, and nothing that it leaves out moved more.
LEMMA RankingIs ==
  ASSUME NEW changes \in Seq(Int), NEW limit \in Nat, NEW gains \in BOOLEAN,
         NEW size, size = [i \in DOMAIN changes |-> IF gains THEN changes[i] ELSE -changes[i]],
         NEW listed, listed = Range(Ranking(changes, limit, gains))
  PROVE  /\ \A i \in listed : i \in DOMAIN changes /\ size[i] > 0
         /\ \A i \in DOMAIN changes \ listed, j \in listed : size[i] <= size[j]
<1> DEFINE moved == {i \in DOMAIN changes : size[i] > 0}
           before == {p \in moved \X moved : \/ size[p[1]] > size[p[2]]
                                             \/ size[p[1]] = size[p[2]] /\ p[1] < p[2]}
<1>1. /\ Len(changes) \in Nat /\ DOMAIN changes = 1..Len(changes)
      /\ \A i \in DOMAIN changes : changes[i] \in Int /\ size[i] \in Int /\ i \in Int
  BY LenProperties
<1>2. Ranking(changes, limit, gains) = FirstOf(InOrder(moved, before), limit)
  <2> DEFINE step(i) == IF gains THEN changes[i] ELSE -changes[i]
             there == {i \in DOMAIN changes : step(i) > 0}
             ahead == {p \in there \X there : \/ step(p[1]) > step(p[2])
                                              \/ step(p[1]) = step(p[2]) /\ p[1] < p[2]}
  <2>1. Ranking(changes, limit, gains) = FirstOf(InOrder(there, ahead), limit)
    BY DEF Ranking
  <2>2. \A i \in DOMAIN changes : step(i) = size[i]
    OBVIOUS
  <2> HIDE DEF step
  <2>3. there = moved
    BY <2>2
  <2>4. ahead = before
    <3>1. \A p \in moved \X moved : p[1] \in DOMAIN changes /\ p[2] \in DOMAIN changes
      OBVIOUS
    <3> QED
      BY <2>2, <2>3, <3>1
  <2> QED
    BY <2>1, <2>3, <2>4
<1>3. IsFiniteSet(moved)
  <2>1. IsFiniteSet(1..Len(changes))
    BY <1>1, FS_Interval
  <2> QED
    BY <1>1, <2>1, FS_Subset
<1>4. \A i, j \in moved : <<i, j>> \in before <=> \/ size[i] > size[j]
                                                  \/ size[i] = size[j] /\ i < j
  OBVIOUS
<1>5. \A i \in moved : i \in DOMAIN changes /\ size[i] \in Int /\ size[i] > 0 /\ i \in Int
  BY <1>1
<1>6. \A i \in DOMAIN changes : i \notin moved => ~(size[i] > 0)
  OBVIOUS
<1> HIDE DEF moved, before
<1>7. IsOrder(moved, before)
  <2>1. /\ \A i \in moved : i \in Int
        /\ \A i \in moved : size[i] \in Int
    BY <1>5
  <2> QED
    BY ONLY <1>4, <2>1, SizesOrder
<1>8. PICK n, at : n = Cardinality(moved) /\ at = InOrder(moved, before)
  OBVIOUS
<1>9. /\ n \in Nat /\ at \in [1..n -> moved]
      /\ \A x \in moved : \E k \in 1..n : at[k] = x
      /\ \A k, l \in 1..n : k < l <=> <<at[k], at[l]>> \in before
  BY <1>3, <1>7, <1>8, InOrderFacts
<1>10. PICK m \in 0..n : /\ m <= limit /\ (m < limit => m = n)
                         /\ FirstOf(at, limit) = [k \in 1..m |-> at[k]]
  <2>1. n \in Nat /\ at \in [1..n -> moved] /\ limit \in Nat
    BY <1>9
  <2> QED
    BY ONLY <2>1, FirstOfIs
<1>11. listed = {at[k] : k \in 1..m}
  <2>1. listed = Range(FirstOf(at, limit))
    BY <1>2, <1>8
  <2>2. PICK f : f = FirstOf(at, limit) /\ f = [k \in 1..m |-> at[k]]
    BY <1>10
  <2>3. DOMAIN f = 1..m /\ \A k \in 1..m : f[k] = at[k]
    BY <2>2
  <2> QED
    BY ONLY <2>1, <2>2, <2>3 DEF Range
<1>12. \A k \in 1..m : k \in 1..n
  BY <1>9, <1>10
<1>13. listed \subseteq moved
  BY <1>9, <1>11, <1>12
<1>14. ASSUME NEW i \in DOMAIN changes, i \notin listed, NEW j \in listed
       PROVE  size[i] <= size[j]
  <2>1. j \in moved /\ size[j] \in Int /\ size[j] > 0 /\ size[i] \in Int
    BY <1>1, <1>5, <1>13
  <2>2. CASE i \notin moved
    BY <1>6, <2>1, <2>2
  <2>3. CASE i \in moved
    <3>1. PICK k \in 1..m, l \in 1..n : at[k] = j /\ at[l] = i
      BY <1>9, <1>11, <2>3
    <3>2. l \notin 1..m
      BY <1>11, <1>14, <3>1
    <3>3. k < l /\ k \in 1..n
      BY <1>9, <1>12, <3>1, <3>2
    <3>4. <<j, i>> \in before
      BY <1>9, <3>1, <3>3
    <3>5. size[j] > size[i] \/ (size[j] = size[i] /\ j < i)
      BY <1>4, <2>1, <2>3, <3>4
    <3> QED
      BY ONLY <2>1, <3>5
  <2> QED
    BY <2>2, <2>3
<1> QED
  BY <1>5, <1>13, <1>14

\* The lists of gainers and losers are honest for any changes and any length of them.
THEOREM RankingsAreAlwaysHonest ==
  ASSUME NEW changes \in Seq(Int), NEW limit \in Nat, NEW gains \in BOOLEAN
  PROVE  RankingIsHonest(changes, limit, gains)
<1> DEFINE size(g) == [i \in DOMAIN changes |-> IF g THEN changes[i] ELSE -changes[i]]
           listed(g) == Range(Ranking(changes, limit, g))
<1>1. ASSUME NEW g \in BOOLEAN
      PROVE  /\ \A i \in listed(g) : i \in DOMAIN changes /\ size(g)[i] > 0
             /\ \A i \in DOMAIN changes \ listed(g), j \in listed(g) : size(g)[i] <= size(g)[j]
  <2>1. PICK s, l : s = size(g) /\ l = listed(g)
    OBVIOUS
  <2>2. /\ \A i \in l : i \in DOMAIN changes /\ s[i] > 0
        /\ \A i \in DOMAIN changes \ l, j \in l : s[i] <= s[j]
    BY <2>1, RankingIs
  <2> QED
    BY <2>1, <2>2
<1>2. \A i \in DOMAIN changes : changes[i] \in Int
  BY LenProperties
<1>3. \A g \in BOOLEAN, i \in DOMAIN changes :
        size(g)[i] = IF g THEN changes[i] ELSE -changes[i]
  OBVIOUS
<1> HIDE DEF size, listed
<1>4. ASSUME NEW i \in listed(gains), i \in listed(~gains) PROVE FALSE
  <2>1. i \in DOMAIN changes /\ size(gains)[i] > 0 /\ size(~gains)[i] > 0
    BY <1>1, <1>4
  <2>2. changes[i] \in Int
    BY <1>2, <2>1
  <2>3. CASE gains
    <3>1. size(gains)[i] = changes[i] /\ size(~gains)[i] = -changes[i]
      BY <1>3, <2>1, <2>3
    <3> QED
      BY ONLY <2>1, <2>2, <3>1
  <2>4. CASE ~gains
    <3>1. size(gains)[i] = -changes[i] /\ size(~gains)[i] = changes[i]
      BY <1>3, <2>1, <2>4
    <3> QED
      BY ONLY <2>1, <2>2, <3>1
  <2> QED
    BY <2>3, <2>4
<1>5. ASSUME NEW i \in listed(gains) PROVE changes[i] # 0
  <2>1. i \in DOMAIN changes /\ size(gains)[i] > 0
    BY <1>1
  <2> QED
    BY <1>2, <1>3, <2>1
<1>6. ASSUME NEW i \in DOMAIN changes \ listed(gains), NEW j \in listed(gains)
      PROVE  IF gains THEN changes[i] <= changes[j] ELSE changes[i] >= changes[j]
  <2>1. i \in DOMAIN changes /\ j \in DOMAIN changes /\ size(gains)[i] <= size(gains)[j]
    BY <1>1
  <2> QED
    BY <1>2, <1>3, <2>1
<1> QED
  BY <1>4, <1>5, <1>6 DEF RankingIsHonest, listed

\* The market page, for the inputs that the run takes.
LEMMA MarketPageHolds == MarketPageIsSound
<1>1. ASSUME NEW table \in Tables PROVE ShowsOneDay(table)
  <2>1. DaysComeInOrder(table) /\ table \in [Stocks \X Days -> RowStates]
    BY DEF Tables
  <2>2. \A r \in Stocks \X Days : table[r].seen \in Nat
    BY <2>1 DEF RowStates, TooLate
  <2> QED
    BY <2>1, <2>2, AcceptedPricesAreOfOneDay
<1>2. ASSUME NEW changes \in [1..4 -> -2..2], NEW gains \in BOOLEAN
      PROVE  RankingIsHonest(changes, 2, gains)
  <2>1. \A i \in 1..4 : changes[i] \in Int
    OBVIOUS
  <2>2. PICK n \in Nat : n = 4
    OBVIOUS
  <2>3. changes \in [1..n -> Int]
    BY <2>1, <2>2
  <2>4. changes \in Seq(Int)
    BY ONLY <2>3, n \in Nat
  <2> QED
    BY <2>4, RankingsAreAlwaysHonest
<1> QED
  BY <1>1, <1>2 DEF MarketPageIsSound, PricesAreOfOneDay, RankingsAreHonest

-----------------------------------------------------------------------------
(***************************************************************************)
(* The order of the candidates.                                            *)
(***************************************************************************)

\* e tells the m places of a filter of a list of n.
Sifts(n, I, m, e) ==
  n \in Nat /\ I \in SUBSET (1..n) /\ m = Cardinality(I) /\ e = InOrder(I, Ascending(I))

\* A filtered list: the members at these places, in their order.
LEMMA SiftedIs ==
  ASSUME NEW n, NEW I, NEW m, NEW e, Sifts(n, I, m, e)
  PROVE  /\ m \in Nat /\ e \in [1..m -> I]
         /\ \A i \in I : \E k \in 1..m : e[k] = i
         /\ \A k, l \in 1..m : k < l <=> e[k] < e[l]
         /\ \A k, l \in 1..m : e[k] = e[l] => k = l
         /\ \A s : /\ Sifted(s, I) = [k \in 1..m |-> s[e[k]]]
                   /\ Len(Sifted(s, I)) = m
<1>0. n \in Nat /\ I \in SUBSET (1..n) /\ m = Cardinality(I) /\ e = InOrder(I, Ascending(I))
  BY DEF Sifts
<1>1. IsFiniteSet(I)
  <2>1. IsFiniteSet(1..n)
    BY <1>0, IntervalFacts
  <2> QED
    BY <1>0, <2>1, FS_Subset
<1>2. I \in SUBSET Int
  BY <1>0
<1>3. IsOrder(I, Ascending(I)) /\ \A i, j \in I : <<i, j>> \in Ascending(I) <=> i < j
  BY <1>2, AscendingOrders
<1>4. /\ m \in Nat /\ e \in [1..m -> I]
      /\ \A i \in I : \E k \in 1..m : e[k] = i
      /\ \A k, l \in 1..m : k < l <=> <<e[k], e[l]>> \in Ascending(I)
      /\ \A k, l \in 1..m : e[k] = e[l] => k = l
  BY ONLY <1>0, <1>1, <1>3, InOrderFacts
<1>5. \A k, l \in 1..m : k < l <=> e[k] < e[l]
  BY <1>3, <1>4
<1>6. \A s : Sifted(s, I) = [k \in 1..m |-> s[e[k]]]
  BY <1>0 DEF Sifted, Arranged
<1>7. \A s : Len(Sifted(s, I)) = m
  BY <1>4, <1>6
<1> QED
  BY <1>4, <1>5, <1>6, <1>7

\* at tells the places of 1..n in order.
OrderedBy(at, n, R) ==
  /\ at \in [1..n -> 1..n]
  /\ \A i \in 1..n : \E k \in 1..n : at[k] = i
  /\ \A k, l \in 1..n : k < l <=> <<at[k], at[l]>> \in R
  /\ \A k, l \in 1..n : at[k] = at[l] => k = l

\* A list in order: each of its members once, what comes before first.
LEMMA ArrangedIs ==
  ASSUME NEW n \in Nat, NEW R, IsOrder(1..n, R), NEW at, at = InOrder(1..n, R)
  PROVE  /\ OrderedBy(at, n, R)
         /\ \A s : Arranged(s, 1..n, R) = [k \in 1..n |-> s[at[k]]]
<1>1. IsFiniteSet(1..n) /\ Cardinality(1..n) = n
  BY IntervalFacts
<1>2. PICK D : D = 1..n
  OBVIOUS
<1>3. IsFiniteSet(D) /\ n = Cardinality(D) /\ IsOrder(D, R) /\ at = InOrder(D, R)
  BY <1>1, <1>2
<1>4. /\ at \in [1..n -> D]
      /\ \A x \in D : \E k \in 1..n : at[k] = x
      /\ \A k, l \in 1..n : k < l <=> <<at[k], at[l]>> \in R
      /\ \A k, l \in 1..n : at[k] = at[l] => k = l
  BY ONLY <1>3, InOrderFacts
<1>5. \A s : Arranged(s, 1..n, R) = [k \in 1..n |-> s[at[k]]]
  BY <1>1 DEF Arranged
<1>6. OrderedBy(at, n, R)
  BY <1>2, <1>4 DEF OrderedBy
<1> QED
  BY <1>5, <1>6

\* A list in order has the members of the list.
LEMMA SameMembers ==
  ASSUME NEW n, NEW s, DOMAIN s = 1..n, NEW at, NEW R, OrderedBy(at, n, R)
  PROVE  Range([k \in 1..n |-> s[at[k]]]) = Range(s)
<1>1. /\ \A k \in 1..n : at[k] \in 1..n
      /\ \A i \in 1..n : \E k \in 1..n : at[k] = i
  BY DEF OrderedBy
<1>2. Range([k \in 1..n |-> s[at[k]]]) = {s[at[k]] : k \in 1..n}
  BY DEF Range
<1>3. Range(s) = {s[i] : i \in 1..n}
  BY DEF Range
<1>4. {s[at[k]] : k \in 1..n} = {s[i] : i \in 1..n}
  BY ONLY <1>1, Zenon
<1> QED
  BY <1>2, <1>3, <1>4

\* An interval is in its own order.
LEMMA IntervalInOrder ==
  ASSUME NEW m \in Nat, NEW s, s = [k \in 1..m |-> s[k]]
  PROVE  Arranged(s, 1..m, Ascending(1..m)) = s
<1>1. IsOrder(1..m, Ascending(1..m)) /\ \A i, j \in 1..m : <<i, j>> \in Ascending(1..m) <=> i < j
  BY AscendingOrders
<1>2. PICK at : at = InOrder(1..m, Ascending(1..m))
  OBVIOUS
<1>3. /\ at \in [1..m -> 1..m]
      /\ \A i \in 1..m : \E k \in 1..m : at[k] = i
      /\ \A k, l \in 1..m : k < l <=> at[k] < at[l]
      /\ Arranged(s, 1..m, Ascending(1..m)) = [k \in 1..m |-> s[at[k]]]
  <2>1. PICK R : R = Ascending(1..m)
    OBVIOUS
  <2>2. m \in Nat /\ IsOrder(1..m, R) /\ at = InOrder(1..m, R)
    BY <1>1, <1>2, <2>1
  <2>3. /\ OrderedBy(at, m, R)
        /\ Arranged(s, 1..m, R) = [k \in 1..m |-> s[at[k]]]
    BY ONLY <2>2, ArrangedIs
  <2> QED
    BY <1>1, <2>1, <2>3 DEF OrderedBy
<1>4. \A k \in 1..m : Rank(1..m, Ascending(1..m), k) = k - 1
  <2> TAKE k \in 1..m
  <2>1. PICK j \in Nat : j = k - 1
    OBVIOUS
  <2>2. {y \in 1..m : <<y, k>> \in Ascending(1..m)} = 1..j
    BY <1>1, <2>1
  <2>3. Cardinality(1..j) = j
    BY <2>1, IntervalFacts
  <2> QED
    BY <2>1, <2>2, <2>3 DEF Rank
<1>5. \A k \in 1..m : at[k] = k
  <2> TAKE k \in 1..m
  <2>1. PICK D, n : D = 1..m /\ n = m
    OBVIOUS
  <2>2. IsFiniteSet(D) /\ n = Cardinality(D) /\ IsOrder(D, Ascending(D)) /\ at = InOrder(D, Ascending(D))
    BY <1>1, <1>2, <2>1, IntervalFacts
  <2>3. \A l \in 1..n : Rank(D, Ascending(D), at[l]) = l - 1
    BY ONLY <2>2, InOrderFacts
  <2>4. at[k] - 1 = k - 1 /\ at[k] \in 1..m
    BY <1>3, <1>4, <2>1, <2>3
  <2> QED
    BY <2>4
<1> QED
  BY <1>3, <1>5

\* The comparison of two keys of three numbers.
LEMMA LessIs ==
  ASSUME NEW a \in Int, NEW b \in Int, NEW c \in Int, NEW d \in Int, NEW e \in Int, NEW f \in Int
  PROVE  Less(<<a, b, c>>, <<d, e, f>>)
           <=> a < d \/ (a = d /\ b < e) \/ (a = d /\ b = e /\ c < f)
<1> DEFINE k == <<a, b, c>>
           l == <<d, e, f>>
           At(i) == k[i] < l[i] /\ \A j \in 1..(i - 1) : k[j] = l[j]
<1>1. DOMAIN k = {1, 2, 3}
  OBVIOUS
<1>2. Less(k, l) <=> At(1) \/ At(2) \/ At(3)
  BY <1>1 DEF Less
<1>3. At(1) <=> a < d
  OBVIOUS
<1>4. At(2) <=> a = d /\ b < e
  OBVIOUS
<1>5. At(3) <=> a = d /\ b = e /\ c < f
  <2>1. \A j : j \in 1..(3 - 1) <=> j = 1 \/ j = 2
    OBVIOUS
  <2> QED
    BY <2>1
<1> HIDE DEF At
<1> QED
  BY <1>2, <1>3, <1>4, <1>5

\* An order by three numbers and then by place.
ByThree(R, n, p, q, h) ==
  /\ p \in [1..n -> Int] /\ q \in [1..n -> Int] /\ h \in [1..n -> Int]
  /\ IsOrder(1..n, R)
  /\ \A i, j \in 1..n :
       <<i, j>> \in R <=> \/ p[i] < p[j] \/ (p[i] = p[j] /\ q[i] < q[j])
                          \/ (p[i] = p[j] /\ q[i] = q[j] /\ h[i] < h[j])
                          \/ (p[i] = p[j] /\ q[i] = q[j] /\ h[i] = h[j] /\ i < j)

\* What such numbers say is an order.
LEMMA ThreeOrder ==
  ASSUME NEW n \in Nat, NEW p \in [1..n -> Int], NEW q \in [1..n -> Int], NEW h \in [1..n -> Int],
         NEW R,
         \A i, j \in 1..n :
           <<i, j>> \in R <=> \/ p[i] < p[j] \/ (p[i] = p[j] /\ q[i] < q[j])
                              \/ (p[i] = p[j] /\ q[i] = q[j] /\ h[i] < h[j])
                              \/ (p[i] = p[j] /\ q[i] = q[j] /\ h[i] = h[j] /\ i < j)
  PROVE  ByThree(R, n, p, q, h)
<1>1. \A i, j \in 1..n :
        <<i, j>> \in R <=> \/ p[i] < p[j] \/ (p[i] = p[j] /\ q[i] < q[j])
                           \/ (p[i] = p[j] /\ q[i] = q[j] /\ h[i] < h[j])
                           \/ (p[i] = p[j] /\ q[i] = q[j] /\ h[i] = h[j] /\ i < j)
  OBVIOUS
<1>2. \A i \in 1..n : i \in Int /\ p[i] \in Int /\ q[i] \in Int /\ h[i] \in Int
  OBVIOUS
<1>3. ASSUME NEW i \in 1..n, NEW j \in 1..n
      PROVE  /\ <<i, j>> \in R => <<j, i>> \notin R
             /\ i # j => <<i, j>> \in R \/ <<j, i>> \in R
  <2>1. PICK a, b, c, x, d, e, f, y : /\ a = p[i] /\ b = q[i] /\ c = h[i] /\ x = i
                                      /\ d = p[j] /\ e = q[j] /\ f = h[j] /\ y = j
    OBVIOUS
  <2>2. /\ a \in Int /\ b \in Int /\ c \in Int /\ x \in Int
        /\ d \in Int /\ e \in Int /\ f \in Int /\ y \in Int
    BY <1>2, <2>1
  <2>3. /\ <<i, j>> \in R <=> \/ a < d \/ (a = d /\ b < e) \/ (a = d /\ b = e /\ c < f)
                              \/ (a = d /\ b = e /\ c = f /\ x < y)
        /\ <<j, i>> \in R <=> \/ d < a \/ (d = a /\ e < b) \/ (d = a /\ e = b /\ f < c)
                              \/ (d = a /\ e = b /\ f = c /\ y < x)
    BY <1>1, <2>1
  <2> QED
    BY ONLY <2>1, <2>2, <2>3
<1>4. ASSUME NEW i \in 1..n, NEW j \in 1..n, NEW k \in 1..n, <<i, j>> \in R, <<j, k>> \in R
      PROVE  <<i, k>> \in R
  <2>1. PICK a, b, c, x, d, e, f, y, u, v, w, z :
               /\ a = p[i] /\ b = q[i] /\ c = h[i] /\ x = i
               /\ d = p[j] /\ e = q[j] /\ f = h[j] /\ y = j
               /\ u = p[k] /\ v = q[k] /\ w = h[k] /\ z = k
    OBVIOUS
  <2>2. /\ a \in Int /\ b \in Int /\ c \in Int /\ x \in Int
        /\ d \in Int /\ e \in Int /\ f \in Int /\ y \in Int
        /\ u \in Int /\ v \in Int /\ w \in Int /\ z \in Int
    BY <1>2, <2>1
  <2>3. /\ \/ a < d \/ (a = d /\ b < e) \/ (a = d /\ b = e /\ c < f)
           \/ (a = d /\ b = e /\ c = f /\ x < y)
        /\ \/ d < u \/ (d = u /\ e < v) \/ (d = u /\ e = v /\ f < w)
           \/ (d = u /\ e = v /\ f = w /\ y < z)
    BY <1>1, <1>4, <2>1
  <2>4. \/ a < u \/ (a = u /\ b < v) \/ (a = u /\ b = v /\ c < w)
        \/ (a = u /\ b = v /\ c = w /\ x < z)
    BY ONLY <2>2, <2>3
  <2> QED
    BY <1>1, <2>1, <2>4
<1>5. IsOrder(1..n, R)
  BY <1>3, <1>4 DEF IsOrder
<1> QED
  BY <1>1, <1>5 DEF ByThree

\* The keys give such an order.
LEMMA KeysOrder ==
  ASSUME NEW n \in Nat, NEW p \in [1..n -> Int], NEW q \in [1..n -> Int], NEW h \in [1..n -> Int],
         NEW key, key = [i \in 1..n |-> <<p[i], q[i], h[i]>>], NEW R, R = ByKey(key, 1..n)
  PROVE  ByThree(R, n, p, q, h)
<1>1. ASSUME NEW i \in 1..n, NEW j \in 1..n
      PROVE  <<i, j>> \in R <=> \/ p[i] < p[j] \/ (p[i] = p[j] /\ q[i] < q[j])
                                \/ (p[i] = p[j] /\ q[i] = q[j] /\ h[i] < h[j])
                                \/ (p[i] = p[j] /\ q[i] = q[j] /\ h[i] = h[j] /\ i < j)
  <2>1. <<i, j>> \in R <=> Less(key[i], key[j]) \/ (key[i] = key[j] /\ i < j)
    BY DEF ByKey
  <2>2. key[i] = <<p[i], q[i], h[i]>> /\ key[j] = <<p[j], q[j], h[j]>>
    OBVIOUS
  <2>3. key[i] = key[j] <=> p[i] = p[j] /\ q[i] = q[j] /\ h[i] = h[j]
    BY <2>2
  <2>4. Less(key[i], key[j]) <=> \/ p[i] < p[j] \/ (p[i] = p[j] /\ q[i] < q[j])
                                 \/ (p[i] = p[j] /\ q[i] = q[j] /\ h[i] < h[j])
    <3>1. /\ p[i] \in Int /\ q[i] \in Int /\ h[i] \in Int
          /\ p[j] \in Int /\ q[j] \in Int /\ h[j] \in Int
      OBVIOUS
    <3> QED
      BY <2>2, <3>1, LessIs
  <2> QED
    BY ONLY <2>1, <2>3, <2>4
<1> QED
  BY <1>1, ThreeOrder

\* A hit comes before what was not hit.
LEMMA HitPositionIs ==
  ASSUME NEW Ids, NEW hits \in Seq(Ids), IsInjective(hits), NEW id
  PROVE  /\ Len(hits) \in Nat
         /\ id \in Range(hits) => \A i, j : /\ HitPosition(hits, id, i) = HitPosition(hits, id, j)
                                            /\ HitPosition(hits, id, i) \in 0..(Len(hits) - 1)
         /\ id \notin Range(hits) =>
              \A i : HitPosition(hits, id, i) = Len(hits) + i
         /\ \A k \in 1..Len(hits) : hits[k] = id => \A i : HitPosition(hits, id, i) = k - 1
<1>1. Len(hits) \in Nat /\ DOMAIN hits = 1..Len(hits)
  BY LenProperties
<1>2. \A k, l \in DOMAIN hits : hits[k] = hits[l] => k = l
  BY DEF IsInjective
<1>3. Range(hits) = {hits[k] : k \in DOMAIN hits}
  BY DEF Range
<1>4. Cardinality(Range(hits)) = Len(hits)
  <2>1. PICK A : A = 1..Len(hits)
    OBVIOUS
  <2>2. IsFiniteSet(A) /\ Cardinality(A) = Len(hits)
    BY <1>1, <2>1, IntervalFacts
  <2>3. hits \in [A -> Range(hits)]
    BY <1>1, <1>3, <2>1
  <2>4. hits \in Bijection(A, Range(hits))
    BY <1>1, <1>2, <1>3, <2>1, <2>3 DEF Bijection, Injection, Surjection, IsInjective
  <2> QED
    BY <2>2, <2>4, FS_Bijection DEF ExistsBijection
<1>5. ASSUME NEW k \in DOMAIN hits, hits[k] = id, NEW input
      PROVE  HitPosition(hits, id, input) = k - 1
  <2>1. \A l \in 1..(k - 1) : l \in DOMAIN hits /\ l # k
    BY <1>1
  <2>2. \A l \in 1..(k - 1) : hits[l] # id
    BY <1>2, <1>5, <2>1
  <2>3. (CHOOSE j \in DOMAIN hits : hits[j] = id /\ \A l \in 1..(j - 1) : hits[l] # id) = k
    BY <1>2, <1>5, <2>2
  <2> QED
    BY <1>5, <2>3 DEF HitPosition
<1>6. ASSUME id \notin Range(hits), NEW input
      PROVE  HitPosition(hits, id, input) = Len(hits) + input
  BY <1>3, <1>4, <1>6 DEF HitPosition
<1>7. ASSUME id \in Range(hits)
      PROVE  \E k \in DOMAIN hits : hits[k] = id
  BY <1>3, <1>7
<1>8. \A k \in DOMAIN hits : k - 1 \in 0..(Len(hits) - 1)
  BY <1>1
<1> QED
  BY <1>1, <1>5, <1>6, <1>7, <1>8
LEMMA FundRankIs ==
  ASSUME NEW c, NEW investor
  PROVE  FundRank(c, investor) \in 0..2
BY DEF FundRank

LEMMA HitOrNot ==
  ASSUME NEW Ids, NEW hits \in Seq(Ids), IsInjective(hits), NEW id, NEW i, NEW j
  PROVE  \/ /\ id \in Range(hits) /\ HitPosition(hits, id, i) = HitPosition(hits, id, j)
            /\ HitPosition(hits, id, i) \in 0..(Len(hits) - 1)
         \/ /\ id \notin Range(hits) /\ HitPosition(hits, id, i) = Len(hits) + i
            /\ HitPosition(hits, id, j) = Len(hits) + j
<1>1. CASE id \in Range(hits)
  BY <1>1, HitPositionIs
<1>2. CASE id \notin Range(hits)
  BY <1>2, HitPositionIs
<1> QED
  BY <1>1, <1>2

\* By the hits, x at the place k comes before y at the place l.
HitBefore(hits, x, k, y, l) ==
  \/ HitPosition(hits, x, k) < HitPosition(hits, y, l)
  \/ HitPosition(hits, x, k) = HitPosition(hits, y, l) /\ k < l
\* The places k and l are in the order of i and j.
InTheOrderOf(k, l, i, j) ==
  k \in Nat /\ l \in Nat /\ i \in Nat /\ j \in Nat /\ (k < l <=> i < j)
\* No product is hit twice.
HitOnce(hits) == IsInjective(hits) /\ \E Ids : hits \in Seq(Ids)

\* What the hits say of two candidates does not depend on their places, but for the order
\* of the places.
LEMMA HitsCompare ==
  ASSUME NEW hits, HitOnce(hits), NEW x, NEW y, NEW k, NEW l, NEW i, NEW j, InTheOrderOf(k, l, i, j)
  PROVE  HitBefore(hits, x, k, y, l) <=> HitBefore(hits, x, i, y, j)
<1>0. PICK Ids : IsInjective(hits) /\ hits \in Seq(Ids)
  BY DEF HitOnce
<1>1. PICK w, a, b, c, d :
        /\ w = Len(hits) /\ a = HitPosition(hits, x, k) /\ b = HitPosition(hits, y, l)
        /\ c = HitPosition(hits, x, i) /\ d = HitPosition(hits, y, j)
  OBVIOUS
<1>2. w \in Nat
  BY <1>0, <1>1, LenProperties
<1>3. (a = c /\ a \in 0..(w - 1)) \/ (a = w + k /\ c = w + i)
  BY <1>0, <1>1, HitOrNot
<1>4. (b = d /\ b \in 0..(w - 1)) \/ (b = w + l /\ d = w + j)
  BY <1>0, <1>1, HitOrNot
<1>5. /\ k \in Nat /\ l \in Nat /\ i \in Nat /\ j \in Nat
      /\ (k < l <=> i < j)
  BY DEF InTheOrderOf
<1>6. (a < b \/ (a = b /\ k < l)) <=> (c < d \/ (c = d /\ i < j))
  BY ONLY <1>2, <1>3, <1>4, <1>5
<1> QED
  BY <1>1, <1>6 DEF HitBefore

\* The three numbers of each candidate of a list.
Wish(list, preferred) == [i \in 1..Len(list) |-> IF list[i].category \in preferred THEN 0 ELSE 1]
Fund(list, investor) == [i \in 1..Len(list) |-> FundRank(list[i], investor)]
Hit(list, hits) == [i \in 1..Len(list) |-> HitPosition(hits, list[i].id, i - 1)]

\* The ranking of a list: its order, by wish, by preference for a fund and by hit.
LEMMA RankedIs ==
  ASSUME NEW Cs, NEW list \in Seq(Cs), NEW Ids, NEW hits \in Seq(Ids), IsInjective(hits),
         NEW preferred, NEW investor
  PROVE  \E R : /\ ByThree(R, Len(list), Wish(list, preferred), Fund(list, investor), Hit(list, hits))
                /\ Ranked(list, hits, preferred, investor) = Arranged(list, 1..Len(list), R)
<1>1. PICK n, p, q, h : /\ n = Len(list) /\ p = Wish(list, preferred)
                        /\ q = Fund(list, investor) /\ h = Hit(list, hits)
  OBVIOUS
<1>2. n \in Nat /\ DOMAIN list = 1..n
  BY <1>1, LenProperties
<1>3. /\ p = [i \in 1..n |-> IF list[i].category \in preferred THEN 0 ELSE 1]
      /\ q = [i \in 1..n |-> FundRank(list[i], investor)]
      /\ h = [i \in 1..n |-> HitPosition(hits, list[i].id, i - 1)]
  BY <1>1 DEF Wish, Fund, Hit
<1>4. p \in [1..n -> Int]
  BY <1>3
<1>5. q \in [1..n -> Int]
  BY <1>3, FundRankIs
<1>6. h \in [1..n -> Int]
  <2>1. \A i \in 1..n : HitPosition(hits, list[i].id, i - 1) \in Int
    <3> TAKE i \in 1..n
    <3>1. Len(hits) \in Nat
      BY LenProperties
    <3> QED
      BY <3>1, HitOrNot
  <2> QED
    BY <1>3, <2>1
<1>7. PICK key, R : key = [i \in 1..n |-> <<p[i], q[i], h[i]>>] /\ R = ByKey(key, 1..n)
  OBVIOUS
<1>8. ByThree(R, n, p, q, h)
  BY ONLY <1>2, <1>4, <1>5, <1>6, <1>7, KeysOrder
<1>9. Ranked(list, hits, preferred, investor) = Arranged(list, 1..n, R)
  <2>1. key = [i \in DOMAIN list |->
                 <<IF list[i].category \in preferred THEN 0 ELSE 1,
                   FundRank(list[i], investor), HitPosition(hits, list[i].id, i - 1)>>]
    BY <1>2, <1>3, <1>7
  <2>2. Ranked(list, hits, preferred, investor) = SortedBy(list, key)
    BY <2>1 DEF Ranked
  <2> QED
    BY <1>1, <1>7, <2>2 DEF SortedBy
<1> QED
  BY <1>1, <1>8, <1>9

\* What the filters let through is ranked as it would have been among all, for any list
\* of candidates, any hits of the store and any filter; and nothing is lost or added.
THEOREM RankingKeepsOrder ==
  ASSUME NEW Cs, NEW list \in Seq(Cs), NEW Ids, NEW hits \in Seq(Ids), IsInjective(hits),
         NEW preferred, NEW investor, NEW ids
  PROVE  KeepsOrder(list, hits, preferred, investor, ids)
<1>0. PICK n : n = Len(list)
  OBVIOUS
<1> DEFINE p == Wish(list, preferred)
           q == Fund(list, investor)
           h == Hit(list, hits)
           all == Ranked(list, hits, preferred, investor)
           I == {i \in 1..n : list[i].id \in ids}
           m == Cardinality(I)
           e == InOrder(I, Ascending(I))
           kept == Kept(list, ids)
<1>1. n \in Nat /\ list \in [1..n -> Cs]
  BY <1>0, LenProperties
<1>2. PICK R : ByThree(R, n, p, q, h) /\ all = Arranged(list, 1..n, R)
  BY <1>0, RankedIs
<1>2a. IsOrder(1..n, R)
  BY <1>2 DEF ByThree
<1>3. PICK at : at = InOrder(1..n, R)
  OBVIOUS
<1>3a. OrderedBy(at, n, R) /\ all = [k \in 1..n |-> list[at[k]]]
  <2> HIDE DEF p, q, h, all
  <2> QED
    BY <1>1, <1>2, <1>2a, <1>3, ArrangedIs
<1>4. /\ at \in [1..n -> 1..n]
      /\ \A i \in 1..n : \E k \in 1..n : at[k] = i
      /\ all = [k \in 1..n |-> list[at[k]]]
  <2> HIDE DEF all
  <2> QED
    BY <1>3a DEF OrderedBy
<1>5. Range(all) = Range(list)
  <2>1. DOMAIN list = 1..n
    BY <1>1
  <2> HIDE DEF all
  <2> QED
    BY <1>3a, <2>1, SameMembers
<1>6. I \in SUBSET (1..n)
  OBVIOUS
<1>7. /\ m \in Nat /\ e \in [1..m -> I]
      /\ \A k, l \in 1..m : k < l <=> e[k] < e[l]
      /\ kept = [k \in 1..m |-> list[e[k]]] /\ Len(kept) = m
  <2>1. kept = Sifted(list, I)
    BY <1>0 DEF Kept
  <2>2. m = Cardinality(I) /\ e = InOrder(I, Ascending(I))
    OBVIOUS
  <2> HIDE DEF I, m, e, kept
  <2>3. /\ m \in Nat /\ e \in [1..m -> I]
        /\ \A k, l \in 1..m : k < l <=> e[k] < e[l]
        /\ Sifted(list, I) = [k \in 1..m |-> list[e[k]]]
        /\ Len(Sifted(list, I)) = m
    <3>1. Sifts(n, I, m, e)
      BY <1>1, <1>6, <2>2 DEF Sifts
    <3> QED
      BY ONLY <3>1, SiftedIs
  <2> QED
    BY <2>1, <2>3
<1> HIDE DEF I, m, e, kept, all
<1>8. kept \in [1..m -> Cs] /\ kept \in Seq(Cs)
  <2>1. \A k \in 1..m : list[e[k]] \in Cs
    BY <1>1, <1>6, <1>7
  <2>2. kept \in [1..m -> Cs]
    BY <1>7, <2>1
  <2> QED
    BY ONLY <2>2, <1>7
<1> DEFINE pk == Wish(kept, preferred)
           qk == Fund(kept, investor)
           hk == Hit(kept, hits)
<1>9. PICK Q : /\ ByThree(Q, m, pk, qk, hk)
               /\ Ranked(kept, hits, preferred, investor) = Arranged(kept, 1..m, Q)
  <2>1. PICK Q : /\ ByThree(Q, Len(kept), pk, qk, hk)
                 /\ Ranked(kept, hits, preferred, investor) = Arranged(kept, 1..Len(kept), Q)
    BY <1>8, RankedIs
  <2> QED
    BY <1>7, <2>1
<1>10. ASSUME NEW k \in 1..m
       PROVE  /\ e[k] \in 1..n /\ kept[k] = list[e[k]]
              /\ pk[k] = p[e[k]] /\ qk[k] = q[e[k]]
  <2>1. e[k] \in 1..n /\ kept[k] = list[e[k]]
    BY <1>6, <1>7
  <2> QED
    BY <1>0, <1>7, <2>1 DEF Wish, Fund
<1>11. ASSUME NEW k \in 1..m, NEW l \in 1..m
       PROVE  (hk[k] < hk[l] \/ (hk[k] = hk[l] /\ k < l))
                <=> (h[e[k]] < h[e[l]] \/ (h[e[k]] = h[e[l]] /\ e[k] < e[l]))
  <2>1. /\ e[k] \in 1..n /\ kept[k] = list[e[k]] /\ e[l] \in 1..n /\ kept[l] = list[e[l]]
        /\ (k < l <=> e[k] < e[l])
    BY <1>7, <1>10
  <2>2. PICK x, y, u, v, i, j : /\ x = list[e[k]].id /\ y = list[e[l]].id /\ u = k - 1 /\ v = l - 1
                                /\ i = e[k] - 1 /\ j = e[l] - 1
    OBVIOUS
  <2>3. /\ hk[k] = HitPosition(hits, x, u) /\ hk[l] = HitPosition(hits, y, v)
        /\ h[e[k]] = HitPosition(hits, x, i) /\ h[e[l]] = HitPosition(hits, y, j)
    BY <1>0, <1>7, <2>1, <2>2 DEF Hit
  <2>4. e[k] \in Int /\ e[l] \in Int /\ k \in Int /\ l \in Int
    BY <1>1, <1>7, <2>1
  <2>5. /\ u \in Nat /\ v \in Nat /\ i \in Nat /\ j \in Nat
        /\ (u < v <=> i < j) /\ (u < v <=> k < l) /\ (i < j <=> e[k] < e[l])
    BY <1>1, <1>7, <2>1, <2>2, <2>4
  <2>6. HitBefore(hits, x, u, y, v) <=> HitBefore(hits, x, i, y, j)
    <3>1. HitOnce(hits)
      BY DEF HitOnce
    <3>2. InTheOrderOf(u, v, i, j)
      BY <2>5 DEF InTheOrderOf
    <3> QED
      BY ONLY <3>1, <3>2, HitsCompare
  <2>7. /\ HitBefore(hits, x, u, y, v) <=> hk[k] < hk[l] \/ (hk[k] = hk[l] /\ k < l)
        /\ HitBefore(hits, x, i, y, j)
             <=> h[e[k]] < h[e[l]] \/ (h[e[k]] = h[e[l]] /\ e[k] < e[l])
    BY ONLY <2>3, <2>5 DEF HitBefore
  <2> QED
    BY ONLY <2>6, <2>7
<1> HIDE DEF p, q, h, pk, qk, hk
<1>12. \A k, l \in 1..m : <<k, l>> \in Q <=> <<e[k], e[l]>> \in R
  <2> TAKE k, l \in 1..m
  <2>1. e[k] \in 1..n /\ e[l] \in 1..n
    BY <1>10
  <2>2. <<e[k], e[l]>> \in R
          <=> \/ p[e[k]] < p[e[l]] \/ (p[e[k]] = p[e[l]] /\ q[e[k]] < q[e[l]])
              \/ (p[e[k]] = p[e[l]] /\ q[e[k]] = q[e[l]] /\ h[e[k]] < h[e[l]])
              \/ (p[e[k]] = p[e[l]] /\ q[e[k]] = q[e[l]] /\ h[e[k]] = h[e[l]] /\ e[k] < e[l])
    BY <1>2, <2>1 DEF ByThree
  <2>3. <<k, l>> \in Q <=> \/ pk[k] < pk[l] \/ (pk[k] = pk[l] /\ qk[k] < qk[l])
                           \/ (pk[k] = pk[l] /\ qk[k] = qk[l] /\ hk[k] < hk[l])
                           \/ (pk[k] = pk[l] /\ qk[k] = qk[l] /\ hk[k] = hk[l] /\ k < l)
    BY <1>9 DEF ByThree
  <2>4. /\ pk[k] = p[e[k]] /\ qk[k] = q[e[k]] /\ pk[l] = p[e[l]] /\ qk[l] = q[e[l]]
    BY <1>10
  <2> QED
    BY ONLY <2>2, <2>3, <2>4, <1>11
<1> DEFINE J == {k \in 1..n : InOrder(1..n, R)[k] \in I}
<1>13. Arranged(Sifted(list, I), 1..m, Q) = Sifted(Arranged(list, 1..n, R), J)
  <2>1. m = Cardinality(I) /\ e = InOrder(I, Ascending(I))
    BY DEF m, e
  <2>2. PICK K : K = J
    OBVIOUS
  <2>3. Commutes(n, R, I, m, e, Q, K)
    <3> HIDE DEF J
    <3>1. K = {k \in 1..n : InOrder(1..n, R)[k] \in I}
      BY <2>2 DEF J
    <3> QED
      BY ONLY <1>1, <1>2a, <1>6, <1>12, <2>1, <3>1 DEF Commutes
  <2>4. Arranged(Sifted(list, I), 1..m, Q) = Sifted(Arranged(list, 1..n, R), K)
    BY ONLY <2>3, SiftingCommutes
  <2> QED
    BY <2>2, <2>4
<1>14. J = {k \in 1..Len(all) : all[k].id \in ids}
  <2>1. Len(all) = n
    BY <1>1, <1>4
  <2>2. \A k \in 1..n : at[k] \in I <=> all[k].id \in ids
    BY <1>4 DEF I
  <2> QED
    BY <1>3, <2>1, <2>2
<1>15. Kept(all, ids) = Sifted(all, J)
  BY <1>14 DEF Kept
<1>16. kept = Sifted(list, I)
  BY <1>0 DEF Kept, kept, I
<1> QED
  BY <1>2, <1>5, <1>9, <1>13, <1>15, <1>16 DEF KeepsOrder, all, kept

\* What comes before in the order has the smaller place in the ordered list.
LEMMA PlacesFollow ==
  ASSUME NEW n \in Nat, NEW list, DOMAIN list = 1..n, IsInjective(list),
         NEW at, NEW R, OrderedBy(at, n, R), NEW all, all = [k \in 1..n |-> list[at[k]]],
         NEW i \in 1..n, NEW j \in 1..n, <<i, j>> \in R
  PROVE  Place(all, list[i]) < Place(all, list[j])
<1>1. /\ at \in [1..n -> 1..n]
      /\ \A x \in 1..n : \E k \in 1..n : at[k] = x
      /\ \A k, l \in 1..n : k < l <=> <<at[k], at[l]>> \in R
      /\ \A k, l \in 1..n : at[k] = at[l] => k = l
  BY DEF OrderedBy
<1>2. \A x, y \in 1..n : list[x] = list[y] => x = y
  BY DEF IsInjective
<1>3. ASSUME NEW k \in 1..n
      PROVE  Place(all, list[at[k]]) = k
  <2>1. \A l \in 1..n : all[l] = list[at[k]] => l = k
    BY <1>1, <1>2
  <2>2. DOMAIN all = 1..n /\ all[k] = list[at[k]]
    OBVIOUS
  <2> QED
    BY <2>1, <2>2 DEF Place
<1>4. PICK k \in 1..n, l \in 1..n : at[k] = i /\ at[l] = j
  BY <1>1
<1>5. k < l
  BY <1>1, <1>4
<1>6. Place(all, list[i]) = k /\ Place(all, list[j]) = l
  BY <1>3, <1>4
<1> QED
  BY <1>5, <1>6

\* Whatever a growth investor asks for comes first, for any list of different candidates
\* and any hits of the store: a preferred category before the others, then equity funds
\* before bond funds, and only then what was hit before what was not.
THEOREM WishesAlwaysComeFirst ==
  ASSUME NEW Cs, NEW list \in Seq(Cs), IsInjective(list),
         NEW Ids, NEW hits \in Seq(Ids), IsInjective(hits), NEW preferred
  PROVE  PutsWishesFirst(list, hits, preferred)
<1>0. PICK n : n = Len(list)
  OBVIOUS
<1> DEFINE p == Wish(list, preferred)
           q == Fund(list, "growth")
           h == Hit(list, hits)
           all == Ranked(list, hits, preferred, "growth")
<1>1. n \in Nat /\ list \in [1..n -> Cs] /\ DOMAIN list = 1..n
  BY <1>0, LenProperties
<1>2. PICK R : ByThree(R, n, p, q, h) /\ all = Arranged(list, 1..n, R)
  BY <1>0, RankedIs
<1>3. /\ p = [i \in 1..n |-> IF list[i].category \in preferred THEN 0 ELSE 1]
      /\ q = [i \in 1..n |-> FundRank(list[i], "growth")]
      /\ h = [i \in 1..n |-> HitPosition(hits, list[i].id, i - 1)]
  BY <1>0 DEF Wish, Fund, Hit
<1> HIDE DEF p, q, h, all
<1>4. /\ IsOrder(1..n, R) /\ p \in [1..n -> Int] /\ q \in [1..n -> Int] /\ h \in [1..n -> Int]
      /\ \A i, j \in 1..n :
           \/ p[i] < p[j] \/ (p[i] = p[j] /\ q[i] < q[j])
           \/ (p[i] = p[j] /\ q[i] = q[j] /\ h[i] < h[j])
           => <<i, j>> \in R
  BY <1>2 DEF ByThree
<1>5. PICK at : at = InOrder(1..n, R)
  OBVIOUS
<1>6. OrderedBy(at, n, R) /\ all = [k \in 1..n |-> list[at[k]]]
  <2>1. n \in Nat /\ IsOrder(1..n, R)
    BY <1>1, <1>4
  <2>2. /\ OrderedBy(at, n, R)
        /\ Arranged(list, 1..n, R) = [k \in 1..n |-> list[at[k]]]
    BY ONLY <1>5, <2>1, ArrangedIs
  <2> QED
    BY <1>2, <2>2
<1>7. ASSUME NEW i \in 1..n, NEW j \in 1..n, <<i, j>> \in R
      PROVE  Place(all, list[i]) < Place(all, list[j])
  BY <1>1, <1>6, <1>7, PlacesFollow
<1>8. ASSUME NEW c \in Range(list), NEW d \in Range(list)
      PROVE  /\ c.category \in preferred /\ d.category \notin preferred
                  => Place(all, c) < Place(all, d)
             /\ c.category = d.category /\ Style(c) = "equity" /\ Style(d) = "bond"
                  => Place(all, c) < Place(all, d)
             /\ c.category = d.category /\ Style(c) = Style(d) =>
                  (c.id \in Range(hits) /\ d.id \notin Range(hits) => Place(all, c) < Place(all, d))
  <2>1. PICK i \in 1..n, j \in 1..n : c = list[i] /\ d = list[j]
    BY <1>1 DEF Range
  <2>2. c.category = d.category => p[i] = p[j]
    BY <1>3, <2>1
  <2>3. c.category \in preferred /\ d.category \notin preferred => p[i] < p[j]
    BY <1>3, <2>1
  <2>4. c.category = d.category /\ Style(c) = "equity" /\ Style(d) = "bond" => q[i] < q[j]
    <3>1. \A x : Style(x) = "equity" => x.category = "fund" /\ FundRank(x, "growth") = 0
      BY DEF Style, FundRank
    <3>2. \A x : Style(x) = "bond" => x.category = "fund" /\ FundRank(x, "growth") = 2
      BY DEF Style, FundRank
    <3> QED
      BY <1>3, <2>1, <3>1, <3>2
  <2>5. c.category = d.category /\ Style(c) = Style(d) => q[i] = q[j]
    BY <1>3, <2>1 DEF FundRank
  <2>6. c.id \in Range(hits) /\ d.id \notin Range(hits) => h[i] < h[j]
    <3> SUFFICES ASSUME c.id \in Range(hits), d.id \notin Range(hits) PROVE h[i] < h[j]
      OBVIOUS
    <3>1. h[i] = HitPosition(hits, c.id, i - 1) /\ h[j] = HitPosition(hits, d.id, j - 1)
      BY <1>3, <2>1
    <3>2. h[i] \in 0..(Len(hits) - 1)
      BY <3>1, HitOrNot
    <3>3. h[j] = Len(hits) + (j - 1)
      BY <3>1, HitOrNot
    <3>4. Len(hits) \in Nat /\ j - 1 \in Nat
      BY <1>1, LenProperties
    <3> QED
      BY <3>2, <3>3, <3>4
  <2>7. <<i, j>> \in R => Place(all, c) < Place(all, d)
    BY <1>7, <2>1
  <2> QED
    BY <1>4, <2>2, <2>3, <2>4, <2>5, <2>6, <2>7
<1> QED
  BY <1>8 DEF PutsWishesFirst, all

\* s is a list of candidates of one category, each of them once, from the list.
Picks(s, list, category) ==
  /\ s \in [1..Len(s) -> Range(list)] /\ Len(s) \in Nat
  /\ \A k \in 1..Len(s) : s[k].category = category
  /\ \A k, l \in 1..Len(s) : s[k].id = s[l].id => k = l
\* Candidates are told by their ids.
Told(list) == \A i, j \in 1..Len(list) : list[i].id = list[j].id => i = j
\* The preferred funds are not behind the others.
FundsInOrder(s, investor) ==
  \A i, j \in 1..Len(s) :
    i < j /\ s[i].category = s[j].category => FundRank(s[i], investor) <= FundRank(s[j], investor)

LEMMA CategoryPicks ==
  ASSUME NEW Cs, NEW list \in Seq(Cs), Told(list), NEW category
  PROVE  Picks(OfCategory(list, category), list, category)
<1>1. PICK n, I, m, e, s : /\ n = Len(list) /\ I = {i \in 1..n : list[i].category = category}
                           /\ m = Cardinality(I) /\ e = InOrder(I, Ascending(I))
                           /\ s = OfCategory(list, category)
  OBVIOUS
<1>2. n \in Nat /\ DOMAIN list = 1..n
  BY <1>1, LenProperties
<1>3. Sifts(n, I, m, e)
  BY <1>1, <1>2 DEF Sifts
<1>4. /\ m \in Nat /\ e \in [1..m -> I]
      /\ \A k, l \in 1..m : e[k] = e[l] => k = l
      /\ Sifted(list, I) = [k \in 1..m |-> list[e[k]]]
      /\ Len(Sifted(list, I)) = m
  BY ONLY <1>3, SiftedIs
<1>5. s = [k \in 1..m |-> list[e[k]]] /\ Len(s) = m
  <2>1. s = Sifted(list, I)
    BY <1>1 DEF OfCategory
  <2> QED
    BY <1>4, <2>1
<1>6. \A i \in I : i \in 1..n /\ list[i].category = category
  BY <1>1
<1>7. \A i, j \in I : list[i].id = list[j].id => i = j
  BY <1>1, <1>6 DEF Told
<1>8. \A k \in 1..m : s[k] \in Range(list)
  BY <1>2, <1>4, <1>5, <1>6 DEF Range
<1>9. \A k, l \in 1..m : s[k].id = s[l].id => k = l
  BY <1>4, <1>5, <1>7
<1>10. \A k \in 1..m : s[k].category = category
  BY <1>4, <1>5, <1>6
<1>11. Picks(s, list, category)
  BY <1>4, <1>5, <1>8, <1>9, <1>10 DEF Picks
<1> QED
  BY <1>1, <1>11

\* R is the order by one number.
ByOne(n, q, key, R) ==
  /\ n \in Nat /\ q \in [1..n -> Int]
  /\ key = [i \in 1..n |-> <<q[i]>>] /\ R = ByKey(key, 1..n)

LEMMA OneKeyOrders ==
  ASSUME NEW n, NEW q, NEW key, NEW R, ByOne(n, q, key, R)
  PROVE  /\ IsOrder(1..n, R)
         /\ \A i, j \in 1..n : <<i, j>> \in R <=> q[i] < q[j] \/ (q[i] = q[j] /\ i < j)
<1>0. /\ n \in Nat /\ q \in [1..n -> Int]
      /\ key = [i \in 1..n |-> <<q[i]>>] /\ R = ByKey(key, 1..n)
  BY DEF ByOne
<1>1. ASSUME NEW i \in 1..n, NEW j \in 1..n
      PROVE  <<i, j>> \in R <=> q[i] < q[j] \/ (q[i] = q[j] /\ i < j)
  <2>1. <<i, j>> \in R <=> Less(key[i], key[j]) \/ (key[i] = key[j] /\ i < j)
    BY <1>0 DEF ByKey
  <2>2. key[i] = <<q[i]>> /\ key[j] = <<q[j]>>
    BY <1>0
  <2>3. key[i] = key[j] <=> q[i] = q[j]
    BY <2>2
  <2>4. Less(key[i], key[j]) <=> q[i] < q[j]
    <3>1. q[i] \in Int /\ q[j] \in Int
      BY <1>0
    <3> QED
      BY <2>2, <3>1 DEF Less
  <2> QED
    BY ONLY <2>1, <2>3, <2>4
<1>2. \A i \in 1..n : i \in Int /\ q[i] \in Int
  BY <1>0
<1>3. ASSUME NEW i \in 1..n, NEW j \in 1..n
      PROVE  /\ <<i, j>> \in R => <<j, i>> \notin R
             /\ i # j => <<i, j>> \in R \/ <<j, i>> \in R
  <2>1. PICK a, x, b, y : a = q[i] /\ x = i /\ b = q[j] /\ y = j
    OBVIOUS
  <2>2. a \in Int /\ x \in Int /\ b \in Int /\ y \in Int
    BY <1>2, <2>1
  <2>3. /\ <<i, j>> \in R <=> a < b \/ (a = b /\ x < y)
        /\ <<j, i>> \in R <=> b < a \/ (b = a /\ y < x)
    BY <1>1, <2>1
  <2> QED
    BY ONLY <2>1, <2>2, <2>3
<1>4. ASSUME NEW i \in 1..n, NEW j \in 1..n, NEW k \in 1..n, <<i, j>> \in R, <<j, k>> \in R
      PROVE  <<i, k>> \in R
  <2>1. PICK a, x, b, y, c, z : a = q[i] /\ x = i /\ b = q[j] /\ y = j /\ c = q[k] /\ z = k
    OBVIOUS
  <2>2. a \in Int /\ x \in Int /\ b \in Int /\ y \in Int /\ c \in Int /\ z \in Int
    BY <1>2, <2>1
  <2>3. (a < b \/ (a = b /\ x < y)) /\ (b < c \/ (b = c /\ y < z))
    BY <1>1, <1>4, <2>1
  <2>4. a < c \/ (a = c /\ x < z)
    BY ONLY <2>2, <2>3
  <2> QED
    BY <1>1, <2>1, <2>4
<1>5. IsOrder(1..n, R)
  BY <1>3, <1>4 DEF IsOrder
<1> QED
  BY <1>1, <1>5

\* The funds in the order of the profile are the funds, the preferred ones first.
LEMMA OrderedFunds ==
  ASSUME NEW funds, NEW list, Picks(funds, list, "fund"), NEW investor
  PROVE  Picks(OrderFunds(funds, investor), list, "fund")
           /\ FundsInOrder(OrderFunds(funds, investor), investor)
<1>1. PICK n, q, key, R, at, s :
        /\ n = Len(funds) /\ q = [i \in 1..n |-> FundRank(funds[i], investor)]
        /\ key = [i \in 1..n |-> <<q[i]>>] /\ R = ByKey(key, 1..n)
        /\ at = InOrder(1..n, R) /\ s = OrderFunds(funds, investor)
  OBVIOUS
<1>2. /\ n \in Nat /\ funds \in [1..n -> Range(list)]
      /\ \A k \in 1..n : funds[k].category = "fund"
      /\ \A k, l \in 1..n : funds[k].id = funds[l].id => k = l
  BY <1>1 DEF Picks
<1>3. q \in [1..n -> Int]
  BY <1>1, FundRankIs
<1>4. /\ IsOrder(1..n, R)
      /\ \A i, j \in 1..n : <<i, j>> \in R <=> q[i] < q[j] \/ (q[i] = q[j] /\ i < j)
  <2>1. ByOne(n, q, key, R)
    BY ONLY <1>1, <1>2, <1>3 DEF ByOne
  <2> QED
    BY ONLY <2>1, OneKeyOrders
<1>5. /\ OrderedBy(at, n, R)
      /\ Arranged(funds, 1..n, R) = [k \in 1..n |-> funds[at[k]]]
  <2>1. n \in Nat /\ IsOrder(1..n, R) /\ at = InOrder(1..n, R)
    BY <1>1, <1>2, <1>4
  <2> QED
    BY ONLY <2>1, ArrangedIs
<1>6. s = [k \in 1..n |-> funds[at[k]]] /\ Len(s) = n
  <2>1. key = [i \in DOMAIN funds |-> <<FundRank(funds[i], investor)>>]
    BY <1>1, <1>2
  <2>2. s = SortedBy(funds, key)
    BY <1>1, <2>1 DEF OrderFunds
  <2>3. s = [k \in 1..n |-> funds[at[k]]]
    BY <1>1, <1>5, <2>2 DEF SortedBy
  <2> QED
    BY <1>2, <2>3
<1>7. /\ at \in [1..n -> 1..n]
      /\ \A k, l \in 1..n : k < l <=> <<at[k], at[l]>> \in R
      /\ \A k, l \in 1..n : at[k] = at[l] => k = l
  BY <1>5 DEF OrderedBy
<1>8. Picks(s, list, "fund")
  <2>1. s \in [1..n -> Range(list)]
    BY <1>2, <1>6, <1>7
  <2>2. \A k \in 1..n : s[k].category = "fund"
    BY <1>2, <1>6, <1>7
  <2>3. \A k, l \in 1..n : s[k].id = s[l].id => k = l
    BY <1>2, <1>6, <1>7
  <2> QED
    BY <1>2, <1>6, <2>1, <2>2, <2>3 DEF Picks
<1>9. FundsInOrder(s, investor)
  <2>1. \A k \in 1..n : FundRank(s[k], investor) = q[at[k]] /\ q[at[k]] \in Int
    BY <1>1, <1>3, <1>6, <1>7
  <2>2. ASSUME NEW k \in 1..n, NEW l \in 1..n, k < l
        PROVE  FundRank(s[k], investor) <= FundRank(s[l], investor)
    <3>1. at[k] \in 1..n /\ at[l] \in 1..n /\ <<at[k], at[l]>> \in R
      BY <1>7, <2>2
    <3>2. q[at[k]] < q[at[l]] \/ q[at[k]] = q[at[l]]
      BY <1>4, <3>1
    <3>3. PICK a, b : a = q[at[k]] /\ b = q[at[l]]
      OBVIOUS
    <3>4. a \in Int /\ b \in Int /\ (a < b \/ a = b)
      BY <2>1, <3>2, <3>3
    <3>5. a <= b
      BY ONLY <3>4
    <3> QED
      BY <2>1, <3>3, <3>5
  <2> QED
    BY <1>6, <2>2 DEF FundsInOrder
<1> QED
  BY <1>1, <1>8, <1>9

\* The request's pool is a list of candidates told by their ids, the funds in order.
LEMMA PoolIsListed ==
  ASSUME NEW Cs, NEW list \in Seq(Cs), Told(list), NEW investor,
         NEW A, Picks(A, list, "fund"), FundsInOrder(A, investor),
         NEW W, Picks(W, list, "wealth_management"), NEW S, Picks(S, list, "stock")
  PROVE  A \o W \o S \in Seq(Cs) /\ Told(A \o W \o S) /\ FundsInOrder(A \o W \o S, investor)
<1>1. PICK a, w, t, r : a = Len(A) /\ w = Len(W) /\ t = Len(S) /\ r = A \o W \o S
  OBVIOUS
<1>2. /\ a \in Nat /\ A \in [1..a -> Range(list)] /\ \A k \in 1..a : A[k].category = "fund"
      /\ \A k, l \in 1..a : A[k].id = A[l].id => k = l
  BY <1>1 DEF Picks
<1>3. /\ w \in Nat /\ W \in [1..w -> Range(list)]
      /\ \A k \in 1..w : W[k].category = "wealth_management"
      /\ \A k, l \in 1..w : W[k].id = W[l].id => k = l
  BY <1>1 DEF Picks
<1>4. /\ t \in Nat /\ S \in [1..t -> Range(list)] /\ \A k \in 1..t : S[k].category = "stock"
      /\ \A k, l \in 1..t : S[k].id = S[l].id => k = l
  BY <1>1 DEF Picks
<1>5. A \in Seq(Range(list)) /\ W \in Seq(Range(list)) /\ S \in Seq(Range(list))
  BY <1>2, <1>3, <1>4
<1>6. r \in Seq(Range(list)) /\ Len(r) = a + w + t
  BY <1>1, <1>5
<1>7. ASSUME NEW i \in 1..(a + w + t)
      PROVE  \/ \E k \in 1..a : i = k /\ r[i] = A[k]
             \/ \E k \in 1..w : i = a + k /\ r[i] = W[k]
             \/ \E k \in 1..t : i = a + w + k /\ r[i] = S[k]
  <2>1. CASE i <= a
    <3>1. i \in 1..a /\ r[i] = A[i]
      BY <1>1, <1>2, <1>3, <1>4, <1>5, <2>1
    <3> QED
      BY <3>1
  <2>2. CASE i > a /\ i <= a + w
    <3>1. i - a \in 1..w /\ i = a + (i - a)
      BY <1>2, <1>3, <1>4, <2>2
    <3>2. r[i] = W[i - a]
      BY <1>1, <1>2, <1>3, <1>4, <1>5, <2>2
    <3> QED
      BY <3>1, <3>2
  <2>3. CASE i > a + w
    <3>1. i - (a + w) \in 1..t /\ i = a + w + (i - (a + w))
      BY <1>2, <1>3, <1>4, <2>3
    <3>2. r[i] = S[i - (a + w)]
      BY <1>1, <1>2, <1>3, <1>4, <1>5, <2>3
    <3> QED
      BY <3>1, <3>2
  <2> QED
    BY <1>2, <1>3, <1>4, <2>1, <2>2, <2>3
<1>8. Range(list) \in SUBSET Cs
  BY DEF Range
<1>9. r \in Seq(Cs)
  <2>1. \A k \in 1..Len(r) : r[k] \in Cs
    BY <1>6, <1>8
  <2> QED
    BY <1>2, <1>3, <1>4, <1>6, <2>1
<1>10. \A c, d \in Range(list) : c.id = d.id => c = d
  <2>1. DOMAIN list = 1..Len(list)
    BY LenProperties
  <2> QED
    BY <2>1 DEF Told, Range
<1>11. \A k \in 1..a, l \in 1..w : A[k].id # W[l].id
  BY <1>2, <1>3, <1>10
<1>12. \A k \in 1..a, l \in 1..t : A[k].id # S[l].id
  BY <1>2, <1>4, <1>10
<1>13. \A k \in 1..w, l \in 1..t : W[k].id # S[l].id
  BY <1>3, <1>4, <1>10
<1>14. ASSUME NEW i \in 1..(a + w + t), NEW j \in 1..(a + w + t), r[i].id = r[j].id
       PROVE  i = j
  <2>1. CASE \E k \in 1..a : i = k /\ r[i] = A[k]
    BY <1>2, <1>7, <1>11, <1>12, <1>14, <2>1
  <2>2. CASE \E k \in 1..w : i = a + k /\ r[i] = W[k]
    BY <1>3, <1>7, <1>11, <1>13, <1>14, <2>2
  <2>3. CASE \E k \in 1..t : i = a + w + k /\ r[i] = S[k]
    BY <1>4, <1>7, <1>12, <1>13, <1>14, <2>3
  <2> QED
    BY <1>7, <2>1, <2>2, <2>3
<1>15. Told(r)
  BY <1>6, <1>14 DEF Told
<1>16. \A c : c.category # "fund" => FundRank(c, investor) = 0
  BY DEF FundRank
<1>17. ASSUME NEW i \in 1..(a + w + t), NEW j \in 1..(a + w + t), i < j,
              r[i].category = r[j].category
       PROVE  FundRank(r[i], investor) <= FundRank(r[j], investor)
  <2>1. CASE r[i].category # "fund"
    BY <1>16, <1>17, <2>1
  <2>2. CASE r[i].category = "fund"
    <3>1. \E k \in 1..a : i = k /\ r[i] = A[k]
      BY <1>3, <1>4, <1>7, <2>2
    <3>2. \E k \in 1..a : j = k /\ r[j] = A[k]
      <4>1. r[j].category = "fund"
        BY <1>17, <2>2
      <4> QED
        BY <1>3, <1>4, <1>7, <4>1
    <3>3. PICK k \in 1..a, l \in 1..a : i = k /\ r[i] = A[k] /\ j = l /\ r[j] = A[l]
      BY <3>1, <3>2
    <3>4. k < l /\ A[k].category = A[l].category
      BY <1>17, <3>3
    <3> QED
      BY <1>1, <3>3, <3>4 DEF FundsInOrder
  <2> QED
    BY <2>1, <2>2
<1>18. FundsInOrder(r, investor)
  BY <1>6, <1>17 DEF FundsInOrder
<1> QED
  BY <1>1, <1>9, <1>15, <1>18

\* Hits in the order of the list keep the order of a category in which the funds are in
\* order.
LEMMA ListedStaysInOrder ==
  ASSUME NEW Cs, NEW listed \in Seq(Cs), Told(listed), NEW investor, FundsInOrder(listed, investor),
         NEW hits, hits = [i \in 1..Len(listed) |-> listed[i].id], NEW preferred, NEW category
  PROVE  OfCategory(Ranked(listed, hits, preferred, investor), category) = OfCategory(listed, category)
<1>0. PICK n : n = Len(listed)
  OBVIOUS
<1> DEFINE p == Wish(listed, preferred)
           q == Fund(listed, investor)
           h == Hit(listed, hits)
           all == Ranked(listed, hits, preferred, investor)
           I == {i \in 1..n : listed[i].category = category}
           m == Cardinality(I)
           e == InOrder(I, Ascending(I))
           Q == Ascending(1..m)
<1>1. n \in Nat /\ listed \in [1..n -> Cs] /\ DOMAIN listed = 1..n
  BY <1>0, LenProperties
<1>1a. PICK Ids : Ids = {listed[i].id : i \in 1..n}
  OBVIOUS
<1>2. /\ hits \in Seq(Ids) /\ IsInjective(hits)
      /\ Len(hits) = n /\ \A i \in 1..n : hits[i] = listed[i].id
  <2>1. hits \in [1..n -> Ids]
    BY <1>0, <1>1a
  <2>2. hits \in Seq(Ids) /\ Len(hits) = n
    BY ONLY <1>1, <2>1
  <2>3. DOMAIN hits = 1..n /\ \A i \in 1..n : hits[i] = listed[i].id
    BY <1>0, <2>1
  <2> QED
    BY <1>0, <2>2, <2>3 DEF Told, IsInjective
<1>3. PICK R : ByThree(R, n, p, q, h) /\ all = Arranged(listed, 1..n, R)
  <2>1. listed \in Seq(Cs) /\ hits \in Seq(Ids) /\ IsInjective(hits)
    BY <1>2
  <2>2. \E R : /\ ByThree(R, Len(listed), p, q, h)
               /\ all = Arranged(listed, 1..Len(listed), R)
    BY ONLY <2>1, RankedIs
  <2> QED
    BY ONLY <1>0, <2>2
<1>4. /\ p = [i \in 1..n |-> IF listed[i].category \in preferred THEN 0 ELSE 1]
      /\ q = [i \in 1..n |-> FundRank(listed[i], investor)]
      /\ h = [i \in 1..n |-> HitPosition(hits, listed[i].id, i - 1)]
  BY <1>0 DEF Wish, Fund, Hit
<1>5. \A i \in 1..n : h[i] = i - 1
  <2> TAKE i \in 1..n
  <2>1. i \in 1..Len(hits) /\ hits[i] = listed[i].id
    BY <1>2
  <2>2. PICK id, x : id = listed[i].id /\ x = i - 1
    OBVIOUS
  <2>3. hits \in Seq(Ids) /\ IsInjective(hits) /\ i \in 1..Len(hits) /\ hits[i] = id
    BY <1>2, <2>1, <2>2
  <2>4. HitPosition(hits, id, x) = i - 1
    BY ONLY <2>3, HitPositionIs
  <2> QED
    BY <1>4, <2>2, <2>4
<1>6. /\ IsOrder(1..n, R) /\ p \in [1..n -> Int] /\ q \in [1..n -> Int] /\ h \in [1..n -> Int]
      /\ \A i, j \in 1..n :
           <<i, j>> \in R <=> \/ p[i] < p[j] \/ (p[i] = p[j] /\ q[i] < q[j])
                              \/ (p[i] = p[j] /\ q[i] = q[j] /\ h[i] < h[j])
                              \/ (p[i] = p[j] /\ q[i] = q[j] /\ h[i] = h[j] /\ i < j)
  <2> HIDE DEF p, q, h
  <2> QED
    BY <1>3 DEF ByThree
<1>7. \A i \in I : i \in 1..n /\ listed[i].category = category
  OBVIOUS
<1>8. ASSUME NEW i \in I, NEW j \in I
      PROVE  <<i, j>> \in R <=> i < j
  <2>1. i \in 1..n /\ j \in 1..n /\ listed[i].category = listed[j].category
    BY <1>7
  <2>2. p[i] = p[j]
    BY <1>4, <2>1
  <2>3. (i < j => q[i] <= q[j]) /\ (j < i => q[j] <= q[i])
    BY <1>0, <1>4, <2>1 DEF FundsInOrder
  <2>4. h[i] = i - 1 /\ h[j] = j - 1
    BY <1>5, <2>1
  <2> HIDE DEF p, q, h
  <2>5. PICK a, b, c, d, u, v : a = p[i] /\ b = q[i] /\ c = h[i] /\ d = q[j] /\ u = i /\ v = j
    OBVIOUS
  <2>6. /\ a \in Int /\ b \in Int /\ d \in Int /\ u \in Int /\ v \in Int
        /\ (u < v => b <= d) /\ (v < u => d <= b)
    BY <1>1, <1>6, <2>1, <2>3, <2>5
  <2>7. <<i, j>> \in R <=> \/ a < a \/ b < d \/ (b = d /\ u - 1 < v - 1)
                           \/ (b = d /\ u - 1 = v - 1 /\ u < v)
    <3>1. <<i, j>> \in R <=> \/ p[i] < p[j] \/ (p[i] = p[j] /\ q[i] < q[j])
                             \/ (p[i] = p[j] /\ q[i] = q[j] /\ h[i] < h[j])
                             \/ (p[i] = p[j] /\ q[i] = q[j] /\ h[i] = h[j] /\ i < j)
      BY <1>6, <2>1
    <3>2. a \in Int
      BY <2>6
    <3> QED
      BY ONLY <2>2, <2>4, <2>5, <3>1, <3>2
  <2> QED
    BY ONLY <2>5, <2>6, <2>7
<1> HIDE DEF p, q, h, all
<1>9. PICK M, f : M = m /\ f = e
  OBVIOUS
<1>10. Sifts(n, I, M, f)
  BY <1>1, <1>9 DEF Sifts
<1> HIDE DEF I
<1>11. /\ M \in Nat /\ f \in [1..M -> I]
       /\ \A k, l \in 1..M : k < l <=> f[k] < f[l]
       /\ Sifted(listed, I) = [k \in 1..M |-> listed[f[k]]]
       /\ Len(Sifted(listed, I)) = M
  BY ONLY <1>10, SiftedIs
<1>12. PICK J, D : J = {k \in 1..n : InOrder(1..n, R)[k] \in I} /\ D = Ascending(1..M)
  OBVIOUS
<1>13. \A k, l \in 1..M : <<k, l>> \in D <=> <<f[k], f[l]>> \in R
  <2>1. \A k, l \in 1..M : <<k, l>> \in D <=> k < l
    BY <1>11, <1>12 DEF Ascending
  <2> QED
    BY <1>8, <1>11, <2>1
<1>14. Commutes(n, R, I, M, f, D, J)
  <2>1. I \in SUBSET (1..n) /\ M = Cardinality(I) /\ f = InOrder(I, Ascending(I))
    BY <1>9 DEF I
  <2> QED
    BY ONLY <1>1, <1>6, <1>12, <1>13, <2>1 DEF Commutes
<1>15. Arranged(Sifted(listed, I), 1..M, D) = Sifted(all, J)
  <2>1. Arranged(Sifted(listed, I), 1..M, D) = Sifted(Arranged(listed, 1..n, R), J)
    BY ONLY <1>14, SiftingCommutes
  <2> QED
    BY <1>3, <2>1
<1>16. Arranged(Sifted(listed, I), 1..M, D) = Sifted(listed, I)
  <2>1. PICK s : s = Sifted(listed, I)
    OBVIOUS
  <2>2. s = [k \in 1..M |-> s[k]]
    BY <1>11, <2>1
  <2>3. Arranged(s, 1..M, Ascending(1..M)) = s
    BY <1>11, <2>2, IntervalInOrder
  <2> QED
    BY <1>12, <2>1, <2>3
<1>17. PICK at : at = InOrder(1..n, R)
  OBVIOUS
<1>18. OrderedBy(at, n, R) /\ all = [k \in 1..n |-> listed[at[k]]]
  <2>1. n \in Nat /\ IsOrder(1..n, R)
    BY <1>1, <1>6
  <2>2. /\ OrderedBy(at, n, R)
        /\ Arranged(listed, 1..n, R) = [k \in 1..n |-> listed[at[k]]]
    BY ONLY <1>17, <2>1, ArrangedIs
  <2> QED
    BY <1>3, <2>2
<1>19. J = {k \in 1..Len(all) : all[k].category = category}
  <2>1. Len(all) = n
    BY <1>1, <1>18
  <2>2. \A k \in 1..n : at[k] \in 1..n
    BY <1>18 DEF OrderedBy
  <2>3. \A k \in 1..n : at[k] \in I <=> all[k].category = category
    BY <1>18, <2>2 DEF I
  <2> QED
    BY <1>12, <1>17, <2>1, <2>3
<1>20. OfCategory(all, category) = Sifted(all, J)
  BY <1>19 DEF OfCategory
<1>21. OfCategory(listed, category) = Sifted(listed, I)
  BY <1>0 DEF OfCategory, I
<1> QED
  BY <1>15, <1>16, <1>20, <1>21 DEF all

\* The order in which the repository lists the products of a category survives the
\* retrieval, for any list of products and any profile: the store of the application
\* answers in the order it was given, which is the order of the preferences already.
THEOREM ListedOrderAlwaysSurvives ==
  ASSUME NEW Cs, NEW list \in Seq(Cs), Told(list), NEW preferred, NEW investor
  PROVE  KeepsListing(list, preferred, investor)
<1>1. PICK A, W, S, listed, limit :
        /\ A = OrderFunds(OfCategory(list, "fund"), investor)
        /\ W = OfCategory(list, "wealth_management") /\ S = OfCategory(list, "stock")
        /\ listed = A \o W \o S
        /\ limit = IF Len(listed) < 6 THEN 6 ELSE Len(listed)
  OBVIOUS
<1>2. Picks(A, list, "fund") /\ FundsInOrder(A, investor)
  <2>1. Picks(OfCategory(list, "fund"), list, "fund")
    BY CategoryPicks
  <2> QED
    BY <1>1, <2>1, OrderedFunds
<1>3. Picks(W, list, "wealth_management") /\ Picks(S, list, "stock")
  BY <1>1, CategoryPicks
<1>4. listed \in Seq(Cs) /\ Told(listed) /\ FundsInOrder(listed, investor)
  BY <1>1, <1>2, <1>3, PoolIsListed
<1>5. StaticHits(listed, limit) = [i \in 1..Len(listed) |-> listed[i].id]
  <2>1. Len(listed) \in Nat
    BY <1>4, LenProperties
  <2>2. ~(limit < Len(listed))
    BY <1>1, <2>1
  <2>3. FirstOf(listed, limit) = [k \in 1..Len(listed) |-> listed[k]]
    BY <2>2 DEF FirstOf
  <2>4. Len(FirstOf(listed, limit)) = Len(listed)
    BY <2>1, <2>3
  <2> QED
    BY <2>3, <2>4 DEF StaticHits
<1>6. \A category :
        OfCategory(Ranked(listed, StaticHits(listed, limit), preferred, investor), category)
          = OfCategory(listed, category)
  BY <1>4, <1>5, ListedStaysInOrder
<1>7. listed = RequestPool(OfCategory(list, "fund"), OfCategory(list, "wealth_management"),
                           OfCategory(list, "stock"), investor)
  BY <1>1 DEF RequestPool
<1> QED
  BY <1>1, <1>6, <1>7 DEF KeepsListing

\* The pools the runs try are lists of candidates told by their ids, and their hits hit no
\* product twice.
LEMMA PoolsAreLists ==
  ASSUME NEW list \in Pools
  PROVE  (\E Cs : list \in Seq(Cs)) /\ Told(list) /\ IsInjective(list)
<1>1. PICK n \in 0..3 :
        list \in {[i \in 1..n |-> [id |-> i, category |-> k[i].category, risk |-> k[i].risk,
                                   words |-> k[i].words]] : k \in [1..n -> Kinds]}
  BY DEF Pools
<1>2. PICK k \in [1..n -> Kinds] :
        list = [i \in 1..n |-> [id |-> i, category |-> k[i].category, risk |-> k[i].risk,
                                words |-> k[i].words]]
  BY <1>1
<1>3. n \in Nat /\ DOMAIN list = 1..n /\ \A i \in 1..n : list[i].id = i
  BY <1>2
<1>4. PICK Cs : Cs = {list[i] : i \in 1..n}
  OBVIOUS
<1>5. list \in [1..n -> Cs]
  BY <1>2, <1>4
<1>6. list \in Seq(Cs) /\ Len(list) = n
  BY ONLY <1>3, <1>5
<1>7. Told(list)
  BY <1>3, <1>6 DEF Told
<1>8. IsInjective(list)
  BY <1>3 DEF IsInjective
<1> QED
  BY <1>6, <1>7, <1>8

LEMMA HitsAreLists ==
  ASSUME NEW hits \in Hits
  PROVE  (\E Ids : hits \in Seq(Ids)) /\ IsInjective(hits)
<1>1. PICK n \in 0..2 : hits \in {h \in [1..n -> 1..3] : IsInjective(h)}
  BY DEF Hits
<1>2. hits \in Seq(1..3) /\ IsInjective(hits)
  BY <1>1
<1> QED
  BY <1>2

LEMMA RankingHolds == RankingIsSound
<1>1. FilteringKeepsOrder
  <2> SUFFICES ASSUME NEW list \in Pools, NEW hits \in Hits, NEW investor, NEW preferred, NEW ids
               PROVE  KeepsOrder(list, hits, preferred, investor, ids)
    BY DEF FilteringKeepsOrder
  <2>1. PICK Cs, Ids : list \in Seq(Cs) /\ hits \in Seq(Ids) /\ IsInjective(hits)
    BY PoolsAreLists, HitsAreLists
  <2> QED
    BY <2>1, RankingKeepsOrder
<1>2. WishesComeFirst
  <2> SUFFICES ASSUME NEW list \in Pools, NEW hits \in Hits, NEW preferred
               PROVE  PutsWishesFirst(list, hits, preferred)
    BY DEF WishesComeFirst
  <2>1. PICK Cs, Ids : /\ list \in Seq(Cs) /\ IsInjective(list)
                       /\ hits \in Seq(Ids) /\ IsInjective(hits)
    BY PoolsAreLists, HitsAreLists
  <2> QED
    BY <2>1, WishesAlwaysComeFirst
<1>3. RepositoryOrderSurvives
  <2> SUFFICES ASSUME NEW list \in Pools, NEW investor, NEW preferred
               PROVE  KeepsListing(list, preferred, investor)
    BY DEF RepositoryOrderSurvives
  <2>1. PICK Cs : list \in Seq(Cs) /\ Told(list)
    BY PoolsAreLists
  <2> QED
    BY <2>1, ListedOrderAlwaysSurvives
<1> QED
  BY <1>1, <1>2, <1>3 DEF RankingIsSound

-----------------------------------------------------------------------------
(***************************************************************************)
(* The recall of the messages of a user.                                   *)
(***************************************************************************)

LEMMA TakesHave ==
  ASSUME NEW s, NEW limit,
         NEW f, f = [i \in 0..Len(s) |-> IF i = 0 THEN {} ELSE Take(f[i - 1], s, i, limit)]
  PROVE  Takes(s, limit)
           = [i \in 0..Len(s) |-> IF i = 0 THEN {} ELSE Take(Takes(s, limit)[i - 1], s, i, limit)]
BY Zenon DEF Takes

\* What is taken of the first k: only what may be shown, nothing twice, no more than the
\* limit, and all that may be shown but for what repeats something taken before or came
\* after the limit.
TakenFairly(s, limit, k, T) ==
  /\ T \in SUBSET (1..k) /\ Cardinality(T) <= limit
  /\ \A i \in T : Showable(s[i])
  /\ \A i, j \in T : j < i => ~Repeats(s[i], s[j])
  /\ \A i \in (1..k) \ T :
       Showable(s[i]) =>
         \/ \E j \in T : j < i /\ Repeats(s[i], s[j])
         \/ Cardinality(T) = limit /\ \A j \in T : j < i

LEMMA TakesOneMore ==
  ASSUME NEW s, NEW limit \in Nat, NEW k \in Nat, NEW l \in Nat, l = k + 1,
         NEW B, TakenFairly(s, limit, k, B)
  PROVE  TakenFairly(s, limit, l, Take(B, s, l, limit))
<1>1. PICK T : T = Take(B, s, l, limit)
  OBVIOUS
<1>2. /\ B \in SUBSET (1..k) /\ Cardinality(B) <= limit
      /\ \A i \in B : Showable(s[i])
      /\ \A i, j \in B : j < i => ~Repeats(s[i], s[j])
      /\ \A i \in (1..k) \ B :
           Showable(s[i]) =>
             \/ \E j \in B : j < i /\ Repeats(s[i], s[j])
             \/ Cardinality(B) = limit /\ \A j \in B : j < i
  BY DEF TakenFairly
<1>3. IsFiniteSet(B) /\ Cardinality(B) \in Nat
  <2>1. IsFiniteSet(1..k)
    BY IntervalFacts
  <2> QED
    BY <1>2, <2>1, FS_Subset, FS_CardinalityType
<1>4. /\ l \notin B /\ \A i \in B : i < l /\ i \in Nat
      /\ \A i : i \in 1..l <=> i \in 1..k \/ i = l
  BY <1>2
<1>5. CASE /\ Cardinality(B) < limit /\ Showable(s[l]) /\ \A j \in B : ~Repeats(s[l], s[j])
  <2>1. T = B \union {l}
    BY <1>1, <1>5 DEF Take
  <2>2. Cardinality(T) <= limit
    BY <1>3, <1>4, <1>5, <2>1, FS_AddElement
  <2>3. T \in SUBSET (1..l)
    BY <1>2, <1>4, <2>1
  <2>4. \A i \in T : Showable(s[i])
    BY <1>2, <1>5, <2>1
  <2>5. \A i, j \in T : j < i => ~Repeats(s[i], s[j])
    BY <1>2, <1>4, <1>5, <2>1
  <2>6. ASSUME NEW i \in (1..l) \ T, Showable(s[i])
        PROVE  \E j \in T : j < i /\ Repeats(s[i], s[j])
    <3>1. i \in (1..k) \ B
      BY <1>4, <2>1
    <3>2. Cardinality(B) # limit
      BY <1>3, <1>5
    <3> QED
      BY <1>2, <2>1, <2>6, <3>1, <3>2
  <2>7. TakenFairly(s, limit, l, T)
    BY <2>2, <2>3, <2>4, <2>5, <2>6 DEF TakenFairly
  <2> QED
    BY <1>1, <2>7
<1>6. CASE ~(Cardinality(B) < limit /\ Showable(s[l]) /\ \A j \in B : ~Repeats(s[l], s[j]))
  <2>1. T = B
    BY <1>1, <1>6 DEF Take
  <2>2. ASSUME NEW i \in (1..l) \ B, Showable(s[i])
        PROVE  \/ \E j \in B : j < i /\ Repeats(s[i], s[j])
               \/ Cardinality(B) = limit /\ \A j \in B : j < i
    <3>1. CASE i \in 1..k
      BY <1>2, <2>2, <3>1
    <3>2. CASE i = l
      <4>1. CASE \E j \in B : Repeats(s[l], s[j])
        BY <1>4, <3>2, <4>1
      <4>2. CASE ~(Cardinality(B) < limit)
        <5>1. Cardinality(B) = limit
          BY <1>2, <1>3, <4>2
        <5> QED
          BY <1>4, <3>2, <5>1
      <4> QED
        BY <1>6, <2>2, <3>2, <4>1, <4>2
    <3> QED
      BY <1>4, <3>1, <3>2
  <2>3. B \in SUBSET (1..l)
    BY <1>2, <1>4
  <2>4. TakenFairly(s, limit, l, B)
    BY <1>2, <2>2, <2>3 DEF TakenFairly
  <2> QED
    BY <1>1, <2>1, <2>4
<1> QED
  BY <1>5, <1>6

LEMMA TakesFairly ==
  ASSUME NEW n \in Nat, NEW s, Len(s) = n, NEW limit \in Nat
  PROVE  TakenFairly(s, limit, n, Takes(s, limit)[n])
<1> DEFINE V == SUBSET (1..n)
           step == [p \in (1..n) \X V |-> Take(p[2], s, p[1], limit)]
<1>1. {} \in V /\ step \in [(1..n) \X V -> V]
  <2>1. \A i \in 1..n, B \in V : Take(B, s, i, limit) \in V
    BY DEF Take
  <2> QED
    BY <2>1
<1>2. \A i \in 1..n, B \in V : step[<<i, B>>] = Take(B, s, i, limit)
  OBVIOUS
<1>3. PICK f \in [0..n -> V] : Follows(f, n, {}, step)
  <2> HIDE DEF V, step
  <2> QED
    BY <1>1, LoopHasValues
<1> HIDE DEF step
<1>4. f = [i \in 0..n |-> IF i = 0 THEN {} ELSE step[<<i, f[i - 1]>>]]
  BY <1>3 DEF Follows
<1>5. \A i \in 0..n : f[i] = IF i = 0 THEN {} ELSE Take(f[i - 1], s, i, limit)
  <2> TAKE i \in 0..n
  <2>1. f[i] = IF i = 0 THEN {} ELSE step[<<i, f[i - 1]>>]
    BY <1>4
  <2>2. i # 0 => i \in 1..n /\ f[i - 1] \in V
    BY <1>3
  <2> HIDE DEF V
  <2> QED
    BY <2>1, <2>2, <1>2
<1>6. f = [i \in 0..Len(s) |-> IF i = 0 THEN {} ELSE Take(f[i - 1], s, i, limit)]
  <2> HIDE DEF V
  <2> QED
    BY <1>3, <1>5
<1>7. PICK g : g = Takes(s, limit)
  OBVIOUS
<1>8. g = [i \in 0..n |-> IF i = 0 THEN {} ELSE Take(g[i - 1], s, i, limit)]
  <2>1. Takes(s, limit)
          = [i \in 0..Len(s) |-> IF i = 0 THEN {} ELSE Take(Takes(s, limit)[i - 1], s, i, limit)]
    BY ONLY <1>6, TakesHave
  <2> QED
    BY <1>7, <2>1
<1>9. /\ g[0] = {}
      /\ \A i \in 1..n : g[i] = Take(g[i - 1], s, i, limit)
  <2>1. \A i \in 0..n : g[i] = IF i = 0 THEN {} ELSE Take(g[i - 1], s, i, limit)
    BY ONLY <1>8, Zenon
  <2>2. 0 \in 0..n /\ \A i \in 1..n : i \in 0..n /\ i # 0
    OBVIOUS
  <2> QED
    BY ONLY <2>1, <2>2
<1> DEFINE Good == {i \in 0..n : TakenFairly(s, limit, i, g[i])}
<1>10. 0 \in Good
  <2>1. Cardinality({}) = 0
    BY FS_EmptySet
  <2>2. TakenFairly(s, limit, 0, {})
    BY <2>1 DEF TakenFairly
  <2>3. g[0] = {} /\ 0 \in 0..n
    BY <1>9
  <2> QED
    BY <2>2, <2>3
<1>11. ASSUME NEW i \in 1..n, i - 1 \in Good PROVE i \in Good
  <2>1. PICK k \in Nat : k = i - 1
    OBVIOUS
  <2>2. TakenFairly(s, limit, k, g[k]) /\ i = k + 1 /\ i \in Nat
    BY <1>11, <2>1
  <2>3. TakenFairly(s, limit, i, Take(g[k], s, i, limit))
    BY <2>2, TakesOneMore
  <2> QED
    BY <1>9, <2>1, <2>3
<1>12. \A i \in 0..n : i \in Good
  <2> HIDE DEF Good
  <2> QED
    BY <1>10, <1>11, FromTheStart
<1> QED
  BY <1>7, <1>12

LEMMA LeastOfTwo ==
  ASSUME NEW a \in Nat, NEW b \in Nat
  PROVE  Min({a, b}) \in {a, b} /\ Min({a, b}) <= a /\ Min({a, b}) <= b
<1>1. \E m \in {a, b} : \A x \in {a, b} : m <= x
  <2>1. CASE a <= b
    BY <2>1
  <2>2. CASE b <= a
    BY <2>2
  <2> QED
    BY <2>1, <2>2
<1> QED
  BY <1>1 DEF Min

LEMMA GreatestOfTwo ==
  ASSUME NEW a \in Nat, NEW b \in Nat
  PROVE  Max({a, b}) \in {a, b} /\ Max({a, b}) >= a /\ Max({a, b}) >= b
<1>1. \E m \in {a, b} : \A x \in {a, b} : m >= x
  <2>1. CASE a <= b
    BY <2>1
  <2>2. CASE b <= a
    BY <2>2
  <2> QED
    BY <2>1, <2>2
<1> QED
  BY <1>1 DEF Max

\* The messages of a list can be compared.
Comparable(s) == \A i \in 1..Len(s) : s[i].likeness \in Int /\ Score(s[i]) \in Int

\* A search finds messages of the user, and all of them unless it is asked for fewer: at
\* tells the places of the n that it finds.
Finds(points, own, ask, hits, n, at) ==
  /\ n \in Nat /\ at \in [1..n -> own]
  /\ hits = [k \in 1..n |-> points[at[k]]]
  /\ Cardinality(own) <= ask => \A i \in own : \E k \in 1..n : at[k] = i

LEMMA SearchIs ==
  ASSUME NEW Ms, NEW points \in Seq(Ms), Comparable(points), NEW owner, NEW excluded,
         NEW ask \in Nat, NEW own, own = Own(points, owner, excluded)
  PROVE  \E n, at : Finds(points, own, ask, Search(points, owner, excluded, ask), n, at)
<1>1. PICK R, N, at : R = Nearer(points) /\ N = Cardinality(own) /\ at = InOrder(own, R)
  OBVIOUS
<1>2. Len(points) \in Nat /\ own \in SUBSET (1..Len(points))
  BY LenProperties DEF Own
<1>3. IsFiniteSet(own)
  <2>1. IsFiniteSet(1..Len(points))
    BY <1>2, IntervalFacts
  <2> QED
    BY <1>2, <2>1, FS_Subset
<1>4. IsOrder(own, R)
  <2>1. PICK size : size = [i \in 1..Len(points) |-> points[i].likeness]
    OBVIOUS
  <2>2. /\ \A i \in own : i \in Int
        /\ \A i \in own : size[i] \in Int
    BY <1>2, <2>1 DEF Comparable
  <2>3. \A i, j \in own : <<i, j>> \in R <=> size[i] > size[j] \/ (size[i] = size[j] /\ i < j)
    <3> TAKE i, j \in own
    <3>1. i \in 1..Len(points) /\ j \in 1..Len(points)
      BY <1>2
    <3> QED
      BY <1>1, <2>1, <3>1 DEF Nearer
  <2> QED
    BY ONLY <2>2, <2>3, SizesOrder
<1>5. /\ N \in Nat /\ at \in [1..N -> own]
      /\ \A i \in own : \E k \in 1..N : at[k] = i
  <2>1. IsFiniteSet(own) /\ IsOrder(own, R) /\ N = Cardinality(own) /\ at = InOrder(own, R)
    BY <1>1, <1>3, <1>4
  <2> QED
    BY ONLY <2>1, InOrderFacts
<1>6. PICK all : all = [k \in 1..N |-> points[at[k]]]
  OBVIOUS
<1>7. PICK S : S = {points[i] : i \in own}
  OBVIOUS
<1>8. all \in [1..N -> S]
  BY <1>5, <1>6, <1>7
<1>9. PICK m \in 0..N : /\ m <= ask /\ (m < ask => m = N)
                        /\ FirstOf(all, ask) = [k \in 1..m |-> all[k]]
  <2>1. N \in Nat /\ all \in [1..N -> S] /\ ask \in Nat
    BY <1>5, <1>8
  <2> QED
    BY ONLY <2>1, FirstOfIs
<1>10. Search(points, owner, excluded, ask) = FirstOf(all, ask)
  BY <1>1, <1>6 DEF Search, Arranged
<1>11. PICK f : f = [k \in 1..m |-> at[k]]
  OBVIOUS
<1>12. m \in Nat /\ \A k \in 1..m : k \in 1..N
  BY <1>5, <1>9
<1>13. f \in [1..m -> own]
  BY <1>5, <1>11, <1>12
<1>14. Search(points, owner, excluded, ask) = [k \in 1..m |-> points[f[k]]]
  BY <1>6, <1>9, <1>10, <1>11, <1>12
<1>15. N <= ask => \A i \in own : \E k \in 1..m : f[k] = i
  <2> SUFFICES ASSUME N <= ask PROVE \A i \in own : \E k \in 1..m : f[k] = i
    OBVIOUS
  <2>1. m = N
    BY <1>5, <1>9
  <2> QED
    BY <1>5, <1>11, <2>1
<1>16. Finds(points, own, ask, Search(points, owner, excluded, ask), m, f)
  BY ONLY <1>1, <1>12, <1>13, <1>14, <1>15 DEF Finds
<1> QED
  BY <1>16

\* The hits are ranked by their scores.
RanksBy(hits, ranked, n, b) ==
  /\ b \in [1..n -> 1..n] /\ \A i \in 1..n : \E k \in 1..n : b[k] = i
  /\ ranked = [k \in 1..n |-> hits[b[k]]]
  /\ \A k, l \in 1..n : k < l => Score(hits[b[k]]) >= Score(hits[b[l]])

LEMMA RerankedIs ==
  ASSUME NEW n \in Nat, NEW hits, Len(hits) = n, Comparable(hits)
  PROVE  \E b : RanksBy(hits, Reranked(hits), n, b)
<1>1. PICK p, q, h, R : /\ p = [i \in 1..n |-> -Score(hits[i])] /\ h = [i \in 1..n |-> 0]
                        /\ q = [i \in 1..n |-> -hits[i].likeness] /\ R = Above(hits)
  OBVIOUS
<1>2. \A i \in 1..n : hits[i].likeness \in Int /\ Score(hits[i]) \in Int
  BY DEF Comparable
<1>3. p \in [1..n -> Int] /\ q \in [1..n -> Int] /\ h \in [1..n -> Int]
  BY <1>1, <1>2
<1>4. ASSUME NEW i \in 1..n, NEW j \in 1..n
      PROVE  <<i, j>> \in R <=> \/ p[i] < p[j] \/ (p[i] = p[j] /\ q[i] < q[j])
                                \/ (p[i] = p[j] /\ q[i] = q[j] /\ h[i] < h[j])
                                \/ (p[i] = p[j] /\ q[i] = q[j] /\ h[i] = h[j] /\ i < j)
  <2>1. <<i, j>> \in R
          <=> \/ Score(hits[i]) > Score(hits[j])
              \/ Score(hits[i]) = Score(hits[j]) /\ hits[i].likeness > hits[j].likeness
              \/ Score(hits[i]) = Score(hits[j]) /\ hits[i].likeness = hits[j].likeness /\ i < j
    BY <1>1 DEF Above
  <2>2. PICK a, b, c, d : /\ a = Score(hits[i]) /\ b = Score(hits[j])
                          /\ c = hits[i].likeness /\ d = hits[j].likeness
    OBVIOUS
  <2>3. a \in Int /\ b \in Int /\ c \in Int /\ d \in Int
    BY <1>2, <2>2
  <2>4. p[i] = -a /\ p[j] = -b /\ q[i] = -c /\ q[j] = -d /\ h[i] = 0 /\ h[j] = 0
    BY <1>1, <2>2
  <2>5. <<i, j>> \in R <=> a > b \/ (a = b /\ c > d) \/ (a = b /\ c = d /\ i < j)
    BY ONLY <2>1, <2>2
  <2>6. (a > b \/ (a = b /\ c > d) \/ (a = b /\ c = d /\ i < j))
          <=> \/ -a < -b \/ (-a = -b /\ -c < -d) \/ (-a = -b /\ -c = -d /\ 0 < 0)
              \/ (-a = -b /\ -c = -d /\ 0 = 0 /\ i < j)
    BY ONLY <2>3
  <2> QED
    BY ONLY <2>4, <2>5, <2>6
<1>5. IsOrder(1..n, R)
  <2>1. n \in Nat /\ p \in [1..n -> Int] /\ q \in [1..n -> Int] /\ h \in [1..n -> Int]
    BY <1>3
  <2>2. ByThree(R, n, p, q, h)
    BY ONLY <1>4, <2>1, ThreeOrder
  <2> QED
    BY <2>2 DEF ByThree
<1>6. PICK at : at = InOrder(1..n, R)
  OBVIOUS
<1>7. /\ OrderedBy(at, n, R)
      /\ Arranged(hits, 1..n, R) = [k \in 1..n |-> hits[at[k]]]
  <2>1. n \in Nat /\ IsOrder(1..n, R)
    BY <1>5
  <2> QED
    BY ONLY <1>6, <2>1, ArrangedIs
<1>8. /\ at \in [1..n -> 1..n]
      /\ \A i \in 1..n : \E k \in 1..n : at[k] = i
      /\ \A k, l \in 1..n : k < l <=> <<at[k], at[l]>> \in R
  BY <1>7 DEF OrderedBy
<1>9. Reranked(hits) = [k \in 1..n |-> hits[at[k]]]
  BY <1>1, <1>7 DEF Reranked
<1>10. ASSUME NEW k \in 1..n, NEW l \in 1..n, k < l
       PROVE  Score(hits[at[k]]) >= Score(hits[at[l]])
  <2>1. at[k] \in 1..n /\ at[l] \in 1..n /\ <<at[k], at[l]>> \in R
    BY <1>8, <1>10
  <2>2. /\ Score(hits[at[k]]) \in Int /\ Score(hits[at[l]]) \in Int
        /\ \/ Score(hits[at[k]]) > Score(hits[at[l]])
           \/ Score(hits[at[k]]) = Score(hits[at[l]])
    BY <1>1, <1>2, <2>1 DEF Above
  <2> QED
    BY <2>2
<1>11. RanksBy(hits, Reranked(hits), n, at)
  BY ONLY <1>8, <1>9, <1>10 DEF RanksBy
<1> QED
  BY <1>11

\* What is shown of a ranked list.
Shows(s, limit, shown, n, m, e) ==
  /\ m \in Nat /\ e \in [1..m -> 1..n]
  /\ m <= limit /\ shown = [k \in 1..m |-> s[e[k]]]
  /\ \A k \in 1..m : Showable(s[e[k]])
  /\ \A k, l \in 1..m : k < l => ~Repeats(s[e[l]], s[e[k]])
  /\ \A i \in 1..n : Showable(s[i]) =>
       \/ \E k \in 1..m : e[k] = i
       \/ \E k \in 1..m : e[k] < i /\ Repeats(s[i], s[e[k]])
       \/ m = limit /\ \A k \in 1..m : e[k] < i

LEMMA SelectedIs ==
  ASSUME NEW n \in Nat, NEW s, Len(s) = n, NEW limit \in Nat
  PROVE  \E m, e : Shows(s, limit, Selected(s, limit), n, m, e)
<1>1. PICK T, m, e : /\ T = Takes(s, limit)[n] /\ m = Cardinality(T)
                     /\ e = InOrder(T, Ascending(T))
  OBVIOUS
<1>2. TakenFairly(s, limit, n, T)
  BY <1>1, TakesFairly
<1>3. /\ T \in SUBSET (1..n) /\ m <= limit
      /\ \A i \in T : Showable(s[i])
      /\ \A i, j \in T : j < i => ~Repeats(s[i], s[j])
      /\ \A i \in (1..n) \ T :
           Showable(s[i]) =>
             \/ \E j \in T : j < i /\ Repeats(s[i], s[j])
             \/ m = limit /\ \A j \in T : j < i
  BY <1>1, <1>2 DEF TakenFairly
<1>4. Sifts(n, T, m, e)
  BY <1>1, <1>3 DEF Sifts
<1>5. /\ m \in Nat /\ e \in [1..m -> T]
      /\ \A i \in T : \E k \in 1..m : e[k] = i
      /\ \A k, l \in 1..m : k < l <=> e[k] < e[l]
      /\ Sifted(s, T) = [k \in 1..m |-> s[e[k]]]
  BY ONLY <1>4, SiftedIs
<1>6. Selected(s, limit) = [k \in 1..m |-> s[e[k]]]
  BY <1>1, <1>5 DEF Selected
<1>7. e \in [1..m -> 1..n]
  BY <1>3, <1>5
<1>8. \A k \in 1..m : e[k] \in T
  BY <1>5
<1>9. \A k, l \in 1..m : k < l => ~Repeats(s[e[l]], s[e[k]])
  BY <1>3, <1>5, <1>8
<1>10. ASSUME NEW i \in 1..n, Showable(s[i])
       PROVE  \/ \E k \in 1..m : e[k] = i
              \/ \E k \in 1..m : e[k] < i /\ Repeats(s[i], s[e[k]])
              \/ m = limit /\ \A k \in 1..m : e[k] < i
  <2>1. CASE i \in T
    BY <1>5, <2>1
  <2>2. CASE i \notin T
    <3>1. \/ \E j \in T : j < i /\ Repeats(s[i], s[j])
          \/ m = limit /\ \A j \in T : j < i
      BY <1>3, <1>10, <2>2
    <3>2. CASE \E j \in T : j < i /\ Repeats(s[i], s[j])
      BY <1>5, <3>2
    <3>3. CASE m = limit /\ \A j \in T : j < i
      BY <1>8, <3>3
    <3> QED
      BY <3>1, <3>2, <3>3
  <2> QED
    BY <2>1, <2>2
<1>11. \A k \in 1..m : Showable(s[e[k]])
  BY <1>3, <1>8
<1>12. m \in Nat /\ m <= limit
  BY <1>3, <1>5
<1>13. Shows(s, limit, Selected(s, limit), n, m, e)
  BY ONLY <1>6, <1>7, <1>9, <1>10, <1>11, <1>12 DEF Shows
<1> QED
  BY <1>13

LEMMA Repeated ==
  /\ \A m, n : Repeats(m, n) <=> Repeats(n, m)
  /\ \A m : Repeats(m, m)
BY DEF Repeats

\* Whatever a user has written, the prompt gets only the user's own messages, none of the
\* session that is excluded, no more than may be shown, none twice and none below the
\* threshold; and what is left out repeats one that is shown or was beaten by as many as
\* may be shown.
THEOREM RecallIsAlwaysFair ==
  ASSUME NEW Ms, NEW points \in Seq(Ms), Comparable(points), NEW owner, NEW excluded,
         NEW limit \in Nat \ {0}
  PROVE  RecallsFairly(points, owner, excluded, limit)
<1>1. PICK own, ask, most, hits, ranked, shown :
        /\ own = Own(points, owner, excluded) /\ ask = Asked(limit) /\ most = Shown(limit)
        /\ hits = Search(points, owner, excluded, ask) /\ ranked = Reranked(hits)
        /\ shown = Selected(ranked, most)
  OBVIOUS
<1>2. ask \in Nat
  <2>1. PICK a \in Nat, b \in Nat : a = 8 * limit /\ b = 20
    OBVIOUS
  <2>2. Max({a, b}) \in {a, b}
    BY GreatestOfTwo
  <2> QED
    BY <1>1, <2>1, <2>2 DEF Asked
<1>3. most \in Nat \ {0}
  <2>1. PICK a \in Nat, b \in Nat : a = limit /\ b = MostSnippets
    BY DEF MostSnippets
  <2>2. Min({a, b}) \in {a, b}
    BY LeastOfTwo
  <2>3. a # 0 /\ b # 0
    BY <2>1 DEF MostSnippets
  <2> QED
    BY <1>1, <2>1, <2>2, <2>3 DEF Shown
<1>4. PICK n, at : Finds(points, own, ask, hits, n, at)
  <2>1. /\ points \in Seq(Ms) /\ Comparable(points) /\ ask \in Nat
        /\ own = Own(points, owner, excluded)
    BY <1>1, <1>2
  <2>2. \E n, at : Finds(points, own, ask, Search(points, owner, excluded, ask), n, at)
    BY ONLY <2>1, SearchIs
  <2> QED
    BY <1>1, <2>2
<1>5. /\ n \in Nat /\ at \in [1..n -> own]
      /\ hits = [k \in 1..n |-> points[at[k]]]
      /\ Cardinality(own) <= ask => \A i \in own : \E k \in 1..n : at[k] = i
  BY <1>4 DEF Finds
<1>6. \A i \in own : i \in 1..Len(points) /\ points[i].likeness \in Int /\ Score(points[i]) \in Int
  BY <1>1 DEF Own, Comparable
<1>7. Len(hits) = n /\ \A k \in 1..n : hits[k] = points[at[k]] /\ at[k] \in own
  BY <1>5
<1>8. Comparable(hits)
  BY <1>6, <1>7 DEF Comparable
<1>8a. PICK b : RanksBy(hits, ranked, n, b)
  <2>1. \E b : RanksBy(hits, Reranked(hits), n, b)
    BY ONLY <1>5, <1>7, <1>8, RerankedIs
  <2> QED
    BY <1>1, <2>1
<1>9. /\ b \in [1..n -> 1..n] /\ \A i \in 1..n : \E k \in 1..n : b[k] = i
      /\ ranked = [k \in 1..n |-> hits[b[k]]]
      /\ \A k, l \in 1..n : k < l => Score(hits[b[k]]) >= Score(hits[b[l]])
  BY <1>8a DEF RanksBy
<1>10. Len(ranked) = n /\ \A k \in 1..n : ranked[k] = hits[b[k]] /\ b[k] \in 1..n
  BY <1>5, <1>9
<1>11. PICK m, e : Shows(ranked, most, shown, n, m, e)
  <2>1. n \in Nat /\ Len(ranked) = n /\ most \in Nat
    BY <1>3, <1>5, <1>10
  <2>2. \E m, e : Shows(ranked, most, Selected(ranked, most), n, m, e)
    BY ONLY <2>1, SelectedIs
  <2> QED
    BY <1>1, <2>2
<1>12. /\ m \in Nat /\ e \in [1..m -> 1..n]
       /\ m <= most /\ shown = [k \in 1..m |-> ranked[e[k]]]
       /\ \A k \in 1..m : Showable(ranked[e[k]])
       /\ \A k, l \in 1..m : k < l => ~Repeats(ranked[e[l]], ranked[e[k]])
       /\ \A i \in 1..n : Showable(ranked[i]) =>
            \/ \E k \in 1..m : e[k] = i
            \/ \E k \in 1..m : e[k] < i /\ Repeats(ranked[i], ranked[e[k]])
            \/ m = most /\ \A k \in 1..m : e[k] < i
  BY <1>11 DEF Shows
<1>13. /\ Len(shown) = m /\ DOMAIN shown = 1..m
       /\ \A k \in 1..m : shown[k] = ranked[e[k]] /\ e[k] \in 1..n
  BY <1>12
<1>14. Len(shown) <= most
  BY <1>12, <1>13
<1>15. ASSUME NEW k \in DOMAIN shown
       PROVE  \E i \in own : shown[k] = points[i] /\ Score(points[i]) >= Threshold
  <2>1. k \in 1..m /\ Showable(ranked[e[k]])
    BY <1>12, <1>13
  <2>2. e[k] \in 1..n /\ b[e[k]] \in 1..n /\ shown[k] = points[at[b[e[k]]]]
    BY <1>7, <1>10, <1>13, <2>1
  <2>3. at[b[e[k]]] \in own
    BY <1>7, <2>2
  <2>4. Score(points[at[b[e[k]]]]) >= Threshold
    BY <1>13, <2>1, <2>2 DEF Showable
  <2> QED
    BY <2>2, <2>3, <2>4
<1>16. ASSUME NEW k \in DOMAIN shown, NEW l \in DOMAIN shown, k < l
       PROVE  ~Repeats(shown[k], shown[l])
  <2>1. ~Repeats(shown[l], shown[k])
    BY <1>12, <1>13, <1>16
  <2> QED
    BY <2>1, Repeated
<1>18. ASSUME Cardinality(own) <= ask, NEW i \in own, Showable(points[i])
       PROVE  \E k \in DOMAIN shown : /\ Score(shown[k]) >= Score(points[i])
                                      /\ Repeats(points[i], shown[k]) \/ Len(shown) = most
  <2>1. PICK x \in 1..n : at[x] = i
    BY <1>5, <1>18
  <2>2. PICK y \in 1..n : b[y] = x
    BY <1>9
  <2>3. ranked[y] = points[i]
    BY <1>7, <1>10, <2>1, <2>2
  <2>4. ASSUME NEW k \in 1..m, e[k] < y
        PROVE  Score(shown[k]) >= Score(points[i])
    <3>1. e[k] \in 1..n /\ shown[k] = ranked[e[k]]
      BY <1>13
    <3>2. Score(hits[b[e[k]]]) >= Score(hits[b[y]])
      BY <1>9, <2>4, <3>1
    <3> QED
      BY <1>10, <2>3, <3>1, <3>2
  <2>5. CASE \E k \in 1..m : e[k] = y
    <3>1. PICK k \in 1..m : e[k] = y
      BY <2>5
    <3>2. shown[k] = points[i]
      BY <1>13, <2>3, <3>1
    <3>3. Score(points[i]) >= Score(points[i])
      BY <1>6
    <3> QED
      BY <1>13, <3>2, <3>3, Repeated
  <2>6. CASE \E k \in 1..m : e[k] < y /\ Repeats(ranked[y], ranked[e[k]])
    <3>1. PICK k \in 1..m : e[k] < y /\ Repeats(ranked[y], ranked[e[k]])
      BY <2>6
    <3>2. Repeats(points[i], shown[k]) /\ Score(shown[k]) >= Score(points[i])
      BY <1>13, <2>3, <2>4, <3>1
    <3> QED
      BY <1>13, <3>2
  <2>7. CASE m = most /\ \A k \in 1..m : e[k] < y
    <3>1. 1 \in 1..m
      BY <1>3, <2>7
    <3>2. Score(shown[1]) >= Score(points[i]) /\ Len(shown) = most
      BY <1>13, <2>4, <2>7, <3>1
    <3> QED
      BY <1>13, <3>1, <3>2
  <2>8. Showable(ranked[y])
    BY <1>18, <2>3
  <2>9. \/ \E k \in 1..m : e[k] = y
        \/ \E k \in 1..m : e[k] < y /\ Repeats(ranked[y], ranked[e[k]])
        \/ m = most /\ \A k \in 1..m : e[k] < y
    BY <1>12, <2>8
  <2> QED
    BY ONLY <2>5, <2>6, <2>7, <2>9
<1>19. Recall(points, owner, excluded, limit) = shown
  BY <1>1 DEF Recall
<1> QED
  BY <1>1, <1>14, <1>15, <1>16, <1>18, <1>19 DEF RecallsFairly

\* A message of a known age, density and likeness.
Dated(x) ==
  /\ x.likeness \in Nat /\ x.bucket = "last_30d" /\ (x.density = <<10>> \/ x.density = <<60>>)
  /\ x.overlaps.preference \in Nat /\ x.overlaps.topic = 0 /\ x.overlaps.symbol = 0
  /\ x.memory \in BOOLEAN

LEMMA DatedCompare ==
  ASSUME NEW x, Dated(x)
  PROVE  x.likeness \in Int /\ Score(x) \in Int
<1>1. /\ x.likeness \in Nat /\ (x.density = <<10>> \/ x.density = <<60>>)
      /\ x.overlaps.preference \in Nat /\ x.overlaps.topic = 0 /\ x.overlaps.symbol = 0
      /\ x.memory \in BOOLEAN
  BY DEF Dated
<1>2. Freshness(x.bucket) = 800
  BY DEF Dated, Freshness
<1>3. x.density # <<>> /\ x.density[1] \in Nat
  <2>1. \A d \in Nat : <<d>> # <<>> /\ <<d>>[1] = d
    OBVIOUS
  <2>2. 10 \in Nat /\ 60 \in Nat
    OBVIOUS
  <2> QED
    BY ONLY <1>1, <2>1, <2>2
<1>4. PICK a, p, d, u, v, w :
        /\ a = x.likeness /\ p = x.overlaps.preference /\ d = x.density[1]
        /\ u = (IF x.memory THEN 1800 ELSE 0)
        /\ v = (IF x.density = <<>> THEN 500 ELSE 15 * x.density[1])
        /\ w = (IF x.density # <<>> /\ x.density[1] < 15 THEN 4500 ELSE 0)
  OBVIOUS
<1>5. /\ a \in Int /\ p \in Int /\ u \in Int /\ v \in Int /\ w \in Int
  <2>1. d \in Nat /\ v = 15 * d
    BY ONLY <1>3, <1>4
  <2>2. v \in Int
    BY ONLY <2>1
  <2> QED
    BY <1>1, <1>4, <2>2
<1>6. Score(x) = a + 2500 * p + 800 * 0 + 1200 * 0 + u + v - w + 800
  BY ONLY <1>1, <1>2, <1>4 DEF Score
<1>7. Score(x) \in Int
  BY ONLY <1>5, <1>6
<1> QED
  BY <1>1, <1>7

LEMMA MessageIsDated ==
  ASSUME NEW o, NEW s, NEW c, NEW f, NEW p \in Nat, NEW l \in Nat
  PROVE  Dated(Message(o, s, c, f, p, l))
BY DEF Message, Wanted, Dated

LEMMA MessagesCompare ==
  ASSUME NEW m \in Messages
  PROVE  m.likeness \in Int /\ Score(m) \in Int
<1> DEFINE Plain == {Message("u1", "s1", c, <<c>>, p, l) : c \in {"a", "b", "c", "d", "short"},
                                                          p \in {0}, l \in {5000, 5500}}
<1>0. /\ 0 \in Nat /\ 1 \in Nat /\ 5200 \in Nat /\ 2000 \in Nat /\ 9000 \in Nat
      /\ 8000 \in Nat /\ 5000 \in Nat /\ 5500 \in Nat
  OBVIOUS
<1>1. ASSUME m \in Plain PROVE Dated(m)
  <2>1. \A c : \A p \in {0} : \A l \in {5000, 5500} : Dated(Message("u1", "s1", c, <<c>>, p, l))
    BY <1>0, MessageIsDated
  <2> QED
    BY <1>1, <2>1
<1>2. Dated(Message("u1", "s1", "a_too", <<"a">>, 0, 5200))
  BY <1>0, MessageIsDated
<1>3. Dated(Message("u1", "s2", "b", <<>>, 1, 2000))
  BY <1>0, MessageIsDated
<1>4. Dated(Message("u2", "s3", "e", <<"e">>, 1, 9000))
  BY <1>0, MessageIsDated
<1>5. Dated(Message("u1", "s2", "blank", <<"blank">>, 1, 8000))
  BY <1>0, MessageIsDated
<1>6. Dated(m)
  <2>1. m \in Plain \union {Message("u1", "s1", "a_too", <<"a">>, 0, 5200),
                           Message("u1", "s2", "b", <<>>, 1, 2000),
                           Message("u2", "s3", "e", <<"e">>, 1, 9000),
                           Message("u1", "s2", "blank", <<"blank">>, 1, 8000)}
    BY DEF Messages
  <2> HIDE DEF Plain
  <2>2. \/ m \in Plain
        \/ m = Message("u1", "s1", "a_too", <<"a">>, 0, 5200)
        \/ m = Message("u1", "s2", "b", <<>>, 1, 2000)
        \/ m = Message("u2", "s3", "e", <<"e">>, 1, 9000)
        \/ m = Message("u1", "s2", "blank", <<"blank">>, 1, 8000)
    BY ONLY <2>1
  <2> QED
    BY ONLY <1>1, <1>2, <1>3, <1>4, <1>5, <2>2
<1> QED
  BY <1>6, DatedCompare

LEMMA RecallHolds == RecallIsSound
<1> SUFFICES ASSUME NEW points \in Indices, NEW excluded, NEW limit \in {2, 10}
             PROVE  RecallsFairly(points, "u1", excluded, limit)
  BY DEF RecallIsSound
<1>1. PICK n \in Nat : points \in [1..n -> Messages]
  <2>1. CASE points \in Few
    <3>1. PICK n \in {0, 1, 3} : points \in Lists(Messages, n)
      BY <2>1, Zenon DEF Few
    <3>2. n \in Nat /\ points \in [1..n -> Messages]
      BY <3>1 DEF Lists
    <3> QED
      BY <3>2
  <2>2. CASE points \in Lists(Rivals, 4)
    <3>1. PICK n \in Nat : n = 4
      OBVIOUS
    <3>2. points \in [1..n -> Rivals]
      BY <2>2, <3>1 DEF Lists
    <3>3. Rivals \in SUBSET Messages
      BY DEF Rivals
    <3>4. points \in [1..n -> Messages]
      BY <3>2, <3>3
    <3> QED
      BY <3>4
  <2> QED
    BY <2>1, <2>2 DEF Indices
<1>2. points \in Seq(Messages) /\ Len(points) = n
  BY <1>1
<1>3. Comparable(points)
  BY <1>1, <1>2, MessagesCompare DEF Comparable
<1> QED
  BY <1>2, <1>3, RecallIsAlwaysFair

-----------------------------------------------------------------------------
(***************************************************************************)
(* What the agents are given.                                              *)
(***************************************************************************)

\* Whatever the recall, the market page, the facts made of it and the order of the
\* candidates are computed from, the user agent, the market agent and the product agent
\* are given sound inputs, and the agents of the offline pipeline answer what its other
\* stages accept (chat/recall_service.py, upstreams/dolthub.py, service.py,
\* intelligence/service.py, fund_preferences.py, product_index/service.py,
\* graph/runtime.py).
THEOREM AgentsGetSoundInputs == Spec => []AgentInputsAreSound
<1>1. OfflineAnswersStand => AgentInputsAreSound
  BY RecallHolds, MarketPageHolds, MarketFactsHold, RankingHolds DEF AgentInputsAreSound
<1> QED
  BY <1>1, OfflineStands, PTL
=============================================================================
