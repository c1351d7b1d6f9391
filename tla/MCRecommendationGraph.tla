---------------------- MODULE MCRecommendationGraph ----------------------
(***************************************************************************)
(* A catalogue small enough to enumerate: a low-risk liquid fund, a        *)
(* low-risk cash product as the refresh lists them, a high-risk stock and  *)
(* a fund whose risk text is not R1..R5, so every filter has something to  *)
(* let through and something to stop; and indices of three days.           *)
(***************************************************************************)
EXTENDS AgentInputs

MCProducts == {"fund-1", "wm-1", "stock-1", "fund-x"}
MCCategory == [p \in MCProducts |->
                 CASE p = "wm-1" -> "wealth_management"
                   [] p = "stock-1" -> "stock"
                   [] OTHER -> "fund"]
MCRisk == [p \in MCProducts |->
             CASE p = "fund-1" -> 2 [] p = "wm-1" -> 1 [] p = "stock-1" -> 4 [] OTHER -> 0]
MCTerm == [p \in MCProducts |->
             CASE p = "fund-1" -> "T+1" [] p = "wm-1" -> "T+0/T+1" [] p = "stock-1" -> "90d"
               [] OTHER -> "none"]
MCLiquid == [p \in MCProducts |-> CountsAsLiquid(MCTerm[p])]
MCProfiles == {"conservative", "aggressive"}
MCDays == 1..3

-----------------------------------------------------------------------------
\* "Fits users who prioritize high liquidity" (real_data_adapters.py): a product that
\* can be redeemed at T+0 or T+1 is not refused to a user who wants liquidity.
CashProductsAreOffered ==
  basket.known /\ user.high =>
    \A p \in pool :
      (/\ Risk[p] \in AllowedRisk(user.tier)
       /\ Category[p] \notin market.avoided
       /\ MCTerm[p] \in {"T+0", "T+1", "T+0/T+1"})
      => p \in RetrievalPlan(pool, user, market)
=============================================================================
