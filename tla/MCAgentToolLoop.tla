---------------------------- MODULE MCAgentToolLoop ----------------------------
(***************************************************************************)
(* AgentToolLoop with the limits of the code.  What a model calls: a       *)
(* submission, a tool that two agents have and one that another has.       *)
(***************************************************************************)
EXTENDS AgentToolLoop

MCNames == {Submit, "get_candidate_detail", "get_market_facts"}
=============================================================================
