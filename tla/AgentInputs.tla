---------------------------- MODULE AgentInputs ----------------------------
(***************************************************************************)
(* What the agents of the recommendation graph are given: the recall for   *)
(* the user agent, the market page and the facts made of it for the market *)
(* agent, and the candidates in their order for the product agent; each is *)
(* computed by functions of its module, of whatever the stores and the     *)
(* upstreams hold.                                                         *)
(***************************************************************************)
EXTENDS DeterministicAgents, WatchlistPrices, MarketStance, CandidateRanking, ChatRecall

\* What the agents are given is sound: the messages recalled for the user agent, the
\* market page and the facts made of it for the market agent, and the order of the
\* candidates; and the agents of the offline pipeline answer what its other stages
\* accept.
AgentInputsAreSound ==
  /\ user.known => RecallIsSound
  /\ market.known => MarketPageIsSound /\ MarketFactsAreFair
  /\ basket.known => RankingIsSound
  /\ OfflineAnswersStand
=============================================================================
