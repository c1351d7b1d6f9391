----------------------------- MODULE ChatReports -----------------------------
(***************************************************************************)
(* What two of the tools of ChatAgent report to the model: the analysis of *)
(* a company and the digest of the news.                                   *)
(***************************************************************************)
EXTENDS ChatAgent, FundamentalAnalysis, MarketNews

\* When an analysis is done, what reports are made of is fair to the figures: a loss is
\* called strong only under a warning that the cash flow is missing, a missing figure is
\* no merit, like is compared with like, and a story counts once.
ReportsAreFair ==
  (\E j \in Jobs : job[j].state = "done") => AnalysisIsFair /\ RepeatsCountOnce
=============================================================================
