----------------------------- MODULE MCChatAgent -----------------------------
(***************************************************************************)
(* A small instance of ChatAgent: more streams than threads, one of which  *)
(* uses its tools over several rounds.                                     *)
(***************************************************************************)
EXTENDS ChatReports

MCMaxCalls == [s \in Streams |-> IF s = "s1" THEN 3 ELSE 1]
=============================================================================
