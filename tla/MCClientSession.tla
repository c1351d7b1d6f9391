--------------------------- MODULE MCClientSession ---------------------------
(***************************************************************************)
(* A small instance of ClientSession: two submissions and two reloads, so  *)
(* that requests of up to four loads of the data are in play; and what the *)
(* questionnaire makes of the user's answers.                              *)
(***************************************************************************)
EXTENDS ClientSession, TLC

SessionSymmetry == Permutations(Emails)
=============================================================================
