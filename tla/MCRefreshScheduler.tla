------------------------- MODULE MCRefreshScheduler -------------------------
(***************************************************************************)
(* A small instance of RefreshScheduler.  Lists shrink and come up empty,  *)
(* the two ways a refresh can lose data.                                   *)
(***************************************************************************)
EXTENDS RefreshScheduler

MCLists == [c \in Categories |->
              IF c = "stock" THEN <<{"s1", "s2"}, {}, {"s2"}>> ELSE <<{}, {"f1"}, {"f1"}>>]
MCCategoryOf == [p \in Products |-> IF p = "f1" THEN "fund" ELSE "stock"]
=============================================================================
