----------------------------- MODULE MCChatStore -----------------------------
(***************************************************************************)
(* Small instances of ChatStore: model values for sessions and messages.   *)
(***************************************************************************)
EXTENDS ChatStore, TLC

\* Threads are alike, and so are sessions.
StoreSymmetry == Permutations(Threads) \union Permutations(Sessions)
=============================================================================
