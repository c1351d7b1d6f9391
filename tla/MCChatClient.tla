---------------------------- MODULE MCChatClient ----------------------------
(***************************************************************************)
(* Small instances of ChatClient.                                          *)
(***************************************************************************)
EXTENDS ChatClient

ClientSymmetry == Permutations(Sessions) \union Permutations(Questions)
=============================================================================
