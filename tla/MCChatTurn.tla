----------------------------- MODULE MCChatTurn -----------------------------
(***************************************************************************)
(* Small instances of ChatTurn.                                            *)
(***************************************************************************)
EXTENDS ChatTurn, TLC

MCUserText == [role: {"user"}, asked: Questions, size: {0}]
MCMessages == MCUserText \union [role: {"assistant"}, asked: Questions, size: 1..MaxPieces]

\* Askers are alike, and so are questions.
TurnSymmetry == Permutations(Askers) \union Permutations(Questions)
=============================================================================
