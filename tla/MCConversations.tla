-------------------------- MODULE MCConversations --------------------------
(* An instance of Conversations for TLC.                                    *)
EXTENDS Conversations, TLC

\* Turns are alike, and so are users and contents; only safety properties are checked.
TurnAndUserSymmetry == Permutations(Turns) \cup Permutations(Users) \cup Permutations(Contents)
=============================================================================
