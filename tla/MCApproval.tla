----------------------------- MODULE MCApproval -----------------------------
(* An instance of Approval for TLC: an alert that names no service, so that a *)
(* fix started before the analysis is one for Unknown, and a service that the *)
(* analysis finds, both in one worktree.                                      *)
EXTENDS Approval, TLC

MCRepoOf == [s \in Services |-> CHOOSE r \in Repos : TRUE]
MCAlertServices == [k \in Keys |-> {}]
MCTraceServices == [k \in Keys |-> Services \ {Unknown}]

\* Jobs are alike, and only safety properties are checked.
JobSymmetry == Permutations(Jobs)
=============================================================================
