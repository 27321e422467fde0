-------------------------- MODULE MCRunLifecycle --------------------------
(* Model values and symmetry for checking RunLifecycle with TLC. *)
EXTENDS RunLifecycle, TLC

\* A bound for safety: of three requests, two come to a run whose settings are
\* reloaded.  Requests that come after the reload go astray, and two are enough
\* for one that came before to meet another.
TwoAtAReload == hubNow = "second" => \E r \in Requests : rpc[r] = "idle"

RequestSymmetry == Permutations(Requests)
=============================================================================
