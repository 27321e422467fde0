---------------------------- MODULE ApprovalGate ----------------------------
(***************************************************************************)
(* What the approval of write actions promises: an action is executed only *)
(* by requests that found it pending, a verdict is only reached from an     *)
(* execution or a rejection, and an action that has one is never pending,   *)
(* and so never executed, again.                                           *)
(***************************************************************************)
EXTENDS Naturals

CONSTANTS
  Actions    \* proposed write actions

VARIABLES
  verdict,   \* per action: none, "pending" or how it was decided
  executed   \* per action: how often it was executed

gateVars == <<verdict, executed>>

GateInit ==
  /\ verdict = [a \in Actions |-> "none"]
  /\ executed = [a \in Actions |-> 0]

Propose(a) ==
  /\ verdict[a] = "none"
  /\ verdict' = [verdict EXCEPT ![a] = "pending"]
  /\ UNCHANGED executed

Execute(a) ==
  /\ verdict[a] = "pending"
  /\ executed' = [executed EXCEPT ![a] = @ + 1]
  /\ UNCHANGED verdict

\* The outcome of an execution, or a rejection, replaces any verdict.
Decide(a) ==
  /\ verdict[a] # "none"
  /\ \/ /\ executed[a] > 0
        /\ \E v \in {"done", "failed"} : verdict' = [verdict EXCEPT ![a] = v]
     \/ verdict' = [verdict EXCEPT ![a] = "rejected"]
  /\ UNCHANGED executed

GateNext == \E a \in Actions : Propose(a) \/ Execute(a) \/ Decide(a)

GateSpec == GateInit /\ [][GateNext]_gateVars
=============================================================================
