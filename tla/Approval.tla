------------------------------ MODULE Approval ------------------------------
(***************************************************************************)
(* Approval of write actions, composed with the incidents they change.     *)
(* An agent proposes an action; an administrator approves it, which runs   *)
(* StartFix or CommitFix inside the request, or rejects it.  Approve reads *)
(* the row, executes, and only then writes the verdict, without looking at *)
(* the row again; Reject writes without looking at all.                    *)
(***************************************************************************)
EXTENDS Incidents

CONSTANT MayCrash   \* whether the process may stop and start again

VARIABLES
  action,    \* pending_actions: what the database holds of each action
  executed,  \* history: how often an action was executed
  outcomes,  \* history: what its finished executions returned
  lost       \* history: actions an execution of which left no verdict

approvalVars == <<action, executed, outcomes, lost>>
vars == <<incidentVars, approvalVars>>

Verdict == {"pending", "done", "failed", "rejected"}
Tool == {"propose_branch", "propose_commit"}

Action ==
  {x \in [tool: Tool, id: Incidents, name: BranchNames \cup {None}, status: Verdict] :
     x.tool = "propose_branch" => x.name # None}

ASSUME NoActionAssumption == None \notin Action

TypeOK ==
  /\ IncidentTypeOK
  /\ action \in [Actions -> Action \cup {None}]
  /\ executed \in [Actions -> 0..MaxRequests]
  /\ outcomes \in [Actions -> SUBSET BOOLEAN]
  /\ lost \subseteq Actions

Init ==
  /\ IncidentInit
  /\ action = [a \in Actions |-> None]
  /\ executed = [a \in Actions |-> 0]
  /\ outcomes = [a \in Actions |-> {}]
  /\ lost = {}

-----------------------------------------------------------------------------
(* The agent's side.                                                       *)

\* Propose inserts a pending row for an incident the model names; the tool
\* only checks that there is a name, so the incident may be gone.  A commit
\* without a branch name concerns all of them.
Propose(a) ==
  /\ action[a] = None
  /\ \E i \in issued, t \in Tool, b \in BranchNames \cup {None} :
       /\ t = "propose_branch" => b # None
       /\ action' = [action EXCEPT ![a] = [tool |-> t, id |-> i, name |-> b,
                                           status |-> "pending"]]
  /\ UNCHANGED <<incidentVars, executed, outcomes, lost>>

-----------------------------------------------------------------------------
(* The administrator's side.                                               *)

\* Broken variant: the status is not looked at.
ReadyIfProposed(a) == action[a] # None

ReadyToRun(a) == action[a] # None /\ action[a].status = "pending"

\* Approve reads the row, refuses one that is not pending and calls execute:
\* StartFix or CommitFix by the tool the row names.
Approve(j, a) ==
  /\ ReadyToRun(a)
  /\ Begin(j, [Idle EXCEPT !.act = a, !.id = action[a].id, !.name = action[a].name,
                           !.pc = IF action[a].tool = "propose_branch"
                                  THEN "startFix" ELSE "commitFix"])
  /\ executed' = [executed EXCEPT ![a] = @ + 1]
  /\ UNCHANGED <<record, issued, alerts, gitVars, action, outcomes, lost>>

\* Broken variant: the error of the execution is dropped.
VerdictAlwaysDone(ok) == "done"

Verdicts(ok) == IF ok THEN "done" ELSE "failed"

\* Broken variant: a failed action is left pending, to be approved again.
SettleForRetry(j) ==
  /\ job[j].pc = "settle"
  /\ LET a == job[j].act IN
       /\ action' = IF job[j].ok THEN [action EXCEPT ![a].status = "done"] ELSE action
       /\ outcomes' = [outcomes EXCEPT ![a] = @ \cup {job[j].ok}]
  /\ job' = [job EXCEPT ![j] = Idle]
  /\ UNCHANGED <<record, issued, counters, gitVars, executed, lost>>

\* ... and writes the verdict over whatever the row says now.  The UPDATE may
\* fail, or be applied although it reports an error.
Settle(j) ==
  /\ job[j].pc = "settle"
  /\ LET a == job[j].act IN
       /\ \/ /\ action' = [action EXCEPT ![a].status = Verdicts(job[j].ok)]
             /\ UNCHANGED lost
          \/ /\ lost' = lost \cup {a}
             /\ UNCHANGED action
       /\ outcomes' = [outcomes EXCEPT ![a] = @ \cup {job[j].ok}]
  /\ job' = [job EXCEPT ![j] = Idle]
  /\ UNCHANGED <<record, issued, counters, gitVars, executed>>

\* Reject: an UPDATE by identifier, in any status.
Reject(a) ==
  /\ action[a] # None
  /\ action[a].status # "rejected"
  /\ action' = [action EXCEPT ![a].status = "rejected"]
  /\ UNCHANGED <<incidentVars, executed, outcomes, lost>>

-----------------------------------------------------------------------------
\* The process stops and starts again: every request and goroutine is gone,
\* rows, worktrees and origin stay.
Executing(a) == {j \in Jobs : job[j].act = a}

Crash ==
  /\ MayCrash
  /\ \E j \in Jobs : job[j].pc # "idle"
  /\ job' = [j \in Jobs |-> Idle]
  /\ lost' = lost \cup {a \in Actions : Executing(a) # {}}
  /\ UNCHANGED <<record, issued, counters, gitVars,
                 action, executed, outcomes>>

Request(j) ==
  \/ CreateFromAlert(j)
  \/ \E i \in issued :
       \/ \E b \in BranchNames : StartFix(j, i, b)
       \/ \E b \in BranchNames \cup {None} : CommitFix(j, i, b)

Work(j) == JobStep(j) /\ UNCHANGED approvalVars

Next ==
  \/ \E j \in Jobs : Request(j) /\ UNCHANGED approvalVars
  \/ \E j \in Jobs : Work(j) \/ Settle(j)
  \/ \E j \in Jobs, a \in Actions : Approve(j, a)
  \/ \E a \in Actions : Propose(a) \/ Reject(a)
  \/ \E i \in Incidents : Delete(i) /\ UNCHANGED approvalVars
  \/ \E r \in Repos : Edit(r) /\ UNCHANGED approvalVars
  \/ Crash

Spec == Init /\ [][Next]_vars

-----------------------------------------------------------------------------
(* Properties.                                                             *)

\* A branch an incident records as pushed is at origin, and unless two jobs
\* used that worktree at once what is there is a commit: whatever records
\* concurrent analyses and fixes write over each other, a push that failed
\* is never reported (commitBranch, upsertBranch, save).
PushedIsAtOrigin ==
  \A i \in Incidents : record[i] # NoRecord =>
    \A f \in FixBranches : record[i].branches[f] = "pushed" =>
      /\ remote[RepoOf[f[1]]][f[2]] # "absent"
      /\ RepoOf[f[1]] \notin raced => remote[RepoOf[f[1]]][f[2]] = "fix"

\* An incident that says "fixed" has a branch and none that is not pushed,
\* under any interleaving of whole-record saves (CommitFix, StartFix, Analyze).
FixedMeansPushed ==
  \A i \in Incidents : record[i] # NoRecord /\ record[i].status = "fixed" =>
    /\ \E f \in FixBranches : record[i].branches[f] = "pushed"
    /\ \A f \in FixBranches : record[i].branches[f] # "unpushed"

\* While an action is pending every execution of it is still under way, or was
\* cut short by a crash or by an UPDATE that failed: a second approval repeats
\* what another one is doing at the same time, never what it has done.
PendingIsFresh ==
  \A a \in Actions \ lost : ReadyToRun(a) => outcomes[a] = {}

\* The verdict tells what happened: "done" and "failed" are the outcome of an
\* execution of this very action, though a later one may have replaced it.
VerdictIsAnOutcome ==
  \A a \in Actions : action[a] # None =>
    /\ action[a].status = "done" => TRUE \in outcomes[a]
    /\ action[a].status = "failed" => FALSE \in outcomes[a]

\* The approval service implements the gate.
Gate == INSTANCE ApprovalGate WITH
  verdict <- [a \in Actions |-> IF action[a] = None THEN "none" ELSE action[a].status]

ImplementsGate == Gate!GateInit /\ [][Gate!GateNext]_(Gate!gateVars)
=============================================================================
