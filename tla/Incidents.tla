----------------------------- MODULE Incidents -----------------------------
(***************************************************************************)
(* The incident manager: incident records in MySQL, the goroutines that    *)
(* analyse them and the requests that prepare and push fix branches.       *)
(*                                                                         *)
(* Every operation reads the whole record, works for seconds or minutes    *)
(* (log search, LLM, git commands) and writes the whole record back with   *)
(* INSERT ... ON DUPLICATE KEY UPDATE.  Nothing orders two operations on    *)
(* one record or on one git worktree.  A job is one HTTP request, or the    *)
(* goroutine an alert leaves behind; a worktree belongs to one repository. *)
(***************************************************************************)
EXTENDS Naturals, FiniteSets

CONSTANTS
  Incidents,     \* identifiers newID can hand out
  Keys,          \* deduplication keys of alerts
  Services,      \* names of services; Unknown stands in when none is known
  Unknown,
  Repos,         \* git worktrees under the workspace root
  RepoOf,        \* the worktree repoForService finds for a service
  AlertServices, \* the services an alert with a key names
  TraceServices, \* the services its traces may add
  BranchNames,   \* branch names: given by the request, or the default one
  Jobs,          \* requests and goroutines at work at one time
  Actions,       \* pending write actions of the approval service
  MaxAlerts,     \* bound on the alerts delivered
  MaxRequests,   \* bound on the fix, commit and approve requests
  None           \* no incident, no action, no branch

ASSUME UnknownAssumption == Unknown \in Services
ASSUME RepoAssumption == RepoOf \in [Services -> Repos]
ASSUME AlertAssumption ==
  /\ AlertServices \in [Keys -> SUBSET Services]
  /\ TraceServices \in [Keys -> SUBSET Services]
ASSUME KeyAssumption == Keys # {}
ASSUME NoneAssumption == None \notin Incidents \cup Actions \cup BranchNames
ASSUME BoundAssumption == MaxAlerts \in Nat /\ MaxRequests \in Nat

VARIABLES
  record,   \* incident_records: what the database holds of each identifier
  issued,   \* identifiers already used
  tree,     \* per worktree: the branch checked out and whether it is dirty
  local,    \* per worktree and branch: absent, at the base, or with commits
  remote,   \* the same for the branch at origin
  job,      \* what every job is doing
  alerts,   \* number of alerts delivered so far
  requests, \* number of fix, commit and approve requests taken so far
  raced     \* history: worktrees two jobs used at once

incidentVars == <<record, issued, tree, local, remote, job, alerts, requests, raced>>

-----------------------------------------------------------------------------
(* Types.                                                                  *)

Status == {"open", "analyzing", "fixing", "fixed"}
FixBranches == Services \X BranchNames
BranchState == {"absent", "unpushed", "pushed"}

Record ==
  [key: Keys, status: Status, svcs: SUBSET Services,
   branches: [FixBranches -> BranchState]]

ASSUME NoRecordAssumption == None \notin FixBranches /\ None \notin Record

\* "fix": commits the remote does not have; "kept": level with, or on top of,
\* a pushed fix.  A branch at the base, or rebuilt from it, is behind a fix
\* that was pushed before.
LocalState == {"absent", "base", "fix", "kept"}
RemoteState == {"absent", "base", "fix"}

Pc == {"idle", "insert", "analyze", "analyzed", "startFix", "createBranch",
       "checkout", "commitFix", "commitBranch", "commit", "push", "settle"}

NoBranches == [f \in FixBranches |-> "absent"]

Job ==
  [pc: Pc, act: Actions \cup {None}, id: Incidents \cup {None},
   key: Keys, rec: Record \cup {None}, name: BranchNames \cup {None},
   todo: SUBSET FixBranches, at: FixBranches \cup {None}, ok: BOOLEAN]

\* Jobs past their Get hold a copy, those between git commands a branch.
HasCopy == {"analyzed", "createBranch", "checkout", "commitBranch", "commit", "push"}
AtGit == {"checkout", "commit", "push"}

IncidentTypeOK ==
  /\ record \in [Incidents -> Record \cup {None}]
  /\ issued \subseteq Incidents
  /\ tree \in [Repos -> [head: BranchNames \cup {None}, dirty: BOOLEAN]]
  /\ local \in [Repos -> [BranchNames -> LocalState]]
  /\ remote \in [Repos -> [BranchNames -> RemoteState]]
  /\ job \in [Jobs -> Job]
  /\ \A j \in Jobs : /\ job[j].pc \in HasCopy => job[j].rec # None
                     /\ job[j].pc \in AtGit => job[j].at # None
                     /\ job[j].pc \notin {"idle", "insert", "settle"} => job[j].id # None
                     /\ job[j].pc = "startFix" => job[j].name # None
                     /\ job[j].pc = "settle" => job[j].act # None
  /\ alerts \in 0..MaxAlerts
  /\ requests \in 0..MaxRequests
  /\ raced \subseteq Repos

NoRecord == None
AnyKey == CHOOSE k \in Keys : TRUE

Idle ==
  [pc |-> "idle", act |-> None, id |-> None, key |-> AnyKey,
   rec |-> NoRecord, name |-> None, todo |-> {}, at |-> None, ok |-> FALSE]

IncidentInit ==
  /\ record = [i \in Incidents |-> NoRecord]
  /\ issued = {}
  /\ tree = [r \in Repos |-> [head |-> None, dirty |-> FALSE]]
  /\ local = [r \in Repos |-> [b \in BranchNames |-> "absent"]]
  /\ remote = [r \in Repos |-> [b \in BranchNames |-> "absent"]]
  /\ job = [j \in Jobs |-> Idle]
  /\ alerts = 0
  /\ requests = 0
  /\ raced = {}

-----------------------------------------------------------------------------
(* Jobs.                                                                   *)

\* A decision on an incident or an action arrives: job j starts with it.
Begin(j, start) ==
  /\ job[j].pc = "idle"
  /\ requests < MaxRequests
  /\ requests' = requests + 1
  /\ job' = [job EXCEPT ![j] = start]

\* A fix or commit operation returns: to the approval service when that is
\* who called, with the error it returns, and else to the HTTP handler.
Return(j, ok) ==
  job' = [job EXCEPT ![j] =
            IF @.act = None THEN Idle
            ELSE [Idle EXCEPT !.pc = "settle", !.act = job[j].act, !.ok = ok]]

\* save replaces the whole row, or creates it again when it was deleted.
Save(i, rec) == record' = [record EXCEPT ![i] = rec]

\* The loop over the branches: branch f is taken up, or left with what is
\* recorded of it.
TakeUp(x, pc, f) == [x EXCEPT !.pc = pc, !.at = f]
Leave(x, pc, rec, f) ==
  [x EXCEPT !.pc = pc, !.at = None, !.rec = rec, !.todo = x.todo \ {f}]

\* Two jobs between the first and the last git command in one worktree.
InTree(j, r) ==
  /\ job[j].pc \in AtGit
  /\ RepoOf[job[j].at[1]] = r
Enter(j, r) ==
  raced' = IF \E k \in Jobs \ {j} : InTree(k, r) THEN raced \cup {r} ELSE raced

gitVars == <<tree, local, remote, raced>>
counters == <<alerts, requests>>

-----------------------------------------------------------------------------
(* Alerts and analysis.                                                    *)

Open(rec) == rec # NoRecord /\ rec.status # "fixed"

\* findOpenDedup: an open incident with the alert's key.
FindOpenDedup(k) == {i \in Incidents : Open(record[i]) /\ record[i].key = k}

\* CreateFromAlert up to its look-up.  A failing query counts as "none open".
CreateFromAlert(j) ==
  /\ job[j].pc = "idle"
  /\ alerts < MaxAlerts
  /\ alerts' = alerts + 1
  /\ \E k \in Keys :
       \/ \E i \in FindOpenDedup(k) :
            job' = [job EXCEPT ![j] = [@ EXCEPT !.pc = "analyze", !.id = i]]
       \/ /\ FindOpenDedup(k) = {}
          /\ job' = [job EXCEPT ![j] = [@ EXCEPT !.pc = "insert", !.key = k]]
  /\ UNCHANGED <<record, issued, requests, gitVars>>

\* ... and from it on: the new record, or the error of the INSERT.  Either
\* handler then analyses the incident in a goroutine of its own.
InsertIncident(j) ==
  /\ job[j].pc = "insert"
  /\ \/ \E i \in Incidents \ issued :
          /\ issued' = issued \cup {i}
          /\ Save(i, [key |-> job[j].key, status |-> "analyzing",
                      svcs |-> AlertServices[job[j].key], branches |-> NoBranches])
          /\ job' = [job EXCEPT ![j] = [@ EXCEPT !.pc = "analyze", !.id = i]]
     \/ /\ job' = [job EXCEPT ![j] = Idle]
        /\ UNCHANGED <<record, issued>>
  /\ UNCHANGED <<counters, gitVars>>

\* Broken variant: the analysis of a deleted incident starts.
AnalyzeGetUnchecked(j) ==
  /\ job[j].pc = "analyze"
  /\ job' = [job EXCEPT ![j] = [@ EXCEPT !.pc = "analyzed", !.rec = record[job[j].id]]]
  /\ UNCHANGED <<record, issued, counters, gitVars>>

\* Analyze reads the record; a failing Get ends it.
AnalyzeGet(j) ==
  /\ job[j].pc = "analyze"
  /\ \/ /\ record[job[j].id] # NoRecord
        /\ job' = [job EXCEPT ![j] = [@ EXCEPT !.pc = "analyzed", !.rec = record[job[j].id]]]
     \/ job' = [job EXCEPT ![j] = Idle]
  /\ UNCHANGED <<record, issued, counters, gitVars>>

\* ... and saves it, minutes later, with what it inferred: services found in
\* traces are added and the status is "open", whatever it was.
Analyzed(rec, found) ==
  [rec EXCEPT !.status = "open", !.svcs = @ \cup found]

AnalyzeSave(j) ==
  /\ job[j].pc = "analyzed"
  /\ \/ \E found \in {{}, TraceServices[job[j].rec.key]} :
          Save(job[j].id, Analyzed(job[j].rec, found))
     \/ UNCHANGED record
  /\ job' = [job EXCEPT ![j] = Idle]
  /\ UNCHANGED <<issued, counters, gitVars>>

\* DELETE /api/incidents/{id}.
Delete(i) ==
  /\ record[i] # NoRecord
  /\ record' = [record EXCEPT ![i] = NoRecord]
  /\ UNCHANGED <<issued, counters, job, gitVars>>

-----------------------------------------------------------------------------
(* StartFix: a branch per affected service.                                *)

\* The request reaches StartFix: directly, or through an approved action.
StartFix(j, i, b) ==
  /\ Begin(j, [Idle EXCEPT !.pc = "startFix", !.id = i, !.name = b])
  /\ UNCHANGED <<record, issued, alerts, gitVars>>

\* Get, and the changes made to the copy before any branch is created.  An
\* incident without services gets a branch for Unknown.
StartFixGet(j) ==
  /\ job[j].pc = "startFix"
  /\ LET rec == record[job[j].id]
         svcs == IF rec.svcs = {} THEN {Unknown} ELSE rec.svcs
     IN \/ /\ rec # NoRecord
           /\ job' = [job EXCEPT ![j] =
                        [@ EXCEPT !.pc = "createBranch",
                                  !.rec = [rec EXCEPT !.status = "fixing"],
                                  !.todo = svcs \X {job[j].name}]]
        \/ Return(j, FALSE)
  /\ UNCHANGED <<record, issued, counters, gitVars>>

\* upsertBranch replaces what the record says of this service and branch.
Upsert(rec, f, state) == [rec EXCEPT !.branches[f] = state]

\* createBranch, first half: the worktree must be clean and the fetch succeed.
\* A failure is recorded in the branch and the loop goes on.
CreateBranch(j) ==
  /\ job[j].pc = "createBranch"
  /\ \E f \in job[j].todo :
       LET r == RepoOf[f[1]] IN
       \/ /\ ~tree[r].dirty
          /\ job' = [job EXCEPT ![j] = TakeUp(@, "checkout", f)]
          /\ Enter(j, r)
       \/ /\ job' = [job EXCEPT ![j] =
                        Leave(@, "createBranch", Upsert(@.rec, f, "unpushed"), f)]
          /\ UNCHANGED raced
  /\ UNCHANGED <<record, issued, counters, tree, local, remote>>

\* ... second half: checkout -B moves the branch to the base, commits it had
\* or not, and the note makes the worktree dirty.  Either command may fail.
Checkout(j) ==
  /\ job[j].pc = "checkout"
  /\ LET f == job[j].at
         r == RepoOf[f[1]]
     IN /\ \/ /\ tree' = [tree EXCEPT ![r] = [head |-> f[2], dirty |-> TRUE]]
              /\ local' = [local EXCEPT ![r][f[2]] = "base"]
           \/ /\ tree' = [tree EXCEPT ![r].head = f[2]]
              /\ local' = [local EXCEPT ![r][f[2]] = "base"]
           \/ UNCHANGED <<tree, local>>
        /\ job' = [job EXCEPT ![j] =
                     Leave(@, "createBranch", Upsert(@.rec, f, "unpushed"), f)]
  /\ UNCHANGED <<record, issued, counters, remote, raced>>

StartFixSave(j) ==
  /\ job[j].pc = "createBranch"
  /\ job[j].todo = {}
  /\ \/ Save(job[j].id, job[j].rec) /\ Return(j, TRUE)
     \/ Return(j, FALSE) /\ UNCHANGED record
  /\ UNCHANGED <<issued, counters, gitVars>>

-----------------------------------------------------------------------------
(* CommitFix: commit and push the prepared branches.                       *)

CommitFix(j, i, b) ==
  /\ Begin(j, [Idle EXCEPT !.pc = "commitFix", !.id = i, !.name = b])
  /\ UNCHANGED <<record, issued, alerts, gitVars>>

\* Get; a request that names a branch skips the others.
CommitFixGet(j) ==
  /\ job[j].pc = "commitFix"
  /\ LET rec == record[job[j].id]
         wanted == {f \in FixBranches : /\ rec.branches[f] # "absent"
                                        /\ job[j].name \in {None, f[2]}}
     IN \/ /\ rec # NoRecord
           /\ job' = [job EXCEPT ![j] = [@ EXCEPT !.pc = "commitBranch", !.rec = rec,
                                                  !.todo = wanted]]
        \/ Return(j, FALSE)
  /\ UNCHANGED <<record, issued, counters, gitVars>>

\* commitBranch: checkout.  A failure leaves the branch as it was recorded.
CommitBranch(j) ==
  /\ job[j].pc = "commitBranch"
  /\ \E f \in job[j].todo :
       LET r == RepoOf[f[1]] IN
       \/ /\ local[r][f[2]] # "absent"
          /\ tree' = [tree EXCEPT ![r].head = f[2]]
          /\ job' = [job EXCEPT ![j] = TakeUp(@, "commit", f)]
          /\ Enter(j, r)
       \/ /\ job' = [job EXCEPT ![j] = Leave(@, "commitBranch", @.rec, f)]
          /\ UNCHANGED <<tree, raced>>
  /\ UNCHANGED <<record, issued, counters, local, remote>>

\* ... status, add and commit.  Nothing to commit ends the branch without an
\* error and without a push; the commit goes to whatever is checked out.
WithCommit(s) == IF s = "base" THEN "fix" ELSE s

Commit(j) ==
  /\ job[j].pc = "commit"
  /\ LET r == RepoOf[job[j].at[1]]
         h == tree[r].head
     IN \/ /\ tree[r].dirty
           /\ tree' = [tree EXCEPT ![r].dirty = FALSE]
           /\ local' = IF h = None THEN local ELSE [local EXCEPT ![r][h] = WithCommit(@)]
           /\ job' = [job EXCEPT ![j] = [@ EXCEPT !.pc = "push"]]
        \/ /\ job' = [job EXCEPT ![j] = Leave(@, "commitBranch", @.rec, @.at)]
           /\ UNCHANGED <<tree, local>>
  /\ UNCHANGED <<record, issued, counters, remote, raced>>

\* ... push.  Origin refuses a branch that lacks the fix it already has; a
\* push may arrive although the command fails.
FastForward(r, b) == remote[r][b] # "fix" \/ local[r][b] = "kept"
Pushed(s) == IF s = "base" THEN "base" ELSE "fix"

MarkPushed(rec, f) == [rec EXCEPT !.branches[f] = "pushed"]

\* Broken variant: the branch is marked before the push is known to succeed.
PushMarksFirst(j) ==
  /\ job[j].pc = "push"
  /\ LET f == job[j].at
         r == RepoOf[f[1]]
     IN /\ job' = [job EXCEPT ![j] = Leave(@, "commitBranch", MarkPushed(@.rec, f), f)]
        /\ \/ /\ FastForward(r, f[2])
              /\ remote' = [remote EXCEPT ![r][f[2]] = Pushed(local[r][f[2]])]
              /\ local' = [local EXCEPT ![r][f[2]] = IF @ = "fix" THEN "kept" ELSE @]
           \/ UNCHANGED <<remote, local>>
  /\ UNCHANGED <<record, issued, counters, tree, raced>>

Push(j) ==
  /\ job[j].pc = "push"
  /\ LET f == job[j].at
         r == RepoOf[f[1]]
     IN \/ /\ local[r][f[2]] # "absent"
           /\ FastForward(r, f[2])
           /\ remote' = [remote EXCEPT ![r][f[2]] = Pushed(local[r][f[2]])]
           /\ local' = [local EXCEPT ![r][f[2]] = IF @ = "fix" THEN "kept" ELSE @]
           /\ \E rec \in {job[j].rec, MarkPushed(job[j].rec, f)} :
                job' = [job EXCEPT ![j] = Leave(@, "commitBranch", rec, f)]
        \/ /\ job' = [job EXCEPT ![j] = Leave(@, "commitBranch", @.rec, f)]
           /\ UNCHANGED <<remote, local>>
  /\ UNCHANGED <<record, issued, counters, tree, raced>>

\* Broken variant: one pushed branch is enough.
AnyPushed(rec) == \E f \in FixBranches : rec.branches[f] = "pushed"

\* The incident is fixed when every branch the copy knows was pushed, those
\* the request skipped included.
AllPushed(rec) ==
  /\ \E f \in FixBranches : rec.branches[f] # "absent"
  /\ \A f \in FixBranches : rec.branches[f] # "unpushed"

Confirmed(rec) == IF AllPushed(rec) THEN [rec EXCEPT !.status = "fixed"] ELSE rec

CommitFixSave(j) ==
  /\ job[j].pc = "commitBranch"
  /\ job[j].todo = {}
  /\ \/ Save(job[j].id, Confirmed(job[j].rec)) /\ Return(j, TRUE)
     \/ Return(j, FALSE) /\ UNCHANGED record
  /\ UNCHANGED <<issued, counters, gitVars>>

-----------------------------------------------------------------------------
(* The environment.                                                        *)

\* A developer changes files in a worktree: the fix CommitFix is to commit.
Edit(r) ==
  /\ tree[r].head # None
  /\ ~tree[r].dirty
  /\ tree' = [tree EXCEPT ![r].dirty = TRUE]
  /\ UNCHANGED <<record, issued, counters, job, local, remote, raced>>

JobStep(j) ==
  \/ InsertIncident(j) \/ AnalyzeGet(j) \/ AnalyzeSave(j)
  \/ StartFixGet(j) \/ CreateBranch(j) \/ Checkout(j) \/ StartFixSave(j)
  \/ CommitFixGet(j) \/ CommitBranch(j) \/ Commit(j) \/ Push(j) \/ CommitFixSave(j)

=============================================================================
