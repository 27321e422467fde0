--------------------------- MODULE ApprovalProofs ---------------------------
(* Theorems about Approval and the incidents it changes, for any number of   *)
(* incidents, keys, services, worktrees, branches, jobs and actions.          *)
EXTENDS Approval, TLAPS

-----------------------------------------------------------------------------
(* Types.                                                                  *)

\* A job's record is typed, and holds what its step is about to use.
ShapedJob ==
  {x \in Job : /\ x.pc \in HasCopy => x.rec # None
               /\ x.pc \in AtGit => x.at # None
               /\ x.pc \notin {"idle", "insert", "settle"} => x.id # None
               /\ x.pc = "startFix" => x.name # None
               /\ x.pc = "settle" => x.act # None}

Worktree == [head: BranchNames \cup {None}, dirty: BOOLEAN]

Stores ==
  /\ record \in [Incidents -> Record \cup {None}]
  /\ issued \subseteq Incidents
  /\ tree \in [Repos -> Worktree]
  /\ local \in [Repos -> [BranchNames -> LocalState]]
  /\ remote \in [Repos -> [BranchNames -> RemoteState]]
  /\ alerts \in 0..MaxAlerts
  /\ requests \in 0..MaxRequests
  /\ raced \subseteq Repos

LEMMA TypeSplits ==
  IncidentTypeOK <=> Stores /\ job \in [Jobs -> ShapedJob]
<1>1. IncidentTypeOK => job \in [Jobs -> ShapedJob]
  BY DEF IncidentTypeOK, ShapedJob
<1>2. job \in [Jobs -> ShapedJob] =>
        /\ job \in [Jobs -> Job]
        /\ \A j \in Jobs : /\ job[j].pc \in HasCopy => job[j].rec # None
                           /\ job[j].pc \in AtGit => job[j].at # None
                           /\ job[j].pc \notin {"idle", "insert", "settle"} => job[j].id # None
                           /\ job[j].pc = "startFix" => job[j].name # None
                           /\ job[j].pc = "settle" => job[j].act # None
  BY DEF ShapedJob
<1> QED
  BY <1>1, <1>2 DEF IncidentTypeOK, Stores, Worktree

LEMMA TypeSplitsNext ==
  ASSUME Stores', job' \in [Jobs -> ShapedJob]
  PROVE  IncidentTypeOK'
<1>1. /\ job' \in [Jobs -> Job]
      /\ \A j \in Jobs : /\ job'[j].pc \in HasCopy => job'[j].rec # None
                         /\ job'[j].pc \in AtGit => job'[j].at # None
                         /\ job'[j].pc \notin {"idle", "insert", "settle"} => job'[j].id # None
                         /\ job'[j].pc = "startFix" => job'[j].name # None
                         /\ job'[j].pc = "settle" => job'[j].act # None
  BY DEF ShapedJob
<1> QED
  BY <1>1 DEF IncidentTypeOK, Stores, Worktree

LEMMA IdleIsShaped == Idle \in ShapedJob
<1>1. AnyKey \in Keys
  BY KeyAssumption DEF AnyKey
<1> QED
  BY <1>1 DEF Idle, ShapedJob, Job, Pc, HasCopy, AtGit, NoRecord

LEMMA OneJob ==
  ASSUME job \in [Jobs -> ShapedJob], NEW j \in Jobs, NEW x \in ShapedJob,
         job' = [job EXCEPT ![j] = x]
  PROVE  job' \in [Jobs -> ShapedJob]
  OBVIOUS

LEMMA UpsertType ==
  ASSUME NEW rec \in Record, NEW f \in FixBranches, NEW s \in BranchState
  PROVE  Upsert(rec, f, s) \in Record /\ Upsert(rec, f, s) # None
  BY NoRecordAssumption DEF Upsert, Record

LEMMA MarkPushedType ==
  ASSUME NEW rec \in Record, NEW f \in FixBranches
  PROVE  MarkPushed(rec, f) \in Record /\ MarkPushed(rec, f) # None
  BY NoRecordAssumption DEF MarkPushed, Record, BranchState

LEMMA StatusType ==
  ASSUME NEW rec \in Record, NEW s \in Status
  PROVE  [rec EXCEPT !.status = s] \in Record /\ [rec EXCEPT !.status = s] # None
  BY NoRecordAssumption DEF Record

LEMMA LocalType ==
  ASSUME NEW l \in [Repos -> [BranchNames -> LocalState]],
         NEW r \in Repos, NEW b \in BranchNames, NEW s \in LocalState
  PROVE  [l EXCEPT ![r][b] = s] \in [Repos -> [BranchNames -> LocalState]]
  OBVIOUS

LEMMA RemoteType ==
  ASSUME NEW l \in [Repos -> [BranchNames -> RemoteState]],
         NEW r \in Repos, NEW b \in BranchNames, NEW s \in RemoteState
  PROVE  [l EXCEPT ![r][b] = s] \in [Repos -> [BranchNames -> RemoteState]]
  OBVIOUS

LEMMA TreeType ==
  ASSUME NEW t \in [Repos -> Worktree], NEW r \in Repos,
         NEW b \in BranchNames \cup {None}, NEW d \in BOOLEAN
  PROVE  /\ [t EXCEPT ![r] = [head |-> b, dirty |-> d]] \in [Repos -> Worktree]
         /\ [t EXCEPT ![r].head = b] \in [Repos -> Worktree]
         /\ [t EXCEPT ![r].dirty = d] \in [Repos -> Worktree]
<1>1. t[r] \in Worktree
  OBVIOUS
<1>2. /\ [head |-> b, dirty |-> d] \in Worktree
      /\ [t[r] EXCEPT !.head = b] \in Worktree
      /\ [t[r] EXCEPT !.dirty = d] \in Worktree
  BY <1>1 DEF Worktree
<1> HIDE DEF Worktree
<1> QED
  BY <1>2

LEMMA FixBranchType ==
  ASSUME NEW f \in FixBranches
  PROVE  f[1] \in Services /\ f[2] \in BranchNames /\ RepoOf[f[1]] \in Repos /\ f # None
  BY RepoAssumption, NoRecordAssumption DEF FixBranches

LEMMA TakeUpType ==
  ASSUME NEW x \in ShapedJob, NEW pc \in {"checkout", "commit"}, NEW f \in FixBranches,
         x.rec # None, x.id # None
  PROVE  TakeUp(x, pc, f) \in ShapedJob
<1>1. f # None
  BY FixBranchType
<1> QED
  BY <1>1 DEF TakeUp, ShapedJob, Job, Pc, HasCopy, AtGit

LEMMA LeaveType ==
  ASSUME NEW x \in ShapedJob, NEW pc \in {"createBranch", "commitBranch"},
         NEW rec \in Record, NEW f, x.id # None
  PROVE  Leave(x, pc, rec, f) \in ShapedJob
<1>1. rec # None
  BY NoRecordAssumption
<1>2. x.todo \ {f} \in SUBSET FixBranches
  BY DEF ShapedJob, Job
<1> QED
  BY <1>1, <1>2 DEF Leave, ShapedJob, Job, Pc, HasCopy, AtGit

\* A job that works on the branches has an incident and a copy of its record.
LEMMA CopyType ==
  ASSUME IncidentTypeOK, NEW j \in Jobs,
         job[j].pc \in {"createBranch", "checkout", "commitBranch", "commit", "push"}
  PROVE  /\ job[j] \in ShapedJob
         /\ job[j].id \in Incidents /\ job[j].id # None /\ job[j].rec \in Record
         /\ job[j].todo \subseteq FixBranches
         /\ job[j].pc \in AtGit => job[j].at \in FixBranches
<1>1. job[j] \in ShapedJob
  BY TypeSplits
<1> QED
  BY <1>1, NoneAssumption DEF ShapedJob, Job, HasCopy, AtGit

\* What a job that returns becomes.
LEMMA ReturnType ==
  ASSUME IncidentTypeOK, NEW j \in Jobs, NEW ok \in BOOLEAN, Return(j, ok)
  PROVE  job' \in [Jobs -> ShapedJob]
<1>1. AnyKey \in Keys
  BY KeyAssumption DEF AnyKey
<1>2. job[j].act \in Actions \cup {None}
  BY TypeSplits DEF ShapedJob, Job
<1>3. job[j].act # None => [Idle EXCEPT !.pc = "settle", !.act = job[j].act, !.ok = ok] \in ShapedJob
  BY <1>1, <1>2 DEF Idle, ShapedJob, Job, Pc, HasCopy, AtGit, NoRecord
<1>4. job \in [Jobs -> ShapedJob]
  BY TypeSplits
<1> QED
  BY <1>3, <1>4, IdleIsShaped DEF Return

-----------------------------------------------------------------------------
(* Each operation keeps the types.                                         *)

LEMMA AlertTypes ==
  ASSUME IncidentTypeOK, NEW j \in Jobs, CreateFromAlert(j)
  PROVE  IncidentTypeOK'
<1> USE TypeSplits
<1>1. Stores'
  <2>1. /\ alerts < MaxAlerts /\ alerts' = alerts + 1
        /\ UNCHANGED <<record, issued, requests, gitVars>>
    BY DEF CreateFromAlert
  <2> QED
    BY <2>1, BoundAssumption DEF Stores, gitVars
<1>2. PICK k \in Keys :
        \/ \E i \in FindOpenDedup(k) :
             job' = [job EXCEPT ![j] = [job[j] EXCEPT !.pc = "analyze", !.id = i]]
        \/ job' = [job EXCEPT ![j] = [job[j] EXCEPT !.pc = "insert", !.key = k]]
  BY DEF CreateFromAlert
<1>3. ASSUME NEW i \in FindOpenDedup(k)
      PROVE  [job[j] EXCEPT !.pc = "analyze", !.id = i] \in ShapedJob
  <2>1. i \in Incidents /\ i # None
    BY <1>3, NoneAssumption DEF FindOpenDedup
    <2>5. PICK w \in Job : w = job[j]
      BY DEF ShapedJob
    <2>6. PICK x : x = [w EXCEPT !.pc = "analyze", !.id = i]
      OBVIOUS
    <2>7. x \in Job
      BY <2>1, <2>6 DEF Job, Pc
    <2>8. x.pc = "analyze" /\ x.id = i
      BY <2>6 DEF Job
    <2>9. x \in ShapedJob
      BY <2>1, <2>7, <2>8 DEF ShapedJob, HasCopy, AtGit
    <2> QED
      BY <2>5, <2>6, <2>9
<1>4. [job[j] EXCEPT !.pc = "insert", !.key = k] \in ShapedJob
    <2>5. PICK w \in Job : w = job[j]
      BY DEF ShapedJob
    <2>6. PICK x : x = [w EXCEPT !.pc = "insert", !.key = k]
      OBVIOUS
    <2>7. x \in Job
      BY <2>6 DEF Job, Pc
    <2>8. x.pc = "insert"
      BY <2>6 DEF Job
    <2>9. x \in ShapedJob
      BY <2>7, <2>8 DEF ShapedJob, HasCopy, AtGit
    <2> QED
      BY <2>5, <2>6, <2>9
<1>5. job' \in [Jobs -> ShapedJob]
  BY <1>2, <1>3, <1>4
<1> QED
  BY <1>1, <1>5, TypeSplitsNext

LEMMA InsertTypes ==
  ASSUME IncidentTypeOK, NEW j \in Jobs, InsertIncident(j)
  PROVE  IncidentTypeOK'
<1> USE TypeSplits
<1>1. CASE \E i \in Incidents \ issued :
             /\ issued' = issued \cup {i}
             /\ Save(i, [key |-> job[j].key, status |-> "analyzing",
                         svcs |-> AlertServices[job[j].key], branches |-> NoBranches])
             /\ job' = [job EXCEPT ![j] = [job[j] EXCEPT !.pc = "analyze", !.id = i]]
  <2>1. PICK i \in Incidents :
          /\ issued' = issued \cup {i}
          /\ Save(i, [key |-> job[j].key, status |-> "analyzing",
                      svcs |-> AlertServices[job[j].key], branches |-> NoBranches])
          /\ job' = [job EXCEPT ![j] = [job[j] EXCEPT !.pc = "analyze", !.id = i]]
    BY <1>1
  <2>2. job[j].key \in Keys
    BY DEF ShapedJob, Job
  <2>3. [key |-> job[j].key, status |-> "analyzing",
         svcs |-> AlertServices[job[j].key], branches |-> NoBranches] \in Record
    BY <2>2, AlertAssumption DEF Record, Status, NoBranches, BranchState
  <2>4. [job[j] EXCEPT !.pc = "analyze", !.id = i] \in ShapedJob
      <3>5. PICK w \in Job : w = job[j]
        BY DEF ShapedJob
      <3>6. PICK x : x = [w EXCEPT !.pc = "analyze", !.id = i]
        OBVIOUS
      <3>7. x \in Job
        BY <3>6 DEF Job, Pc
      <3>8. x.pc = "analyze" /\ x.id = i
        BY <3>6 DEF Job
      <3>9. x \in ShapedJob
        BY NoneAssumption, <3>7, <3>8 DEF ShapedJob, HasCopy, AtGit
      <3> QED
        BY <3>5, <3>6, <3>9
  <2>5. record' \in [Incidents -> Record \cup {None}]
    BY <2>1, <2>3 DEF Save, Stores
  <2>6. Stores'
    BY <2>1, <2>5 DEF InsertIncident, Stores, counters, gitVars
  <2> QED
    BY <2>1, <2>4, <2>6, TypeSplitsNext
<1>2. CASE job' = [job EXCEPT ![j] = Idle] /\ UNCHANGED <<record, issued>>
  <2>1. Stores'
    BY <1>2 DEF InsertIncident, Stores, counters, gitVars
  <2> QED
    BY <1>2, <2>1, IdleIsShaped, TypeSplitsNext
<1> QED
  BY <1>1, <1>2 DEF InsertIncident

LEMMA AnalysisTypes ==
  ASSUME IncidentTypeOK, NEW j \in Jobs, AnalyzeGet(j) \/ AnalyzeSave(j)
  PROVE  IncidentTypeOK'
<1> USE TypeSplits
<1>1. CASE AnalyzeGet(j)
  <2>1. Stores'
    BY <1>1 DEF AnalyzeGet, Stores, counters, gitVars
  <2>2. ASSUME record[job[j].id] # NoRecord, job[j].pc = "analyze"
        PROVE  [job[j] EXCEPT !.pc = "analyzed", !.rec = record[job[j].id]] \in ShapedJob
    <3>1. job[j].id \in Incidents
      BY <2>2 DEF ShapedJob, Job
    <3>2. record[job[j].id] \in Record
      BY <2>2, <3>1 DEF Stores, NoRecord
    <3>3. record[job[j].id] # None /\ job[j].id # None
      BY <2>2, <3>1, NoneAssumption DEF NoRecord
      <3>5. PICK w \in Job : w = job[j]
        BY DEF ShapedJob
      <3>6. PICK x : x = [w EXCEPT !.pc = "analyzed", !.rec = record[job[j].id]]
        OBVIOUS
      <3>7. x \in Job
        BY <3>2, <3>6 DEF Job, Pc
      <3>8. x.pc = "analyzed" /\ x.rec = record[job[j].id] /\ x.id = w.id
        BY <3>6 DEF Job
      <3>9. x \in ShapedJob
        BY <3>2, <3>3, <3>5, <3>7, <3>8 DEF ShapedJob, HasCopy, AtGit
      <3> QED
        BY <3>5, <3>6, <3>9
  <2>3. job' \in [Jobs -> ShapedJob]
    BY <1>1, <2>2, IdleIsShaped DEF AnalyzeGet
  <2> QED
    BY <2>1, <2>3, TypeSplitsNext
<1>2. CASE AnalyzeSave(j)
  <2>1. job' \in [Jobs -> ShapedJob]
    BY <1>2, IdleIsShaped DEF AnalyzeSave
  <2>2. job[j].id \in Incidents /\ job[j].rec \in Record
    BY <1>2 DEF AnalyzeSave, ShapedJob, Job, HasCopy
  <2>3. ASSUME NEW found \in {{}, TraceServices[job[j].rec.key]}
        PROVE  Analyzed(job[j].rec, found) \in Record
    BY <2>2, AlertAssumption DEF Analyzed, Record, Status
  <2>4. record' \in [Incidents -> Record \cup {None}]
    BY <1>2, <2>2, <2>3 DEF AnalyzeSave, Save, Stores
  <2>5. Stores'
    BY <1>2, <2>4 DEF AnalyzeSave, Stores, counters, gitVars
  <2> QED
    BY <2>1, <2>5, TypeSplitsNext
<1> QED
  BY <1>1, <1>2

LEMMA FixTypes ==
  ASSUME IncidentTypeOK, NEW j \in Jobs,
         StartFixGet(j) \/ CreateBranch(j) \/ Checkout(j) \/ StartFixSave(j)
  PROVE  IncidentTypeOK'
<1> USE TypeSplits
<1>1. CASE StartFixGet(j)
  <2>1. Stores'
    BY <1>1 DEF StartFixGet, Stores, counters, gitVars
  <2> DEFINE rec == record[job[j].id]
             svcs == IF rec.svcs = {} THEN {Unknown} ELSE rec.svcs
             next == [job[j] EXCEPT !.pc = "createBranch",
                                    !.rec = [rec EXCEPT !.status = "fixing"],
                                    !.todo = svcs \X {job[j].name}]
  <2>2. ASSUME rec # NoRecord, job[j].pc = "startFix"
        PROVE  next \in ShapedJob
    <3>1. job[j].id \in Incidents /\ job[j].name \in BranchNames
      BY <2>2 DEF ShapedJob, Job
    <3>2. rec \in Record
      BY <2>2, <3>1 DEF Stores, NoRecord
    <3>3. [rec EXCEPT !.status = "fixing"] \in Record /\ [rec EXCEPT !.status = "fixing"] # None
      BY <3>2, StatusType DEF Status
    <3>4. svcs \X {job[j].name} \subseteq FixBranches
      BY <3>1, <3>2, UnknownAssumption DEF Record, FixBranches
    <3> DEFINE saved == [rec EXCEPT !.status = "fixing"]
               branches == svcs \X {job[j].name}
    <3> HIDE DEF saved, branches
    <3>0. saved \in Record /\ saved # None /\ branches \subseteq FixBranches /\ job[j].id # None
      BY <3>1, <3>3, <3>4, NoneAssumption DEF saved, branches
      <3>5. PICK w \in Job : w = job[j]
        BY DEF ShapedJob
      <3>6. PICK x : x = [w EXCEPT !.pc = "createBranch", !.rec = saved, !.todo = branches]
        OBVIOUS
      <3>7. x \in Job
        BY <3>0, <3>6 DEF Job, Pc
      <3>8. x.pc = "createBranch" /\ x.rec = saved /\ x.id = w.id
        BY <3>6 DEF Job
      <3>9. x \in ShapedJob
        BY <3>0, <3>5, <3>7, <3>8 DEF ShapedJob, HasCopy, AtGit
      <3> QED
        BY <3>5, <3>6, <3>9 DEF saved, branches
  <2>3. /\ job[j].pc = "startFix"
        /\ \/ rec # NoRecord /\ job' = [job EXCEPT ![j] = next]
           \/ Return(j, FALSE)
    BY <1>1 DEF StartFixGet
  <2>4. job' \in [Jobs -> ShapedJob]
    <3> HIDE DEF rec, next
    <3> QED
      BY <2>2, <2>3, ReturnType
  <2> QED
    BY <2>1, <2>4, TypeSplitsNext
<1>2. CASE CreateBranch(j)
  <2>1. PICK f \in job[j].todo :
          \/ /\ job' = [job EXCEPT ![j] = TakeUp(job[j], "checkout", f)]
             /\ Enter(j, RepoOf[f[1]])
          \/ /\ job' = [job EXCEPT ![j] =
                           Leave(job[j], "createBranch", Upsert(job[j].rec, f, "unpushed"), f)]
             /\ UNCHANGED raced
    BY <1>2 DEF CreateBranch
  <2>2. /\ job[j] \in ShapedJob /\ job[j].id # None /\ job[j].rec # None
        /\ job[j].rec \in Record /\ f \in FixBranches
    BY <1>2, CopyType, NoRecordAssumption DEF CreateBranch
  <2>3. TakeUp(job[j], "checkout", f) \in ShapedJob
    BY <2>2, TakeUpType
  <2>4. Upsert(job[j].rec, f, "unpushed") \in Record
    BY <2>2, UpsertType DEF BranchState
  <2>5. Leave(job[j], "createBranch", Upsert(job[j].rec, f, "unpushed"), f) \in ShapedJob
    BY <2>2, <2>4, LeaveType
  <2>6. job' \in [Jobs -> ShapedJob]
    BY <2>1, <2>3, <2>5
  <2>7. raced' \subseteq Repos
    BY <2>1, <2>2, FixBranchType DEF Enter, Stores
  <2>8. Stores'
    BY <1>2, <2>7 DEF CreateBranch, Stores, counters
  <2> QED
    BY <2>6, <2>8, TypeSplitsNext
<1>3. CASE Checkout(j)
  <2> DEFINE f == job[j].at
             r == RepoOf[f[1]]
             left == Leave(job[j], "createBranch", Upsert(job[j].rec, f, "unpushed"), f)
  <2>1. /\ job[j] \in ShapedJob /\ job[j].id # None
        /\ job[j].rec \in Record /\ f \in FixBranches
    BY <1>3, CopyType DEF Checkout, AtGit
  <2>2. Upsert(job[j].rec, f, "unpushed") \in Record
    BY <2>1, UpsertType DEF BranchState
  <2>3. left \in ShapedJob
    BY <2>1, <2>2, LeaveType
  <2>4. job' = [job EXCEPT ![j] = left]
    BY <1>3 DEF Checkout
  <2>5. /\ \/ /\ tree' = [tree EXCEPT ![r] = [head |-> f[2], dirty |-> TRUE]]
              /\ local' = [local EXCEPT ![r][f[2]] = "base"]
           \/ /\ tree' = [tree EXCEPT ![r].head = f[2]]
              /\ local' = [local EXCEPT ![r][f[2]] = "base"]
           \/ UNCHANGED <<tree, local>>
        /\ UNCHANGED <<record, issued, counters, remote, raced>>
    BY <1>3 DEF Checkout
  <2>6. r \in Repos /\ f[2] \in BranchNames
    BY <2>1, FixBranchType
  <2> HIDE DEF f, r, left
  <2>7. job' \in [Jobs -> ShapedJob]
    BY <2>3, <2>4
  <2>8. /\ [tree EXCEPT ![r] = [head |-> f[2], dirty |-> TRUE]] \in [Repos -> Worktree]
        /\ [tree EXCEPT ![r].head = f[2]] \in [Repos -> Worktree]
    <3>1. tree \in [Repos -> Worktree]
      BY DEF Stores
    <3> HIDE DEF Worktree
    <3> QED
      BY <2>6, <3>1, TreeType
  <2>9. [local EXCEPT ![r][f[2]] = "base"] \in [Repos -> [BranchNames -> LocalState]]
    BY <2>6, LocalType DEF Stores, LocalState
  <2>10. Stores'
    BY <2>5, <2>8, <2>9 DEF Stores, counters
  <2> QED
    BY <2>7, <2>10, TypeSplitsNext
<1>4. CASE StartFixSave(j)
  <2>1. job[j].id \in Incidents /\ job[j].rec \in Record
    BY <1>4 DEF StartFixSave, ShapedJob, Job, HasCopy
  <2>2. Return(j, TRUE) \/ Return(j, FALSE)
    BY <1>4 DEF StartFixSave
  <2>3. record' \in [Incidents -> Record \cup {None}]
    BY <1>4, <2>1 DEF StartFixSave, Save, Stores
  <2>4. Stores'
    BY <1>4, <2>3 DEF StartFixSave, Stores, counters, gitVars
  <2> QED
    BY <2>2, <2>4, ReturnType, TypeSplitsNext
<1> QED
  BY <1>1, <1>2, <1>3, <1>4

LEMMA CommitTypes ==
  ASSUME IncidentTypeOK, NEW j \in Jobs,
         CommitFixGet(j) \/ CommitBranch(j) \/ Commit(j) \/ Push(j) \/ CommitFixSave(j)
  PROVE  IncidentTypeOK'
<1> USE TypeSplits
<1>1. CASE CommitFixGet(j)
  <2>1. Stores'
    BY <1>1 DEF CommitFixGet, Stores, counters, gitVars
  <2> DEFINE rec == record[job[j].id]
             wanted == {f \in FixBranches : /\ rec.branches[f] # "absent"
                                            /\ job[j].name \in {None, f[2]}}
             next == [job[j] EXCEPT !.pc = "commitBranch", !.rec = rec, !.todo = wanted]
  <2>2. ASSUME rec # NoRecord, job[j].pc = "commitFix"
        PROVE  next \in ShapedJob
    <3>1. job[j].id \in Incidents
      BY <2>2 DEF ShapedJob, Job
    <3>2. rec \in Record
      BY <2>2, <3>1 DEF Stores, NoRecord
    <3>3. wanted \subseteq FixBranches
      OBVIOUS
    <3> HIDE DEF wanted
    <3>0. rec # None /\ job[j].id # None
      BY <2>2, <3>1, NoneAssumption DEF NoRecord
      <3>5. PICK w \in Job : w = job[j]
        BY DEF ShapedJob
      <3>6. PICK x : x = [w EXCEPT !.pc = "commitBranch", !.rec = rec, !.todo = wanted]
        OBVIOUS
      <3>7. x \in Job
        BY <3>2, <3>3, <3>6 DEF Job, Pc
      <3>8. x.pc = "commitBranch" /\ x.rec = rec /\ x.id = w.id
        BY <3>6 DEF Job
      <3>9. x \in ShapedJob
        BY <3>2, <3>3, <3>0, <3>5, <3>7, <3>8 DEF ShapedJob, HasCopy, AtGit
      <3> QED
        BY <3>5, <3>6, <3>9
  <2>3. /\ job[j].pc = "commitFix"
        /\ \/ rec # NoRecord /\ job' = [job EXCEPT ![j] = next]
           \/ Return(j, FALSE)
    BY <1>1 DEF CommitFixGet
  <2>4. job' \in [Jobs -> ShapedJob]
    <3> HIDE DEF rec, next
    <3> QED
      BY <2>2, <2>3, ReturnType
  <2> QED
    BY <2>1, <2>4, TypeSplitsNext
<1>2. CASE CommitBranch(j)
  <2>1. PICK f \in job[j].todo :
          \/ /\ tree' = [tree EXCEPT ![RepoOf[f[1]]].head = f[2]]
             /\ job' = [job EXCEPT ![j] = TakeUp(job[j], "commit", f)]
             /\ Enter(j, RepoOf[f[1]])
          \/ /\ job' = [job EXCEPT ![j] = Leave(job[j], "commitBranch", job[j].rec, f)]
             /\ UNCHANGED <<tree, raced>>
    BY <1>2 DEF CommitBranch
  <2>2. /\ job[j] \in ShapedJob /\ job[j].id # None /\ job[j].rec # None
        /\ job[j].rec \in Record /\ f \in FixBranches
    BY <1>2, CopyType, NoRecordAssumption DEF CommitBranch
  <2>3. TakeUp(job[j], "commit", f) \in ShapedJob
    BY <2>2, TakeUpType
  <2>4. Leave(job[j], "commitBranch", job[j].rec, f) \in ShapedJob
    BY <2>2, LeaveType
  <2>5. job' \in [Jobs -> ShapedJob]
    BY <2>1, <2>3, <2>4
  <2>6. raced' \subseteq Repos
    BY <2>1, <2>2, FixBranchType DEF Enter, Stores
  <2>7. RepoOf[f[1]] \in Repos /\ f[2] \in BranchNames \cup {None}
    BY <2>2, FixBranchType
  <2>8. [tree EXCEPT ![RepoOf[f[1]]].head = f[2]] \in [Repos -> Worktree]
    <3>1. tree \in [Repos -> Worktree]
      BY DEF Stores
    <3> HIDE DEF Worktree
    <3> QED
      BY <2>7, <3>1, TreeType
  <2>9. Stores'
    BY <1>2, <2>1, <2>6, <2>8 DEF CommitBranch, Stores, counters
  <2> QED
    BY <2>5, <2>9, TypeSplitsNext
<1>3. CASE Commit(j)
  <2> DEFINE r == RepoOf[job[j].at[1]]
             h == tree[r].head
             left == Leave(job[j], "commitBranch", job[j].rec, job[j].at)
             commits == [job[j] EXCEPT !.pc = "push"]
  <2>1. /\ job[j].pc = "commit" /\ job[j] \in ShapedJob /\ job[j].id # None
        /\ job[j].rec \in Record /\ job[j].at \in FixBranches
    BY <1>3, CopyType DEF Commit, AtGit
  <2>2. commits \in ShapedJob
    BY <2>1 DEF ShapedJob, Job, Pc, HasCopy, AtGit
  <2>3. left \in ShapedJob
    BY <2>1, LeaveType
  <2>4. /\ \/ /\ tree' = [tree EXCEPT ![r].dirty = FALSE]
              /\ local' = IF h = None THEN local ELSE [local EXCEPT ![r][h] = WithCommit(local[r][h])]
              /\ job' = [job EXCEPT ![j] = commits]
           \/ /\ job' = [job EXCEPT ![j] = left]
              /\ UNCHANGED <<tree, local>>
        /\ UNCHANGED <<record, issued, counters, remote, raced>>
    BY <1>3 DEF Commit
  <2>5. r \in Repos
    BY <2>1, FixBranchType
  <2>6. /\ tree \in [Repos -> Worktree]
        /\ local \in [Repos -> [BranchNames -> LocalState]]
    BY DEF Stores
  <2>7. h \in BranchNames \cup {None}
    BY <2>5, <2>6 DEF Worktree
  <2>8. h # None => WithCommit(local[r][h]) \in LocalState
    BY <2>5, <2>6, <2>7 DEF WithCommit, LocalState
  <2> HIDE DEF commits, left, r, h
  <2>9. job' \in [Jobs -> ShapedJob]
    BY <2>2, <2>3, <2>4
  <2>10. [tree EXCEPT ![r].dirty = FALSE] \in [Repos -> Worktree]
    <3>1. None \in BranchNames \cup {None}
      OBVIOUS
    <3> HIDE DEF Worktree
    <3> QED
      BY <2>5, <2>6, <3>1, TreeType
  <2>11. h # None =>
           [local EXCEPT ![r][h] = WithCommit(local[r][h])] \in [Repos -> [BranchNames -> LocalState]]
    BY <2>5, <2>6, <2>7, <2>8, LocalType
  <2>12. Stores'
    BY <2>4, <2>6, <2>10, <2>11 DEF Stores, counters
  <2> QED
    BY <2>9, <2>12, TypeSplitsNext
<1>4. CASE Push(j)
  <2> DEFINE f == job[j].at
             r == RepoOf[f[1]]
             left(rec) == Leave(job[j], "commitBranch", rec, f)
  <2>1. /\ job[j] \in ShapedJob /\ job[j].id # None
        /\ job[j].rec \in Record /\ f \in FixBranches
    BY <1>4, CopyType DEF Push, AtGit
  <2>2. r \in Repos /\ f[2] \in BranchNames
    BY <2>1, FixBranchType
  <2>3. MarkPushed(job[j].rec, f) \in Record
    BY <2>1, MarkPushedType
  <2>4. left(job[j].rec) \in ShapedJob /\ left(MarkPushed(job[j].rec, f)) \in ShapedJob
    BY <2>1, <2>3, LeaveType
  <2>5. /\ \/ /\ remote' = [remote EXCEPT ![r][f[2]] = Pushed(local[r][f[2]])]
              /\ local' = [local EXCEPT ![r][f[2]] =
                             IF local[r][f[2]] = "fix" THEN "kept" ELSE local[r][f[2]]]
           \/ UNCHANGED <<remote, local>>
        /\ UNCHANGED <<record, issued, counters, tree, raced>>
    BY <1>4 DEF Push
  <2>6. \/ job' = [job EXCEPT ![j] = left(job[j].rec)]
        \/ job' = [job EXCEPT ![j] = left(MarkPushed(job[j].rec, f))]
    BY <1>4 DEF Push
  <2> HIDE DEF left
  <2>7. job' \in [Jobs -> ShapedJob]
    BY <2>4, <2>6
  <2> HIDE DEF r, f
  <2>8. Pushed(local[r][f[2]]) \in RemoteState
    BY DEF Pushed, RemoteState
  <2>9. (IF local[r][f[2]] = "fix" THEN "kept" ELSE local[r][f[2]]) \in LocalState
    BY <2>2 DEF Stores, LocalState
  <2>10. /\ remote' \in [Repos -> [BranchNames -> RemoteState]]
         /\ local' \in [Repos -> [BranchNames -> LocalState]]
    <3> DEFINE kept == IF local[r][f[2]] = "fix" THEN "kept" ELSE local[r][f[2]]
    <3>1. /\ remote \in [Repos -> [BranchNames -> RemoteState]]
          /\ local \in [Repos -> [BranchNames -> LocalState]]
      BY DEF Stores
    <3>2. [remote EXCEPT ![r][f[2]] = Pushed(local[r][f[2]])]
            \in [Repos -> [BranchNames -> RemoteState]]
      BY <2>2, <2>8, <3>1, RemoteType
    <3>3. [local EXCEPT ![r][f[2]] = kept] \in [Repos -> [BranchNames -> LocalState]]
      <4> HIDE DEF kept
      <4> QED
        BY <2>2, <2>9, <3>1, LocalType DEF kept
    <3> QED
      BY <2>5, <3>1, <3>2, <3>3
  <2>11. Stores'
    BY <2>5, <2>10 DEF Stores, counters
  <2> QED
    BY <2>7, <2>11, TypeSplitsNext
<1>5. CASE CommitFixSave(j)
  <2>1. job[j].id \in Incidents /\ job[j].rec \in Record
    BY <1>5 DEF CommitFixSave, ShapedJob, Job, HasCopy
  <2>2. Return(j, TRUE) \/ Return(j, FALSE)
    BY <1>5 DEF CommitFixSave
  <2>3. Confirmed(job[j].rec) \in Record
    BY <2>1, StatusType DEF Confirmed, Status
  <2>4. record' \in [Incidents -> Record \cup {None}]
    BY <1>5, <2>1, <2>3 DEF CommitFixSave, Save, Stores
  <2>5. Stores'
    BY <1>5, <2>4 DEF CommitFixSave, Stores, counters, gitVars
  <2> QED
    BY <2>2, <2>5, ReturnType, TypeSplitsNext
<1> QED
  BY <1>1, <1>2, <1>3, <1>4, <1>5

LEMMA JobStepTypes ==
  ASSUME IncidentTypeOK, NEW j \in Jobs, JobStep(j)
  PROVE  IncidentTypeOK'
  BY InsertTypes, AnalysisTypes, FixTypes, CommitTypes DEF JobStep

LEMMA BeginTypes ==
  ASSUME IncidentTypeOK, NEW j \in Jobs, NEW start \in ShapedJob, Begin(j, start),
         UNCHANGED <<record, issued, alerts, gitVars>>
  PROVE  IncidentTypeOK'
<1>1. requests' \in 0..MaxRequests
  BY BoundAssumption DEF Begin, IncidentTypeOK
<1>2. Stores'
  BY <1>1, TypeSplits DEF Stores, gitVars
<1>3. job' \in [Jobs -> ShapedJob]
  BY TypeSplits DEF Begin
<1> QED
  BY <1>2, <1>3, TypeSplitsNext

\* What a request starts its job with.
LEMMA StartType ==
  ASSUME NEW i \in Incidents, NEW act \in Actions \cup {None}
  PROVE  /\ \A b \in BranchNames :
              /\ [Idle EXCEPT !.act = act, !.id = i, !.name = b, !.pc = "startFix"] \in ShapedJob
              /\ [Idle EXCEPT !.pc = "startFix", !.id = i, !.name = b] \in ShapedJob
         /\ \A b \in BranchNames \cup {None} :
              /\ [Idle EXCEPT !.act = act, !.id = i, !.name = b, !.pc = "commitFix"] \in ShapedJob
              /\ [Idle EXCEPT !.pc = "commitFix", !.id = i, !.name = b] \in ShapedJob
<1>1. AnyKey \in Keys
  BY KeyAssumption DEF AnyKey
<1>2. i # None /\ None \notin BranchNames
  BY NoneAssumption
<1> USE <1>1, <1>2 DEF Idle, ShapedJob, Job, Pc, HasCopy, AtGit, NoRecord
<1>3. ASSUME NEW b \in BranchNames
      PROVE  /\ [Idle EXCEPT !.act = act, !.id = i, !.name = b, !.pc = "startFix"] \in ShapedJob
             /\ [Idle EXCEPT !.pc = "startFix", !.id = i, !.name = b] \in ShapedJob
  BY <1>3
<1>4. ASSUME NEW b \in BranchNames \cup {None}
      PROVE  /\ [Idle EXCEPT !.act = act, !.id = i, !.name = b, !.pc = "commitFix"] \in ShapedJob
             /\ [Idle EXCEPT !.pc = "commitFix", !.id = i, !.name = b] \in ShapedJob
  BY <1>4
<1> QED
  BY <1>3, <1>4

LEMMA RequestTypes ==
  ASSUME IncidentTypeOK, NEW j \in Jobs, Request(j)
  PROVE  IncidentTypeOK'
<1>1. ASSUME NEW i \in Incidents, NEW b \in BranchNames, StartFix(j, i, b)
      PROVE  IncidentTypeOK'
  <2>1. None \in Actions \cup {None}
    OBVIOUS
  <2>2. [Idle EXCEPT !.pc = "startFix", !.id = i, !.name = b] \in ShapedJob
    BY <2>1, StartType
  <2> QED
    BY <1>1, <2>2, BeginTypes DEF StartFix
<1>2. ASSUME NEW i \in Incidents, NEW b \in BranchNames \cup {None}, CommitFix(j, i, b)
      PROVE  IncidentTypeOK'
  <2>1. None \in Actions \cup {None}
    OBVIOUS
  <2>2. [Idle EXCEPT !.pc = "commitFix", !.id = i, !.name = b] \in ShapedJob
    BY <2>1, StartType
  <2> QED
    BY <1>2, <2>2, BeginTypes DEF CommitFix
<1>3. issued \subseteq Incidents
  BY DEF IncidentTypeOK
<1> QED
  BY <1>1, <1>2, <1>3, AlertTypes DEF Request

\* The operations that touch no job: Delete and Edit, and a crash.
LEMMA OtherTypes ==
  ASSUME IncidentTypeOK
  PROVE  /\ \A i \in Incidents : Delete(i) => IncidentTypeOK'
         /\ \A r \in Repos : Edit(r) => IncidentTypeOK'
         /\ Crash => IncidentTypeOK'
<1> USE TypeSplits
<1>1. ASSUME NEW i \in Incidents, Delete(i) PROVE IncidentTypeOK'
  <2>1. Stores'
    BY <1>1 DEF Delete, Stores, counters, gitVars, NoRecord
  <2>2. job' = job
    BY <1>1 DEF Delete
  <2> QED
    BY <2>1, <2>2, TypeSplitsNext
<1>2. ASSUME NEW r \in Repos, Edit(r) PROVE IncidentTypeOK'
  <2>1. [tree EXCEPT ![r].dirty = TRUE] \in [Repos -> Worktree]
    <3>1. tree \in [Repos -> Worktree] /\ None \in BranchNames \cup {None}
      BY DEF Stores
    <3> HIDE DEF Worktree
    <3> QED
      BY <3>1, TreeType
  <2>2. Stores'
    BY <1>2, <2>1 DEF Edit, Stores, counters
  <2>3. job' = job
    BY <1>2 DEF Edit
  <2> QED
    BY <2>2, <2>3, TypeSplitsNext
<1>3. ASSUME Crash PROVE IncidentTypeOK'
  <2>1. Stores'
    BY <1>3 DEF Crash, Stores, counters, gitVars
  <2>2. job' \in [Jobs -> ShapedJob]
    BY <1>3, IdleIsShaped DEF Crash
  <2> QED
    BY <2>1, <2>2, TypeSplitsNext
<1> QED
  BY <1>1, <1>2, <1>3

-----------------------------------------------------------------------------
(* The approval service.                                                   *)

\* TypeOK bounds the executions of an action, which are as many as requests
\* at most; a verdict is only typed when the job that writes it holds an
\* action that was proposed, and it was counted when it started.
TypeInv ==
  /\ TypeOK
  /\ \A a \in Actions : executed[a] <= requests
  /\ \A j \in Jobs : job[j].act # None =>
       action[job[j].act] # None /\ executed[job[j].act] > 0

\* No operation but Approve gives a job an action.
LEMMA ActKept ==
  ASSUME IncidentTypeOK, NEW j \in Jobs, JobStep(j) \/ Request(j), NEW k \in Jobs
  PROVE  job'[k].act \in {job[k].act, None}
<1>1. job[j] \in ShapedJob /\ job[k] \in ShapedJob /\ Idle \in ShapedJob
  BY TypeSplits, IdleIsShaped
<1>2. ASSUME NEW x, job' = [job EXCEPT ![j] = x], x.act \in {job[j].act, None}
      PROVE  job'[k].act \in {job[k].act, None}
  BY <1>2 DEF IncidentTypeOK
<1>3. Idle.act = None
  BY DEF Idle
<1>4. ASSUME NEW ok, Return(j, ok) PROVE job'[k].act \in {job[k].act, None}
  <2> DEFINE x == IF job[j].act = None THEN Idle
                  ELSE [Idle EXCEPT !.pc = "settle", !.act = job[j].act, !.ok = ok]
  <2>1. job' = [job EXCEPT ![j] = x]
    BY <1>4 DEF Return
  <2>2. x.act \in {job[j].act, None}
    BY DEF Idle
  <2> HIDE DEF x
  <2> QED
    BY <1>2, <2>1, <2>2
<1>5. \A pc, f : TakeUp(job[j], pc, f).act = job[j].act
  BY <1>1 DEF TakeUp, ShapedJob, Job
<1>6. \A pc, rec, f : Leave(job[j], pc, rec, f).act = job[j].act
  BY <1>1 DEF Leave, ShapedJob, Job
<1>8. CASE Request(j)
  <2>1. CASE CreateFromAlert(j)
    <3> DEFINE found(i) == [job[j] EXCEPT !.pc = "analyze", !.id = i]
               inserts(key) == [job[j] EXCEPT !.pc = "insert", !.key = key]
    <3>1. PICK key, i :
            \/ job' = [job EXCEPT ![j] = found(i)]
            \/ job' = [job EXCEPT ![j] = inserts(key)]
      BY <2>1 DEF CreateFromAlert
    <3>2. found(i).act = job[j].act /\ inserts(key).act = job[j].act
      BY <1>1 DEF ShapedJob, Job
    <3> HIDE DEF found, inserts
    <3> QED
      BY <1>2, <3>1, <3>2
  <2>2. ASSUME NEW i, NEW b, StartFix(j, i, b) \/ CommitFix(j, i, b)
        PROVE  job'[k].act \in {job[k].act, None}
    BY <1>2, <2>2 DEF StartFix, CommitFix, Begin, Idle
  <2> QED
    BY <1>8, <2>1, <2>2 DEF Request
<1>9. CASE InsertIncident(j) \/ AnalyzeGet(j) \/ AnalyzeSave(j)
  <2> DEFINE starts(i) == [job[j] EXCEPT !.pc = "analyze", !.id = i]
             copies(rec) == [job[j] EXCEPT !.pc = "analyzed", !.rec = rec]
  <2>1. PICK i, rec :
          \/ job' = [job EXCEPT ![j] = starts(i)]
          \/ job' = [job EXCEPT ![j] = copies(rec)]
          \/ job' = [job EXCEPT ![j] = Idle]
    BY <1>9 DEF InsertIncident, AnalyzeGet, AnalyzeSave
  <2>2. starts(i).act = job[j].act /\ copies(rec).act = job[j].act
    BY <1>1 DEF ShapedJob, Job
  <2> HIDE DEF starts, copies
  <2> QED
    BY <1>2, <1>3, <2>1, <2>2
<1>10. CASE StartFixGet(j)
  <2> DEFINE rec == record[job[j].id]
             svcs == IF rec.svcs = {} THEN {Unknown} ELSE rec.svcs
             next == [job[j] EXCEPT !.pc = "createBranch",
                                    !.rec = [rec EXCEPT !.status = "fixing"],
                                    !.todo = svcs \X {job[j].name}]
  <2>1. job' = [job EXCEPT ![j] = next] \/ Return(j, FALSE)
    BY <1>10 DEF StartFixGet
  <2>2. next.act = job[j].act
    BY <1>1 DEF ShapedJob, Job
  <2> HIDE DEF next
  <2> QED
    BY <1>2, <1>4, <2>1, <2>2
<1>11. CASE CommitFixGet(j)
  <2> DEFINE rec == record[job[j].id]
             wanted == {f \in FixBranches : /\ rec.branches[f] # "absent"
                                            /\ job[j].name \in {None, f[2]}}
             next == [job[j] EXCEPT !.pc = "commitBranch", !.rec = rec, !.todo = wanted]
  <2>1. job' = [job EXCEPT ![j] = next] \/ Return(j, FALSE)
    BY <1>11 DEF CommitFixGet
  <2>2. next.act = job[j].act
    BY <1>1 DEF ShapedJob, Job
  <2> HIDE DEF next
  <2> QED
    BY <1>2, <1>4, <2>1, <2>2
<1>12. CASE StartFixSave(j) \/ CommitFixSave(j)
  BY <1>4, <1>12 DEF StartFixSave, CommitFixSave
<1>13. CASE CreateBranch(j) \/ CommitBranch(j)
  <2>1. PICK pc, rec, f :
          \/ job' = [job EXCEPT ![j] = TakeUp(job[j], pc, f)]
          \/ job' = [job EXCEPT ![j] = Leave(job[j], pc, rec, f)]
    BY <1>13 DEF CreateBranch, CommitBranch
  <2> QED
    BY <1>2, <1>5, <1>6, <2>1
<1>14. CASE Checkout(j)
  <2>1. PICK rec, f : job' = [job EXCEPT ![j] = Leave(job[j], "createBranch", rec, f)]
    BY <1>14 DEF Checkout
  <2> QED
    BY <1>2, <1>6, <2>1
<1>15. CASE Commit(j)
  <2> DEFINE commits == [job[j] EXCEPT !.pc = "push"]
  <2>1. commits.act = job[j].act
    BY <1>1 DEF ShapedJob, Job
  <2>2. \/ job' = [job EXCEPT ![j] = commits]
        \/ job' = [job EXCEPT ![j] = Leave(job[j], "commitBranch", job[j].rec, job[j].at)]
    BY <1>15 DEF Commit
  <2> HIDE DEF commits
  <2> QED
    BY <1>2, <1>6, <2>1, <2>2
<1>16. CASE Push(j)
  <2>1. PICK rec : job' = [job EXCEPT ![j] = Leave(job[j], "commitBranch", rec, job[j].at)]
    BY <1>16 DEF Push
  <2> QED
    BY <1>2, <1>6, <2>1
<1> QED
  BY <1>8, <1>9, <1>10, <1>11, <1>12, <1>13, <1>14, <1>15, <1>16 DEF JobStep

\* The part of TypeOK that is about pending_actions and its histories.
ActionTypes ==
  /\ action \in [Actions -> Action \cup {None}]
  /\ executed \in [Actions -> 0..MaxRequests]
  /\ outcomes \in [Actions -> SUBSET BOOLEAN]
  /\ lost \subseteq Actions

LEMMA ActionType ==
  ASSUME TypeOK, NEW a \in Actions, action[a] # None
  PROVE  /\ action[a] \in Action
         /\ action[a].id \in Incidents /\ action[a].name \in BranchNames \cup {None}
         /\ action[a].tool = "propose_branch" => action[a].name \in BranchNames
         /\ action[a].status \in Verdict
  BY DEF TypeOK, Action

\* Approve, Settle, Propose and Reject replace the row by one like it.
LEMMA VerdictType ==
  ASSUME TypeOK, NEW a \in Actions, NEW v \in Verdict, action[a] # None
  PROVE  [action EXCEPT ![a].status = v] \in [Actions -> Action \cup {None}]
<1>1. [action[a] EXCEPT !.status = v] \in Action
  BY DEF TypeOK, Action
<1> HIDE DEF Action
<1> QED
  BY <1>1 DEF TypeOK

LEMMA InitTypes == Init => TypeInv
<1> SUFFICES ASSUME Init PROVE TypeInv
  OBVIOUS
<1>1. Stores
  BY BoundAssumption, NoRecordAssumption
  DEF Init, IncidentInit, Stores, Worktree, LocalState, RemoteState, NoRecord
<1>2. job \in [Jobs -> ShapedJob]
  BY IdleIsShaped DEF Init, IncidentInit
<1>3. ActionTypes
  BY BoundAssumption DEF Init, ActionTypes
<1>4. \A a \in Actions : executed[a] <= requests
  BY DEF Init, IncidentInit
<1>5. \A j \in Jobs : job[j].act = None
  BY DEF Init, IncidentInit, Idle
<1> QED
  BY <1>1, <1>2, <1>3, <1>4, <1>5, TypeSplits DEF TypeInv, TypeOK, ActionTypes

LEMMA NextTypes == TypeInv /\ [Next]_vars => TypeInv'
<1> SUFFICES ASSUME TypeInv, [Next]_vars PROVE TypeInv'
  OBVIOUS
<1>0. IncidentTypeOK /\ ActionTypes /\ requests \in Nat /\ job \in [Jobs -> ShapedJob]
  BY BoundAssumption, TypeSplits DEF TypeInv, TypeOK, IncidentTypeOK, ActionTypes
<1>a. ASSUME IncidentTypeOK', ActionTypes' ,
             \A a \in Actions : executed'[a] <= requests',
             \A k \in Jobs : job'[k].act # None =>
               action'[job'[k].act] # None /\ executed'[job'[k].act] > 0
      PROVE  TypeInv'
  BY <1>a DEF TypeInv, TypeOK, ActionTypes
<1>b. /\ \A a \in Actions : executed[a] <= requests
      /\ \A k \in Jobs : job[k].act # None =>
           action[job[k].act] # None /\ executed[job[k].act] > 0
      /\ \A k \in Jobs : job[k].act \in Actions \cup {None}
  BY <1>0 DEF TypeInv, ShapedJob, Job
<1>c. Idle.act = None
  BY DEF Idle
<1>1. ASSUME NEW j \in Jobs, Request(j), UNCHANGED approvalVars PROVE TypeInv'
  <2>1. requests' \in {requests, requests + 1}
    BY <1>1 DEF Request, CreateFromAlert, StartFix, CommitFix, Begin
  <2>2. \A k \in Jobs : job'[k].act \in {job[k].act, None}
    BY <1>0, <1>1, ActKept
  <2>3. ActionTypes' /\ action' = action /\ executed' = executed
    BY <1>0, <1>1 DEF ActionTypes, approvalVars
  <2>4. \A a \in Actions : executed'[a] <= requests'
    BY <1>0, <1>b, <2>1, <2>3 DEF ActionTypes
  <2>5. IncidentTypeOK'
    BY <1>0, <1>1, RequestTypes
  <2> QED
    BY <1>a, <1>b, <2>2, <2>3, <2>4, <2>5
<1>2. ASSUME NEW j \in Jobs, Work(j) PROVE TypeInv'
  <2>1. requests' = requests
    BY <1>2 DEF Work, JobStep, InsertIncident, AnalyzeGet, AnalyzeSave, StartFixGet,
         CreateBranch, Checkout, StartFixSave, CommitFixGet, CommitBranch, Commit, Push,
         CommitFixSave, counters
  <2>2. \A k \in Jobs : job'[k].act \in {job[k].act, None}
    BY <1>0, <1>2, ActKept DEF Work
  <2>3. ActionTypes' /\ action' = action /\ executed' = executed
    BY <1>0, <1>2 DEF Work, ActionTypes, approvalVars
  <2>4. IncidentTypeOK'
    BY <1>0, <1>2, JobStepTypes DEF Work
  <2> QED
    BY <1>a, <1>b, <2>1, <2>2, <2>3, <2>4
<1>3. ASSUME NEW j \in Jobs, Settle(j) PROVE TypeInv'
  <2> DEFINE a == job[j].act
  <2>1. /\ job' = [job EXCEPT ![j] = Idle]
        /\ UNCHANGED <<record, issued, counters, gitVars, executed>>
    BY <1>3 DEF Settle
  <2>2. IncidentTypeOK'
    <3>1. Stores'
      BY <1>0, <2>1, TypeSplits DEF Stores, counters, gitVars
    <3> QED
      BY <1>0, <2>1, <3>1, TypeSplits, TypeSplitsNext, IdleIsShaped
  <2>3. a \in Actions /\ job[j].ok \in BOOLEAN /\ action[a] # None
    BY <1>0, <1>3, <1>b DEF Settle, ShapedJob, Job
  <2>4. Verdicts(job[j].ok) \in Verdict
    BY DEF Verdicts, Verdict
  <2>5. [action EXCEPT ![a].status = Verdicts(job[j].ok)] \in [Actions -> Action \cup {None}]
    BY <2>3, <2>4, VerdictType DEF TypeInv
  <2>6. \/ action' = [action EXCEPT ![a].status = Verdicts(job[j].ok)] /\ lost' = lost
        \/ action' = action /\ lost' = lost \cup {a}
    BY <1>3 DEF Settle
  <2>7. outcomes' = [outcomes EXCEPT ![a] = outcomes[a] \cup {job[j].ok}]
    BY <1>3 DEF Settle
  <2> HIDE DEF a
  <2>8. ActionTypes'
    BY <1>0, <2>1, <2>3, <2>5, <2>6, <2>7 DEF ActionTypes
  <2>9. \A c \in Actions : action[c] # None => action'[c] # None
    <3>1. action'[a] # None
      <4>1. action' \in [Actions -> Action \cup {None}] /\ [action[a] EXCEPT !.status = Verdicts(job[j].ok)] \in Action
        BY <1>0, <2>3, <2>4, <2>8, ActionType DEF ActionTypes, Action, TypeInv
      <4> HIDE DEF Action
      <4> QED
        BY <1>0, <2>3, <2>6, <4>1, NoActionAssumption DEF ActionTypes
    <3> QED
      BY <1>0, <2>3, <2>6, <3>1 DEF ActionTypes
  <2>10. \A k \in Jobs : job'[k].act \in {job[k].act, None}
    BY <1>0, <1>c, <2>1
  <2>11. requests' = requests
    BY <2>1 DEF counters
  <2> QED
    BY <1>a, <1>b, <2>1, <2>2, <2>8, <2>9, <2>10, <2>11
<1>4. ASSUME NEW j \in Jobs, NEW a \in Actions, Approve(j, a) PROVE TypeInv'
  <2> DEFINE start == [Idle EXCEPT !.act = a, !.id = action[a].id, !.name = action[a].name,
                           !.pc = IF action[a].tool = "propose_branch"
                                  THEN "startFix" ELSE "commitFix"]
  <2>1. /\ action[a] # None
        /\ Begin(j, start)
        /\ executed' = [executed EXCEPT ![a] = executed[a] + 1]
        /\ UNCHANGED <<record, issued, alerts, gitVars, action, outcomes, lost>>
    BY <1>4 DEF Approve, ReadyToRun
  <2>2. start \in ShapedJob /\ start.act = a
    <3>1. /\ action[a].id \in Incidents /\ action[a].name \in BranchNames \cup {None}
          /\ action[a].tool = "propose_branch" => action[a].name \in BranchNames
      BY <2>1, ActionType DEF TypeInv
    <3>2. CASE action[a].tool = "propose_branch"
      BY <3>1, <3>2, StartType DEF Idle
    <3>3. CASE action[a].tool # "propose_branch"
      BY <3>1, <3>3, StartType DEF Idle
    <3> QED
      BY <3>2, <3>3
  <2> HIDE DEF start
  <2>3. IncidentTypeOK'
    BY <1>0, <2>1, <2>2, BeginTypes
  <2>4. requests < MaxRequests /\ requests' = requests + 1 /\ job' = [job EXCEPT ![j] = start]
    BY <2>1 DEF Begin
  <2>5. executed[a] + 1 \in 0..MaxRequests
    BY <1>0, <1>b, <2>4, BoundAssumption DEF ActionTypes
  <2>6. ActionTypes'
    BY <1>0, <2>1, <2>5 DEF ActionTypes
  <2>7. \A c \in Actions : executed'[c] <= requests'
    BY <1>0, <1>b, <2>1, <2>4 DEF ActionTypes
  <2>8. \A k \in Jobs : job'[k].act = IF k = j THEN a ELSE job[k].act
    BY <1>0, <2>2, <2>4
  <2>9. \A c \in Actions : executed'[c] = IF c = a THEN executed[c] + 1 ELSE executed[c]
    BY <1>0, <2>1 DEF ActionTypes
  <2>10. \A c \in Actions : executed[c] \in Nat
    BY <1>0 DEF ActionTypes
  <2>11. ASSUME NEW k \in Jobs, job'[k].act # None
         PROVE  action'[job'[k].act] # None /\ executed'[job'[k].act] > 0
    <3>1. CASE k = j
      BY <2>1, <2>8, <2>9, <2>10, <3>1
    <3>2. CASE k # j
      <4>1. job'[k].act = job[k].act /\ job[k].act \in Actions
        BY <1>b, <2>8, <2>11, <3>2
      <4> QED
        BY <1>b, <2>1, <2>9, <2>10, <2>11, <4>1
    <3> QED
      BY <3>1, <3>2
  <2> QED
    BY <1>a, <2>3, <2>6, <2>7, <2>11
<1>5. ASSUME NEW a \in Actions, Propose(a) PROVE TypeInv'
  <2>1. PICK x \in Action : action' = [action EXCEPT ![a] = x]
    <3>1. PICK i \in issued, t \in Tool, b \in BranchNames \cup {None} :
            /\ t = "propose_branch" => b # None
            /\ action' = [action EXCEPT ![a] = [tool |-> t, id |-> i, name |-> b,
                                                status |-> "pending"]]
      BY <1>5 DEF Propose
    <3>2. [tool |-> t, id |-> i, name |-> b, status |-> "pending"] \in Action
      BY <1>0, <3>1 DEF Action, Verdict, IncidentTypeOK
    <3> QED
      BY <3>1, <3>2
  <2>2. UNCHANGED <<incidentVars, executed, outcomes, lost>>
    BY <1>5 DEF Propose
  <2>3. IncidentTypeOK' /\ job' = job /\ requests' = requests
    BY <1>0, <2>2 DEF IncidentTypeOK, incidentVars
  <2> HIDE DEF Action
  <2>4. ActionTypes'
    BY <1>0, <2>1, <2>2 DEF ActionTypes
  <2>5. \A c \in Actions : action[c] # None => action'[c] # None
    BY <1>0, <2>1, NoActionAssumption DEF ActionTypes
  <2> QED
    BY <1>a, <1>b, <2>2, <2>3, <2>4, <2>5
<1>6. ASSUME NEW a \in Actions, Reject(a) PROVE TypeInv'
  <2>1. /\ action[a] # None
        /\ action' = [action EXCEPT ![a].status = "rejected"]
        /\ UNCHANGED <<incidentVars, executed, outcomes, lost>>
    BY <1>6 DEF Reject
  <2>2. IncidentTypeOK' /\ job' = job /\ requests' = requests
    BY <1>0, <2>1 DEF IncidentTypeOK, incidentVars
  <2>3. action' \in [Actions -> Action \cup {None}]
    BY <2>1, VerdictType DEF TypeInv, Verdict
  <2>4. ActionTypes'
    BY <1>0, <2>1, <2>3 DEF ActionTypes
  <2>5. [action[a] EXCEPT !.status = "rejected"] \in Action
    BY <2>1, ActionType DEF Action, Verdict, TypeInv
  <2> HIDE DEF Action
  <2>6. \A c \in Actions : action[c] # None => action'[c] # None
    BY <1>0, <2>1, <2>5, NoActionAssumption DEF ActionTypes
  <2> QED
    BY <1>a, <1>b, <2>1, <2>2, <2>4, <2>6
<1>7. ASSUME (\E i \in Incidents : Delete(i)) \/ (\E r \in Repos : Edit(r)),
             UNCHANGED approvalVars
      PROVE  TypeInv'
  <2>1. IncidentTypeOK'
    BY <1>0, <1>7, OtherTypes
  <2>2. job' = job /\ requests' = requests
    BY <1>7 DEF Delete, Edit, counters
  <2>3. ActionTypes' /\ action' = action /\ executed' = executed
    BY <1>0, <1>7 DEF ActionTypes, approvalVars
  <2> QED
    BY <1>a, <1>b, <2>1, <2>2, <2>3
<1>8. ASSUME Crash PROVE TypeInv'
  <2>1. IncidentTypeOK'
    BY <1>0, <1>8, OtherTypes
  <2>2. /\ job' = [j \in Jobs |-> Idle] /\ requests' = requests
        /\ lost' = lost \cup {a \in Actions : Executing(a) # {}}
        /\ UNCHANGED <<action, executed, outcomes>>
    BY <1>8 DEF Crash, counters
  <2>3. ActionTypes'
    BY <1>0, <2>2 DEF ActionTypes
  <2> QED
    BY <1>a, <1>b, <1>c, <2>1, <2>2, <2>3
<1>9. CASE UNCHANGED vars
  BY <1>9 DEF vars, incidentVars, approvalVars, TypeInv, TypeOK, IncidentTypeOK
<1> QED
  BY <1>1, <1>2, <1>3, <1>4, <1>5, <1>6, <1>7, <1>8, <1>9 DEF Next

\* Every variable keeps its type, the verdicts and the executions counted
\* included: what runs of Incidents and Approval may write, whoever runs.
THEOREM TypeCorrect == Spec => []TypeOK
<1>1. TypeInv => TypeOK
  BY DEF TypeInv
<1> QED
  BY <1>1, InitTypes, NextTypes, PTL DEF Spec

-----------------------------------------------------------------------------
(* The approval service implements the gate.                               *)

\* The operations that are neither a proposal, nor a decision, nor an
\* execution leave the rows and the count alone.
LEMMA OtherStep ==
  ASSUME Next
  PROVE  \/ UNCHANGED <<action, executed, outcomes>> /\ lost \subseteq lost'
         \/ \E j \in Jobs : Settle(j)
         \/ \E j \in Jobs, a \in Actions : Approve(j, a)
         \/ \E a \in Actions : Propose(a) \/ Reject(a)
<1>1. CASE Crash
  BY <1>1 DEF Crash
<1>2. CASE UNCHANGED approvalVars
  BY <1>2 DEF approvalVars
<1> QED
  BY <1>1, <1>2 DEF Next, Work

\* What a row becomes when its status is written.
LEMMA WrittenRow ==
  ASSUME TypeInv, NEW a \in Actions, NEW v \in Verdict, action[a] # None,
         action' = [action EXCEPT ![a].status = v]
  PROVE  /\ action'[a] # None /\ action'[a].status = v
         /\ \A c \in Actions \ {a} : action'[c] = action[c]
<1>1. action[a] \in Action /\ action \in [Actions -> Action \cup {None}]
  BY ActionType DEF TypeInv, TypeOK
<1>2. action'[a] = [action[a] EXCEPT !.status = v]
  BY <1>1
<1>3. [action[a] EXCEPT !.status = v] \in Action /\ [action[a] EXCEPT !.status = v].status = v
  BY <1>1 DEF Action
<1>4. \A c \in Actions \ {a} : action'[c] = action[c]
  BY <1>1
<1> QED
  BY <1>2, <1>3, <1>4, NoActionAssumption

LEMMA HeldAction ==
  ASSUME TypeInv, NEW j \in Jobs, Settle(j)
  PROVE  /\ job[j].act \in Actions /\ action[job[j].act] # None
         /\ executed[job[j].act] > 0 /\ job[j].ok \in BOOLEAN
<1>1. job[j] \in ShapedJob
  BY TypeSplits DEF TypeInv, TypeOK
<1> QED
  BY <1>1 DEF Settle, TypeInv, ShapedJob, Job

LEMMA InitGate == Init => Gate!GateInit
  BY DEF Init, Gate!GateInit

LEMMA NextGate ==
  ASSUME TypeInv, [Next]_vars
  PROVE  [Gate!GateNext]_(Gate!gateVars)
<1> DEFINE V == [a \in Actions |-> IF action[a] = None THEN "none" ELSE action[a].status]
<1>0. action \in [Actions -> Action \cup {None}] /\ executed \in [Actions -> 0..MaxRequests]
  BY DEF TypeInv, TypeOK
<1>1. ASSUME UNCHANGED <<action, executed>> PROVE UNCHANGED Gate!gateVars
  BY <1>1 DEF Gate!gateVars
<1>2. ASSUME NEW a \in Actions, NEW v, action'[a] # None, action'[a].status = v,
             \A c \in Actions \ {a} : action'[c] = action[c]
      PROVE  V' = [V EXCEPT ![a] = v]
  BY <1>2
<1>3. ASSUME NEW a \in Actions, action[a] # None PROVE V[a] # "none"
  BY <1>3, ActionType DEF TypeInv, Verdict
<1>4. ASSUME NEW j \in Jobs, Settle(j) PROVE [Gate!GateNext]_(Gate!gateVars)
  <2> DEFINE a == job[j].act
  <2>1. a \in Actions /\ action[a] # None /\ executed[a] > 0 /\ job[j].ok \in BOOLEAN
    BY <1>4, HeldAction
  <2>2. \/ action' = [action EXCEPT ![a].status = Verdicts(job[j].ok)]
        \/ action' = action
    BY <1>4 DEF Settle
  <2>3. executed' = executed
    BY <1>4 DEF Settle
  <2>4. Verdicts(job[j].ok) \in {"done", "failed"}
    BY DEF Verdicts
  <2> HIDE DEF a
  <2>5. CASE action' = [action EXCEPT ![a].status = Verdicts(job[j].ok)]
    <3>1. Verdicts(job[j].ok) \in Verdict
      BY <2>4 DEF Verdict
    <3>2. /\ action'[a] # None /\ action'[a].status = Verdicts(job[j].ok)
          /\ \A c \in Actions \ {a} : action'[c] = action[c]
      BY <2>1, <2>5, <3>1, WrittenRow
    <3>3. V' = [V EXCEPT ![a] = Verdicts(job[j].ok)]
      BY <1>2, <2>1, <3>2
    <3>4. V[a] # "none"
      BY <1>3, <2>1
    <3> QED
      BY <2>1, <2>3, <2>4, <3>3, <3>4 DEF Gate!GateNext, Gate!Decide
  <2> QED
    BY <1>1, <2>2, <2>3, <2>5
<1>5. ASSUME NEW j \in Jobs, NEW a \in Actions, Approve(j, a) PROVE Gate!GateNext
  <2>1. /\ action[a] # None /\ action[a].status = "pending"
        /\ executed' = [executed EXCEPT ![a] = executed[a] + 1] /\ action' = action
    BY <1>5 DEF Approve, ReadyToRun
  <2>2. V[a] = "pending" /\ V' = V
    BY <2>1
  <2> QED
    BY <2>1, <2>2 DEF Gate!GateNext, Gate!Execute
<1>6. ASSUME NEW a \in Actions, Propose(a) PROVE Gate!GateNext
  <2>1. PICK x \in Action : action' = [action EXCEPT ![a] = x] /\ x.status = "pending"
    <3>1. PICK i \in issued, t \in Tool, b \in BranchNames \cup {None} :
            /\ t = "propose_branch" => b # None
            /\ action' = [action EXCEPT ![a] = [tool |-> t, id |-> i, name |-> b,
                                                status |-> "pending"]]
      BY <1>6 DEF Propose
    <3>2. [tool |-> t, id |-> i, name |-> b, status |-> "pending"] \in Action
      BY <3>1 DEF Action, Verdict, TypeInv, TypeOK, IncidentTypeOK
    <3> QED
      BY <3>1, <3>2
  <2>2. action[a] = None /\ executed' = executed
    BY <1>6 DEF Propose
  <2>3. x # None
    BY NoActionAssumption
  <2>4. /\ action'[a] = x
        /\ \A c \in Actions \ {a} : action'[c] = action[c]
    BY <1>0, <2>1
  <2>5. V' = [V EXCEPT ![a] = "pending"]
    BY <1>2, <2>1, <2>3, <2>4
  <2>6. V[a] = "none"
    BY <2>2
  <2> QED
    BY <2>2, <2>5, <2>6 DEF Gate!GateNext, Gate!Propose
<1>7. ASSUME NEW a \in Actions, Reject(a) PROVE Gate!GateNext
  <2>1. /\ action[a] # None /\ executed' = executed
        /\ action' = [action EXCEPT ![a].status = "rejected"]
    BY <1>7 DEF Reject
  <2>2. /\ action'[a] # None /\ action'[a].status = "rejected"
        /\ \A c \in Actions \ {a} : action'[c] = action[c]
    BY <2>1, WrittenRow DEF Verdict
  <2>3. V' = [V EXCEPT ![a] = "rejected"] /\ V[a] # "none"
    BY <1>2, <1>3, <2>1, <2>2
  <2> QED
    BY <2>1, <2>3 DEF Gate!GateNext, Gate!Decide
<1>8. CASE Next
  BY <1>1, <1>4, <1>5, <1>6, <1>7, <1>8, OtherStep
<1>9. CASE UNCHANGED vars
  BY <1>1, <1>9 DEF vars, approvalVars
<1> QED
  BY <1>8, <1>9

\* Approve, Reject and Propose, with the execution between the check of the
\* status and the write of the verdict, implement the gate: an action that has
\* a verdict is never executed, whatever requests and crashes interleave.
THEOREM GateImplemented == Spec => ImplementsGate
<1>1. TypeInv /\ [Next]_vars => [Gate!GateNext]_(Gate!gateVars)
  BY NextGate
<1> QED
  BY <1>1, InitGate, InitTypes, NextTypes, PTL DEF Spec, ImplementsGate

-----------------------------------------------------------------------------
(* What a verdict, and its absence, say about the executions.              *)

\* An action that was not proposed yet has no outcome either.
VerdictInv ==
  /\ TypeInv
  /\ \A a \in Actions \ lost :
       action[a] = None \/ ReadyToRun(a) => outcomes[a] = {}
  /\ VerdictIsAnOutcome

LEMMA NextVerdict == VerdictInv /\ [Next]_vars => VerdictInv'
<1> SUFFICES ASSUME VerdictInv, [Next]_vars PROVE VerdictInv'
  OBVIOUS
<1>0. TypeInv /\ TypeInv'
  BY NextTypes DEF VerdictInv
<1>1. /\ action \in [Actions -> Action \cup {None}]
      /\ outcomes \in [Actions -> SUBSET BOOLEAN]
  BY <1>0 DEF TypeInv, TypeOK
<1>2. ASSUME UNCHANGED <<action, outcomes>>, lost \subseteq lost' PROVE VerdictInv'
  BY <1>0, <1>2 DEF VerdictInv, VerdictIsAnOutcome, ReadyToRun
<1>3. ASSUME NEW j \in Jobs, Settle(j) PROVE VerdictInv'
  <2> DEFINE a == job[j].act
             v == Verdicts(job[j].ok)
  <2>1. a \in Actions /\ action[a] # None /\ job[j].ok \in BOOLEAN
    BY <1>0, <1>3, HeldAction
  <2>2. /\ v \in Verdict /\ v # "pending"
        /\ v = "done" => job[j].ok = TRUE
        /\ v = "failed" => job[j].ok = FALSE
    BY <2>1 DEF Verdicts, Verdict
  <2>3. /\ \/ action' = [action EXCEPT ![a].status = v] /\ lost' = lost
           \/ action' = action /\ lost' = lost \cup {a}
        /\ outcomes' = [outcomes EXCEPT ![a] = outcomes[a] \cup {job[j].ok}]
    BY <1>3 DEF Settle
  <2> HIDE DEF a, v
  <2>4. /\ outcomes'[a] = outcomes[a] \cup {job[j].ok}
        /\ \A c \in Actions \ {a} : outcomes'[c] = outcomes[c]
    BY <1>1, <2>1, <2>3
  <2>5. CASE action' = action /\ lost' = lost \cup {a}
    BY <1>0, <2>1, <2>4, <2>5 DEF VerdictInv, VerdictIsAnOutcome, ReadyToRun
  <2>6. CASE action' = [action EXCEPT ![a].status = v] /\ lost' = lost
    <3>1. /\ action'[a] # None /\ action'[a].status = v
          /\ \A c \in Actions \ {a} : action'[c] = action[c]
      BY <1>0, <2>1, <2>2, <2>6, WrittenRow
    <3> QED
      BY <1>0, <2>1, <2>2, <2>4, <2>6, <3>1 DEF VerdictInv, VerdictIsAnOutcome, ReadyToRun
  <2> QED
    BY <2>3, <2>5, <2>6
<1>4. ASSUME NEW j \in Jobs, NEW a \in Actions, Approve(j, a) PROVE VerdictInv'
  BY <1>2, <1>4 DEF Approve
<1>5. ASSUME NEW a \in Actions, Propose(a) PROVE VerdictInv'
  <2>1. /\ action[a] = None /\ UNCHANGED <<outcomes, lost>>
        /\ \E i, t, b : action' = [action EXCEPT ![a] = [tool |-> t, id |-> i, name |-> b,
                                                        status |-> "pending"]]
    BY <1>5 DEF Propose
  <2>2. /\ action'[a].status = "pending"
        /\ \A c \in Actions \ {a} : action'[c] = action[c]
    BY <1>1, <2>1
  <2> QED
    BY <1>0, <2>1, <2>2 DEF VerdictInv, VerdictIsAnOutcome, ReadyToRun
<1>6. ASSUME NEW a \in Actions, Reject(a) PROVE VerdictInv'
  <2>1. /\ action[a] # None /\ UNCHANGED <<outcomes, lost>>
        /\ action' = [action EXCEPT ![a].status = "rejected"]
    BY <1>6 DEF Reject
  <2>2. /\ action'[a] # None /\ action'[a].status = "rejected"
        /\ \A c \in Actions \ {a} : action'[c] = action[c]
    BY <1>0, <2>1, WrittenRow DEF Verdict
  <2> QED
    BY <1>0, <2>1, <2>2 DEF VerdictInv, VerdictIsAnOutcome, ReadyToRun
<1>7. CASE Next
  BY <1>2, <1>3, <1>4, <1>5, <1>6, <1>7, OtherStep
<1>8. CASE UNCHANGED vars
  BY <1>2, <1>8 DEF vars, approvalVars
<1> QED
  BY <1>7, <1>8

LEMMA InitVerdict == Init => VerdictInv
  BY InitTypes DEF Init, VerdictInv, VerdictIsAnOutcome

\* No finished execution is repeated: while an action is pending, what was
\* started for it is still under way or was lost to a crash.
THEOREM PendingFresh == Spec => []PendingIsFresh
<1>1. VerdictInv => PendingIsFresh
  BY DEF VerdictInv, PendingIsFresh
<1> QED
  BY <1>1, InitVerdict, NextVerdict, PTL DEF Spec

\* A verdict reports an execution of its own action, however many overlapped.
THEOREM VerdictHonest == Spec => []VerdictIsAnOutcome
<1>1. VerdictInv => VerdictIsAnOutcome
  BY DEF VerdictInv
<1> QED
  BY <1>1, InitVerdict, NextVerdict, PTL DEF Spec
-----------------------------------------------------------------------------
(* What incident records say about the branches at origin, for any number of *)
(* jobs that read, work and write whole records over each other.  A sound     *)
(* record, in a row or in the copy a job works on:                            *)

\* "fixed" needs a pushed branch and no branch that is not pushed.
Settled(rec) ==
  rec.status = "fixed" =>
    /\ \E f \in FixBranches : rec.branches[f] = "pushed"
    /\ \A f \in FixBranches : rec.branches[f] # "unpushed"

\* "pushed" branches are at origin, given what origin holds and the worktrees
\* two jobs used at once.
AtOrigin(f, rem, rac) ==
  /\ rem[RepoOf[f[1]]][f[2]] # "absent"
  /\ RepoOf[f[1]] \notin rac => rem[RepoOf[f[1]]][f[2]] = "fix"

Sound(rec, rem, rac) ==
  /\ Settled(rec)
  /\ \A f \in FixBranches : rec.branches[f] = "pushed" => AtOrigin(f, rem, rac)

\* Rows and copies are sound; a copy that StartFix changes is not "fixed".
RecordInv ==
  /\ \A i \in Incidents : record[i] # NoRecord => Sound(record[i], remote, raced)
  /\ \A j \in Jobs : job[j].rec # NoRecord => Sound(job[j].rec, remote, raced)
  /\ \A j \in Jobs : job[j].pc \in {"createBranch", "checkout"} => job[j].rec.status = "fixing"

\* Unless two jobs were in it, the worktree of a job that commits has the
\* job's branch checked out, and what it pushes is a commit.
TreeInv ==
  /\ \A j, k \in Jobs, r \in Repos : j # k /\ InTree(j, r) /\ InTree(k, r) => r \in raced
  /\ \A j \in Jobs, f \in FixBranches : job[j].at = f /\ RepoOf[f[1]] \notin raced =>
       /\ job[j].pc = "commit" => /\ tree[RepoOf[f[1]]].head = f[2]
                                  /\ local[RepoOf[f[1]]][f[2]] # "absent"
       /\ job[j].pc = "push" => local[RepoOf[f[1]]][f[2]] \in {"fix", "kept"}

FixInv == TypeInv /\ RecordInv /\ TreeInv

\* Origin and the history only grow.
Grows ==
  /\ raced \subseteq raced'
  /\ \A r \in Repos, b \in BranchNames :
       /\ remote[r][b] # "absent" => remote'[r][b] # "absent"
       /\ remote[r][b] = "fix" => remote'[r][b] = "fix"

LEMMA SoundGrows ==
  ASSUME Grows, NEW rec, Sound(rec, remote, raced)
  PROVE  Sound(rec, remote', raced')
<1>1. ASSUME NEW f \in FixBranches, AtOrigin(f, remote, raced)
      PROVE  AtOrigin(f, remote', raced')
  BY <1>1, FixBranchType DEF Grows, AtOrigin
<1> QED
  BY <1>1 DEF Sound

-----------------------------------------------------------------------------
(* What the operations do to a record.                                     *)

LEMMA SoundChanges ==
  ASSUME NEW rec \in Record, NEW rem, NEW rac, Sound(rec, rem, rac)
  PROVE  /\ \A found : Sound(Analyzed(rec, found), rem, rac)
         /\ Sound([rec EXCEPT !.status = "fixing"], rem, rac)
         /\ Sound(Confirmed(rec), rem, rac)
<1>1. ASSUME NEW found PROVE Sound(Analyzed(rec, found), rem, rac)
  BY DEF Analyzed, Sound, Settled, Record
<1>2. Sound([rec EXCEPT !.status = "fixing"], rem, rac)
  BY DEF Sound, Settled, Record
<1>3. Sound(Confirmed(rec), rem, rac)
  <2> DEFINE next == Confirmed(rec)
  <2>1. next.branches = rec.branches
    BY DEF Confirmed, Record
  <2>2. ~AllPushed(rec) => next = rec
    BY DEF Confirmed
  <2>3. AllPushed(rec) => \E f \in FixBranches : rec.branches[f] = "pushed"
    BY DEF AllPushed, Record, BranchState
  <2> HIDE DEF next
  <2>4. Settled(next)
    BY <2>1, <2>2, <2>3 DEF AllPushed, Sound, Settled
  <2> QED
    BY <2>1, <2>4 DEF Sound, next
<1> QED
  BY <1>1, <1>2, <1>3

LEMMA SoundUpsert ==
  ASSUME NEW rec \in Record, NEW rem, NEW rac, Sound(rec, rem, rac), NEW f \in FixBranches,
         rec.status = "fixing"
  PROVE  /\ Sound(Upsert(rec, f, "unpushed"), rem, rac)
         /\ Upsert(rec, f, "unpushed").status = "fixing"
<1> DEFINE next == Upsert(rec, f, "unpushed")
<1>1. next.status = "fixing"
  BY DEF Upsert, Record
<1>2. \A g \in FixBranches : next.branches[g] = IF g = f THEN "unpushed" ELSE rec.branches[g]
  BY DEF Upsert, Record
<1> HIDE DEF next
<1>3. Sound(next, rem, rac)
  BY <1>1, <1>2 DEF Sound, Settled
<1> QED
  BY <1>1, <1>3 DEF next

LEMMA SoundMark ==
  ASSUME NEW rec \in Record, NEW rem, NEW rac, Sound(rec, rem, rac), NEW f \in FixBranches,
         AtOrigin(f, rem, rac)
  PROVE  Sound(MarkPushed(rec, f), rem, rac)
<1> DEFINE next == MarkPushed(rec, f)
<1>1. next.status = rec.status
  BY DEF MarkPushed, Record
<1>2. \A g \in FixBranches : next.branches[g] = IF g = f THEN "pushed" ELSE rec.branches[g]
  BY DEF MarkPushed, Record
<1> HIDE DEF next
<1>3. Sound(next, rem, rac)
  BY <1>1, <1>2 DEF Sound, Settled
<1> QED
  BY <1>3 DEF next

LEMMA SoundNew ==
  ASSUME NEW rem, NEW rac, NEW key, NEW svcs
  PROVE  Sound([key |-> key, status |-> "analyzing", svcs |-> svcs, branches |-> NoBranches],
               rem, rac)
  BY DEF Sound, Settled, NoBranches

-----------------------------------------------------------------------------
(* What a step of one job keeps.                                           *)

\* Every other job stands still.
Alone(j) == \A k \in Jobs \ {j} : job'[k] = job[k]

LEMMA RecordsKept ==
  ASSUME RecordInv, Grows, NEW j \in Jobs, Alone(j),
         job'[j].rec # NoRecord => Sound(job'[j].rec, remote', raced'),
         job'[j].pc \in {"createBranch", "checkout"} => job'[j].rec.status = "fixing",
         \A i \in Incidents : \/ record'[i] = record[i] \/ record'[i] = NoRecord
                              \/ Sound(record'[i], remote', raced')
  PROVE  RecordInv'
<1>1. ASSUME NEW i \in Incidents, record'[i] # NoRecord
      PROVE  Sound(record'[i], remote', raced')
  BY <1>1, SoundGrows DEF RecordInv
<1>2. ASSUME NEW k \in Jobs, job'[k].rec # NoRecord
      PROVE  Sound(job'[k].rec, remote', raced')
  BY <1>2, SoundGrows DEF RecordInv, Alone
<1>3. ASSUME NEW k \in Jobs, job'[k].pc \in {"createBranch", "checkout"}
      PROVE  job'[k].rec.status = "fixing"
  BY <1>3 DEF RecordInv, Alone
<1> QED
  BY <1>1, <1>2, <1>3 DEF RecordInv, NoRecord

\* Another job in worktree r keeps what TreeInv says of it when the step
\* leaves the branch checked out, and r's branches, alone.
LEMMA TreeKept ==
  ASSUME TypeInv, TreeInv, raced \subseteq raced', NEW j \in Jobs, Alone(j),
         \A r \in Repos : InTree(j, r)' =>
           InTree(j, r) \/ r \in raced' \/ \A k \in Jobs \ {j} : ~InTree(k, r),
         \A r \in Repos : r \notin raced' /\ (\E k \in Jobs \ {j} : InTree(k, r)) =>
           tree'[r].head = tree[r].head /\ local'[r] = local[r],
         \A f \in FixBranches : job'[j].at = f /\ RepoOf[f[1]] \notin raced' =>
           /\ job'[j].pc = "commit" => /\ tree'[RepoOf[f[1]]].head = f[2]
                                       /\ local'[RepoOf[f[1]]][f[2]] # "absent"
           /\ job'[j].pc = "push" => local'[RepoOf[f[1]]][f[2]] \in {"fix", "kept"}
  PROVE  TreeInv'
<1>1. \A k \in Jobs \ {j} : \A r : InTree(k, r)' <=> InTree(k, r)
  BY DEF Alone, InTree
<1>2. ASSUME NEW k \in Jobs, NEW l \in Jobs, NEW r \in Repos, k # l, InTree(k, r)', InTree(l, r)'
      PROVE  r \in raced'
  BY <1>1, <1>2 DEF TreeInv
<1>3. ASSUME NEW k \in Jobs \ {j}, NEW f \in FixBranches, job'[k].at = f,
             RepoOf[f[1]] \notin raced', job'[k].pc \in {"commit", "push"}
      PROVE  /\ job'[k].pc = "commit" => /\ tree'[RepoOf[f[1]]].head = f[2]
                                         /\ local'[RepoOf[f[1]]][f[2]] # "absent"
             /\ job'[k].pc = "push" => local'[RepoOf[f[1]]][f[2]] \in {"fix", "kept"}
  <2>1. job'[k] = job[k] /\ RepoOf[f[1]] \in Repos /\ RepoOf[f[1]] \notin raced
    BY <1>3, FixBranchType DEF Alone
  <2>2. InTree(k, RepoOf[f[1]])
    BY <1>3, <2>1 DEF InTree, AtGit
  <2>3. /\ tree'[RepoOf[f[1]]].head = tree[RepoOf[f[1]]].head
        /\ local'[RepoOf[f[1]]] = local[RepoOf[f[1]]]
    BY <1>3, <2>1, <2>2
  <2> QED
    BY <1>3, <2>1, <2>3 DEF TreeInv
<1> QED
  BY <1>2, <1>3 DEF TreeInv

\* A step that leaves worktrees, branches and origin alone, and its own job
\* outside of them.
LEMMA QuietStep ==
  ASSUME TypeInv, RecordInv, TreeInv, UNCHANGED gitVars, NEW j \in Jobs, NEW x,
         job' = [job EXCEPT ![j] = x], x.pc \notin AtGit,
         x.rec # NoRecord => Sound(x.rec, remote, raced),
         x.pc = "createBranch" => x.rec.status = "fixing",
         \A i \in Incidents : \/ record'[i] = record[i] \/ record'[i] = NoRecord
                              \/ Sound(record'[i], remote, raced)
  PROVE  RecordInv' /\ TreeInv'
<1>1. Grows /\ remote' = remote /\ raced' = raced /\ tree' = tree /\ local' = local
  BY DEF Grows, gitVars
<1>2. Alone(j) /\ job'[j] = x
  BY DEF Alone, TypeInv, TypeOK, IncidentTypeOK
<1>3. RecordInv'
  BY <1>1, <1>2, RecordsKept DEF AtGit
<1>4. \A r : ~InTree(j, r)'
  BY <1>2 DEF InTree
<1>5. TreeInv'
  BY <1>1, <1>2, <1>4, TreeKept DEF AtGit
<1> QED
  BY <1>3, <1>5

\* A fix or commit operation that returns.
LEMMA ReturnStep ==
  ASSUME TypeInv, RecordInv, TreeInv, UNCHANGED gitVars, NEW j \in Jobs, NEW ok, Return(j, ok),
         \A i \in Incidents : \/ record'[i] = record[i] \/ record'[i] = NoRecord
                              \/ Sound(record'[i], remote, raced)
  PROVE  RecordInv' /\ TreeInv'
<1> DEFINE x == IF job[j].act = None THEN Idle
                ELSE [Idle EXCEPT !.pc = "settle", !.act = job[j].act, !.ok = ok]
<1>1. job' = [job EXCEPT ![j] = x]
  BY DEF Return
<1>2. x.pc \in {"idle", "settle"} /\ x.rec = NoRecord
  BY DEF Idle
<1> HIDE DEF x
<1> QED
  BY <1>1, <1>2, QuietStep DEF AtGit

\* What save writes.
LEMMA SavedRecord ==
  ASSUME TypeInv, NEW i \in Incidents, NEW rec, Save(i, rec), Sound(rec, remote, raced)
  PROVE  \A k \in Incidents : \/ record'[k] = record[k] \/ record'[k] = NoRecord
                              \/ Sound(record'[k], remote, raced)
<1>1. record \in [Incidents -> Record \cup {None}]
  BY DEF TypeInv, TypeOK, IncidentTypeOK
<1>2. \A k \in Incidents : record'[k] = IF k = i THEN rec ELSE record[k]
  BY <1>1 DEF Save
<1> QED
  BY <1>2

LEMMA FixCopy ==
  ASSUME FixInv, NEW j \in Jobs, job[j].pc \in HasCopy
  PROVE  /\ job[j] \in ShapedJob
         /\ job[j].id \in Incidents /\ job[j].rec \in Record
         /\ Sound(job[j].rec, remote, raced)
         /\ job[j].pc \in {"createBranch", "checkout"} => job[j].rec.status = "fixing"
         /\ job[j].todo \subseteq FixBranches
         /\ job[j].pc \in AtGit => job[j].at \in FixBranches
<1>1. job[j] \in ShapedJob
  BY TypeSplits DEF FixInv, TypeInv, TypeOK
<1>2. job[j].id \in Incidents /\ job[j].rec \in Record /\ job[j].rec # None
  BY <1>1 DEF ShapedJob, Job, HasCopy
<1>3. Sound(job[j].rec, remote, raced)
  BY <1>2 DEF FixInv, RecordInv, NoRecord
<1>4. job[j].todo \subseteq FixBranches /\ (job[j].pc \in AtGit => job[j].at \in FixBranches)
  BY <1>1 DEF ShapedJob, Job
<1> QED
  BY <1>1, <1>2, <1>3, <1>4 DEF FixInv, RecordInv

-----------------------------------------------------------------------------
(* The steps that change rows.                                             *)

LEMMA InsertSound ==
  ASSUME FixInv, NEW j \in Jobs, InsertIncident(j)
  PROVE  RecordInv' /\ TreeInv'
<1>0. TypeInv /\ RecordInv /\ TreeInv /\ UNCHANGED gitVars /\ job[j].pc = "insert"
  BY DEF FixInv, InsertIncident
<1>r. job[j].rec # NoRecord => Sound(job[j].rec, remote, raced)
  BY <1>0 DEF RecordInv
<1>1. ASSUME NEW i \in Incidents,
             Save(i, [key |-> job[j].key, status |-> "analyzing",
                      svcs |-> AlertServices[job[j].key], branches |-> NoBranches]),
             job' = [job EXCEPT ![j] = [job[j] EXCEPT !.pc = "analyze", !.id = i]]
      PROVE  RecordInv' /\ TreeInv'
  <2> DEFINE x == [job[j] EXCEPT !.pc = "analyze", !.id = i]
  <2>1. x.pc = "analyze" /\ x.rec = job[j].rec
    <3>1. job[j] \in Job
      BY <1>0 DEF TypeInv, TypeOK, IncidentTypeOK
    <3> QED
      BY <3>1 DEF Job
  <2>2. \A k \in Incidents : \/ record'[k] = record[k] \/ record'[k] = NoRecord
                             \/ Sound(record'[k], remote, raced)
    BY <1>0, <1>1, SoundNew, SavedRecord
  <2>3. job' = [job EXCEPT ![j] = x]
    BY <1>1
  <2> HIDE DEF x
  <2> QED
    BY <1>0, <1>r, <2>1, <2>2, <2>3, QuietStep DEF AtGit
<1>2. CASE job' = [job EXCEPT ![j] = Idle] /\ record' = record
  <2>1. Idle.pc = "idle" /\ Idle.rec = NoRecord
    BY DEF Idle
  <2> QED
    BY <1>0, <1>2, <2>1, QuietStep DEF AtGit
<1> QED
  BY <1>1, <1>2 DEF InsertIncident

LEMMA AnalysisSound ==
  ASSUME FixInv, NEW j \in Jobs, AnalyzeGet(j) \/ AnalyzeSave(j)
  PROVE  RecordInv' /\ TreeInv'
<1>0. TypeInv /\ RecordInv /\ TreeInv /\ UNCHANGED gitVars
  BY DEF FixInv, AnalyzeGet, AnalyzeSave
<1>i. Idle.pc = "idle" /\ Idle.rec = NoRecord
  BY DEF Idle
<1>1. CASE AnalyzeGet(j)
  <2> DEFINE x == [job[j] EXCEPT !.pc = "analyzed", !.rec = record[job[j].id]]
  <2>1. /\ job[j].pc = "analyze" /\ record' = record
        /\ \/ job' = [job EXCEPT ![j] = x]
           \/ job' = [job EXCEPT ![j] = Idle]
    BY <1>1 DEF AnalyzeGet
  <2>2. job[j] \in ShapedJob
    BY <1>0, TypeSplits DEF TypeInv, TypeOK
  <2>3. job[j].id \in Incidents
    BY <2>1, <2>2 DEF ShapedJob, Job
  <2>4. x.pc = "analyzed" /\ x.rec = record[job[j].id]
    BY <2>2 DEF ShapedJob, Job
  <2>5. x.rec # NoRecord => Sound(x.rec, remote, raced)
    BY <1>0, <2>3, <2>4 DEF RecordInv
  <2> HIDE DEF x
  <2> QED
    BY <1>0, <1>i, <2>1, <2>4, <2>5, QuietStep DEF AtGit
<1>2. CASE AnalyzeSave(j)
  <2>1. job[j].id \in Incidents /\ job[j].rec \in Record /\ Sound(job[j].rec, remote, raced)
    BY <1>2, FixCopy DEF AnalyzeSave, HasCopy
  <2>2. job' = [job EXCEPT ![j] = Idle]
    BY <1>2 DEF AnalyzeSave
  <2>3. \/ \E found : Save(job[j].id, Analyzed(job[j].rec, found))
        \/ record' = record
    BY <1>2 DEF AnalyzeSave
  <2>4. \A k \in Incidents : \/ record'[k] = record[k] \/ record'[k] = NoRecord
                             \/ Sound(record'[k], remote, raced)
    BY <1>0, <2>1, <2>3, SoundChanges, SavedRecord
  <2> QED
    BY <1>0, <1>i, <2>2, <2>4, QuietStep DEF AtGit
<1> QED
  BY <1>1, <1>2

LEMMA GetSound ==
  ASSUME FixInv, NEW j \in Jobs, StartFixGet(j) \/ CommitFixGet(j)
  PROVE  RecordInv' /\ TreeInv'
<1>0. TypeInv /\ RecordInv /\ TreeInv /\ UNCHANGED gitVars /\ record' = record
  BY DEF FixInv, StartFixGet, CommitFixGet
<1> DEFINE rec == record[job[j].id]
<1>1. job[j] \in ShapedJob /\ job[j].id \in Incidents
  <2>1. job[j] \in ShapedJob /\ job[j].pc \in {"startFix", "commitFix"}
    BY <1>0, TypeSplits DEF TypeInv, TypeOK, StartFixGet, CommitFixGet
  <2> QED
    BY <2>1 DEF ShapedJob, Job
<1>2. rec # NoRecord => rec \in Record /\ Sound(rec, remote, raced)
  BY <1>0, <1>1 DEF TypeInv, TypeOK, IncidentTypeOK, RecordInv, NoRecord
<1>3. CASE StartFixGet(j)
  <2> DEFINE fixing == [rec EXCEPT !.status = "fixing"]
             svcs == IF rec.svcs = {} THEN {Unknown} ELSE rec.svcs
             next == [job[j] EXCEPT !.pc = "createBranch", !.rec = fixing,
                                    !.todo = svcs \X {job[j].name}]
  <2>1. \/ rec # NoRecord /\ job' = [job EXCEPT ![j] = next]
        \/ Return(j, FALSE)
    BY <1>3 DEF StartFixGet
  <2>2. rec # NoRecord => fixing.status = "fixing" /\ Sound(fixing, remote, raced)
    BY <1>2, SoundChanges DEF Record
  <2>3. next.pc = "createBranch" /\ next.rec = fixing
    <3> HIDE DEF fixing, svcs
    <3> QED
      BY <1>1 DEF ShapedJob, Job
  <2> HIDE DEF next, fixing, rec
  <2>4. CASE rec # NoRecord /\ job' = [job EXCEPT ![j] = next]
    BY <1>0, <2>2, <2>3, <2>4, QuietStep DEF AtGit
  <2> QED
    BY <1>0, <2>1, <2>4, ReturnStep
<1>4. CASE CommitFixGet(j)
  <2> DEFINE wanted == {f \in FixBranches : /\ rec.branches[f] # "absent"
                                            /\ job[j].name \in {None, f[2]}}
             next == [job[j] EXCEPT !.pc = "commitBranch", !.rec = rec, !.todo = wanted]
  <2>1. \/ rec # NoRecord /\ job' = [job EXCEPT ![j] = next]
        \/ Return(j, FALSE)
    BY <1>4 DEF CommitFixGet
  <2>2. next.pc = "commitBranch" /\ next.rec = rec
    <3> HIDE DEF rec, wanted
    <3> QED
      BY <1>1 DEF ShapedJob, Job
  <2> HIDE DEF next, rec
  <2>3. CASE rec # NoRecord /\ job' = [job EXCEPT ![j] = next]
    BY <1>0, <1>2, <2>2, <2>3, QuietStep DEF AtGit
  <2> QED
    BY <1>0, <2>1, <2>3, ReturnStep
<1> QED
  BY <1>3, <1>4

LEMMA SaveSound ==
  ASSUME FixInv, NEW j \in Jobs, StartFixSave(j) \/ CommitFixSave(j)
  PROVE  RecordInv' /\ TreeInv'
<1>0. TypeInv /\ RecordInv /\ TreeInv /\ UNCHANGED gitVars
  BY DEF FixInv, StartFixSave, CommitFixSave
<1>1. job[j].id \in Incidents /\ job[j].rec \in Record /\ Sound(job[j].rec, remote, raced)
  BY FixCopy DEF StartFixSave, CommitFixSave, HasCopy
<1>2. Sound(Confirmed(job[j].rec), remote, raced)
  BY <1>1, SoundChanges
<1>3. Return(j, TRUE) \/ Return(j, FALSE)
  BY DEF StartFixSave, CommitFixSave
<1>4. \/ Save(job[j].id, job[j].rec) \/ Save(job[j].id, Confirmed(job[j].rec))
      \/ record' = record
  BY DEF StartFixSave, CommitFixSave
<1>5. \A k \in Incidents : \/ record'[k] = record[k] \/ record'[k] = NoRecord
                           \/ Sound(record'[k], remote, raced)
  BY <1>0, <1>1, <1>2, <1>4, SavedRecord
<1> QED
  BY <1>0, <1>3, <1>5, ReturnStep

-----------------------------------------------------------------------------
(* The git commands.                                                       *)

LEMMA OneChanges ==
  ASSUME TypeInv, NEW j \in Jobs, NEW x, job' = [job EXCEPT ![j] = x]
  PROVE  Alone(j) /\ job'[j] = x
  BY DEF Alone, TypeInv, TypeOK, IncidentTypeOK

LEMMA TakeUpFields ==
  ASSUME NEW x \in ShapedJob, NEW pc, NEW f
  PROVE  /\ TakeUp(x, pc, f).pc = pc /\ TakeUp(x, pc, f).at = f
         /\ TakeUp(x, pc, f).rec = x.rec
  BY DEF TakeUp, ShapedJob, Job

LEMMA LeaveFields ==
  ASSUME NEW x \in ShapedJob, NEW pc, NEW rec, NEW f
  PROVE  /\ Leave(x, pc, rec, f).pc = pc /\ Leave(x, pc, rec, f).at = None
         /\ Leave(x, pc, rec, f).rec = rec
  BY DEF Leave, ShapedJob, Job

\* A job enters a worktree: the history knows whether another one is in it.
LEMMA Enters ==
  ASSUME FixInv, NEW j \in Jobs, NEW f \in FixBranches, NEW pc \in {"checkout", "commit"},
         job[j] \in ShapedJob, job[j].pc \in HasCopy,
         job' = [job EXCEPT ![j] = TakeUp(job[j], pc, f)], Enter(j, RepoOf[f[1]]),
         pc = "checkout" => job[j].pc = "createBranch" /\ tree' = tree,
         pc = "commit" => /\ local[RepoOf[f[1]]][f[2]] # "absent"
                          /\ tree' = [tree EXCEPT ![RepoOf[f[1]]].head = f[2]],
         UNCHANGED <<record, local, remote>>
  PROVE  RecordInv' /\ TreeInv'
<1> DEFINE r == RepoOf[f[1]]
<1>0. TypeInv /\ RecordInv /\ TreeInv
  BY DEF FixInv
<1>1. r \in Repos /\ f[2] \in BranchNames
  BY FixBranchType
<1>2. /\ raced \subseteq raced'
      /\ r \in raced' \/ \A k \in Jobs \ {j} : ~InTree(k, r)
  BY DEF Enter
<1>3. Grows
  BY <1>2 DEF Grows
<1>4. Alone(j) /\ job'[j] = TakeUp(job[j], pc, f)
  BY <1>0, OneChanges
<1>5. job'[j].pc = pc /\ job'[j].at = f /\ job'[j].rec = job[j].rec
  BY <1>4, TakeUpFields
<1>6. RecordInv'
  <2>1. Sound(job'[j].rec, remote', raced')
    BY <1>3, <1>5, FixCopy, SoundGrows
  <2>2. job'[j].pc \in {"createBranch", "checkout"} => job'[j].rec.status = "fixing"
    BY <1>5, FixCopy
  <2> QED
    BY <1>0, <1>3, <1>4, <2>1, <2>2, RecordsKept
<1>7. \A q \in Repos \ {r} : tree'[q] = tree[q]
  BY <1>0, <1>1 DEF TypeInv, TypeOK, IncidentTypeOK
<1>8. pc = "commit" => tree'[r].head = f[2]
  BY <1>0, <1>1 DEF TypeInv, TypeOK, IncidentTypeOK
<1>9. \A q \in Repos : InTree(j, q)' => q = r
  BY <1>5 DEF InTree
<1> HIDE DEF r
<1>10. \A q \in Repos : q \notin raced' /\ (\E k \in Jobs \ {j} : InTree(k, q)) =>
         tree'[q].head = tree[q].head /\ local'[q] = local[q]
  BY <1>2, <1>7
<1>11. \A g \in FixBranches : job'[j].at = g /\ RepoOf[g[1]] \notin raced' =>
         /\ job'[j].pc = "commit" => /\ tree'[RepoOf[g[1]]].head = g[2]
                                     /\ local'[RepoOf[g[1]]][g[2]] # "absent"
         /\ job'[j].pc = "push" => local'[RepoOf[g[1]]][g[2]] \in {"fix", "kept"}
  BY <1>5, <1>8 DEF r
<1>12. \A q \in Repos : InTree(j, q)' =>
         InTree(j, q) \/ q \in raced' \/ \A k \in Jobs \ {j} : ~InTree(k, q)
  BY <1>2, <1>9
<1>13. TreeInv'
  BY <1>0, <1>2, <1>4, <1>10, <1>11, <1>12, TreeKept
<1> QED
  BY <1>6, <1>13

\* A job leaves a worktree, or skips a branch, with what it did there.
LEMMA Leaves ==
  ASSUME FixInv, NEW j \in Jobs, NEW pc \in {"createBranch", "commitBranch"},
         NEW rec, NEW f, job[j] \in ShapedJob,
         job' = [job EXCEPT ![j] = Leave(job[j], pc, rec, f)],
         Sound(rec, remote', raced'), pc = "createBranch" => rec.status = "fixing",
         Grows, UNCHANGED <<record, raced>>,
         \A r \in Repos : ~InTree(j, r) => tree'[r].head = tree[r].head /\ local'[r] = local[r]
  PROVE  RecordInv' /\ TreeInv'
<1>0. TypeInv /\ RecordInv /\ TreeInv
  BY DEF FixInv
<1>1. Alone(j) /\ job'[j] = Leave(job[j], pc, rec, f)
  BY <1>0, OneChanges
<1>2. job'[j].pc = pc /\ job'[j].rec = rec
  BY <1>1, LeaveFields
<1>3. RecordInv'
  BY <1>0, <1>1, <1>2, RecordsKept
<1>4. \A r : ~InTree(j, r)'
  BY <1>2 DEF InTree, AtGit
<1>5. \A r \in Repos : r \notin raced' /\ (\E k \in Jobs \ {j} : InTree(k, r)) =>
        tree'[r].head = tree[r].head /\ local'[r] = local[r]
  BY <1>0 DEF TreeInv
<1>6. TreeInv'
  BY <1>0, <1>1, <1>2, <1>4, <1>5, TreeKept
<1> QED
  BY <1>3, <1>6

LEMMA CreateBranchSound ==
  ASSUME FixInv, NEW j \in Jobs, CreateBranch(j)
  PROVE  RecordInv' /\ TreeInv'
<1>1. PICK f \in job[j].todo :
        \/ /\ job' = [job EXCEPT ![j] = TakeUp(job[j], "checkout", f)]
           /\ Enter(j, RepoOf[f[1]])
        \/ /\ job' = [job EXCEPT ![j] =
                         Leave(job[j], "createBranch", Upsert(job[j].rec, f, "unpushed"), f)]
           /\ UNCHANGED raced
  BY DEF CreateBranch
<1>2. job[j].pc = "createBranch" /\ UNCHANGED <<record, tree, local, remote>>
  BY DEF CreateBranch
<1>3. /\ job[j] \in ShapedJob /\ job[j].rec \in Record /\ f \in FixBranches
      /\ Sound(job[j].rec, remote, raced) /\ job[j].rec.status = "fixing"
  BY <1>1, <1>2, FixCopy DEF HasCopy
<1>4. CASE job' = [job EXCEPT ![j] = TakeUp(job[j], "checkout", f)] /\ Enter(j, RepoOf[f[1]])
  BY <1>2, <1>3, <1>4, Enters DEF HasCopy
<1>5. CASE /\ job' = [job EXCEPT ![j] =
                        Leave(job[j], "createBranch", Upsert(job[j].rec, f, "unpushed"), f)]
           /\ UNCHANGED raced
  <2>1. /\ Sound(Upsert(job[j].rec, f, "unpushed"), remote, raced)
        /\ Upsert(job[j].rec, f, "unpushed").status = "fixing"
    BY <1>3, SoundUpsert
  <2>2. Grows
    BY <1>2, <1>5 DEF Grows
  <2> QED
    BY <1>2, <1>3, <1>5, <2>1, <2>2, Leaves
<1> QED
  BY <1>1, <1>4, <1>5

LEMMA CheckoutSound ==
  ASSUME FixInv, NEW j \in Jobs, Checkout(j)
  PROVE  RecordInv' /\ TreeInv'
<1> DEFINE f == job[j].at
           r == RepoOf[f[1]]
<1>1. /\ job[j].pc = "checkout" /\ UNCHANGED <<record, remote, raced>>
      /\ \/ /\ tree' = [tree EXCEPT ![r] = [head |-> f[2], dirty |-> TRUE]]
            /\ local' = [local EXCEPT ![r][f[2]] = "base"]
         \/ /\ tree' = [tree EXCEPT ![r].head = f[2]]
            /\ local' = [local EXCEPT ![r][f[2]] = "base"]
         \/ UNCHANGED <<tree, local>>
      /\ job' = [job EXCEPT ![j] =
                   Leave(job[j], "createBranch", Upsert(job[j].rec, f, "unpushed"), f)]
  BY DEF Checkout
<1>2. /\ job[j] \in ShapedJob /\ job[j].rec \in Record /\ f \in FixBranches
      /\ Sound(job[j].rec, remote, raced) /\ job[j].rec.status = "fixing"
  BY <1>1, FixCopy DEF HasCopy, AtGit
<1>3. /\ Sound(Upsert(job[j].rec, f, "unpushed"), remote, raced)
      /\ Upsert(job[j].rec, f, "unpushed").status = "fixing"
  BY <1>2, SoundUpsert
<1>4. Grows
  BY <1>1 DEF Grows
<1>5. InTree(j, r) /\ r \in Repos
  BY <1>1, <1>2, FixBranchType DEF InTree, AtGit
<1>6. tree \in [Repos -> Worktree] /\ local \in [Repos -> [BranchNames -> LocalState]]
  BY DEF FixInv, TypeInv, TypeOK, IncidentTypeOK, Worktree
<1>7. \A q \in Repos : q # r => tree'[q] = tree[q] /\ local'[q] = local[q]
  <2> HIDE DEF f, r
  <2> QED
    BY <1>1, <1>5, <1>6
<1>8. \A q \in Repos : ~InTree(j, q) => tree'[q].head = tree[q].head /\ local'[q] = local[q]
  BY <1>5, <1>7
<1> QED
  BY <1>1, <1>2, <1>3, <1>4, <1>8, Leaves

LEMMA CommitBranchSound ==
  ASSUME FixInv, NEW j \in Jobs, CommitBranch(j)
  PROVE  RecordInv' /\ TreeInv'
<1>1. PICK f \in job[j].todo :
        \/ /\ local[RepoOf[f[1]]][f[2]] # "absent"
           /\ tree' = [tree EXCEPT ![RepoOf[f[1]]].head = f[2]]
           /\ job' = [job EXCEPT ![j] = TakeUp(job[j], "commit", f)]
           /\ Enter(j, RepoOf[f[1]])
        \/ /\ job' = [job EXCEPT ![j] = Leave(job[j], "commitBranch", job[j].rec, f)]
           /\ UNCHANGED <<tree, raced>>
  BY DEF CommitBranch
<1>2. job[j].pc = "commitBranch" /\ UNCHANGED <<record, local, remote>>
  BY DEF CommitBranch
<1>3. /\ job[j] \in ShapedJob /\ job[j].rec \in Record /\ f \in FixBranches
      /\ Sound(job[j].rec, remote, raced)
  BY <1>1, <1>2, FixCopy DEF HasCopy
<1>4. CASE /\ local[RepoOf[f[1]]][f[2]] # "absent"
           /\ tree' = [tree EXCEPT ![RepoOf[f[1]]].head = f[2]]
           /\ job' = [job EXCEPT ![j] = TakeUp(job[j], "commit", f)]
           /\ Enter(j, RepoOf[f[1]])
  BY <1>2, <1>3, <1>4, Enters DEF HasCopy
<1>5. CASE /\ job' = [job EXCEPT ![j] = Leave(job[j], "commitBranch", job[j].rec, f)]
           /\ UNCHANGED <<tree, raced>>
  <2>1. Grows
    BY <1>2, <1>5 DEF Grows
  <2> QED
    BY <1>2, <1>3, <1>5, <2>1, Leaves
<1> QED
  BY <1>1, <1>4, <1>5

LEMMA CommitSound ==
  ASSUME FixInv, NEW j \in Jobs, Commit(j)
  PROVE  RecordInv' /\ TreeInv'
<1> DEFINE f == job[j].at
           r == RepoOf[f[1]]
           h == tree[r].head
           commits == [job[j] EXCEPT !.pc = "push"]
<1>1. /\ job[j].pc = "commit" /\ UNCHANGED <<record, remote, raced>>
      /\ \/ /\ tree' = [tree EXCEPT ![r].dirty = FALSE]
            /\ local' = IF h = None THEN local ELSE [local EXCEPT ![r][h] = WithCommit(local[r][h])]
            /\ job' = [job EXCEPT ![j] = commits]
         \/ /\ job' = [job EXCEPT ![j] = Leave(job[j], "commitBranch", job[j].rec, f)]
            /\ UNCHANGED <<tree, local>>
  BY DEF Commit
<1>2. /\ job[j] \in ShapedJob /\ job[j].rec \in Record /\ f \in FixBranches
      /\ Sound(job[j].rec, remote, raced)
  BY <1>1, FixCopy DEF HasCopy, AtGit
<1>3. Grows
  BY <1>1 DEF Grows
<1>4. /\ InTree(j, r) /\ r \in Repos /\ f[2] \in BranchNames /\ None \notin BranchNames
      /\ TypeInv /\ RecordInv /\ TreeInv
  BY <1>1, <1>2, FixBranchType, NoneAssumption DEF InTree, AtGit, FixInv
<1>5. tree \in [Repos -> Worktree] /\ local \in [Repos -> [BranchNames -> LocalState]]
  BY DEF FixInv, TypeInv, TypeOK, IncidentTypeOK, Worktree
<1>6. CASE job' = [job EXCEPT ![j] = Leave(job[j], "commitBranch", job[j].rec, f)]
           /\ UNCHANGED <<tree, local>>
  BY <1>1, <1>2, <1>3, <1>6, Leaves
<1>7. CASE /\ tree' = [tree EXCEPT ![r].dirty = FALSE]
           /\ local' = IF h = None THEN local ELSE [local EXCEPT ![r][h] = WithCommit(local[r][h])]
           /\ job' = [job EXCEPT ![j] = commits]
  <2>1. commits.pc = "push" /\ commits.at = f /\ commits.rec = job[j].rec
    BY <1>2 DEF ShapedJob, Job
  <2>2. Alone(j) /\ job'[j] = commits
    BY <1>4, <1>7, OneChanges
  <2>3. RecordInv'
    BY <1>1, <1>2, <1>3, <1>4, <2>1, <2>2, RecordsKept
  <2>4. r \notin raced => h = f[2] /\ local[r][f[2]] # "absent"
    BY <1>1, <1>2, <1>4 DEF TreeInv
  <2> HIDE DEF commits, f, r, h
  <2>5. \A q \in Repos : q # r => tree'[q] = tree[q] /\ local'[q] = local[q]
    BY <1>4, <1>5, <1>7
  <2>6. r \notin raced => local'[r][f[2]] \in {"fix", "kept"}
    <3>1. ASSUME r \notin raced PROVE local'[r][f[2]] = WithCommit(local[r][f[2]])
      BY <1>4, <1>5, <1>7, <2>4, <3>1
    <3>2. local[r][f[2]] \in LocalState
      BY <1>4, <1>5
    <3> QED
      BY <2>4, <3>1, <3>2 DEF WithCommit, LocalState
  <2>7. \A q \in Repos : q \notin raced' /\ (\E k \in Jobs \ {j} : InTree(k, q)) =>
          tree'[q].head = tree[q].head /\ local'[q] = local[q]
    BY <1>1, <1>4, <2>5 DEF TreeInv
  <2>8. \A q \in Repos : InTree(j, q)' => InTree(j, q)
    BY <1>1, <2>1, <2>2 DEF InTree, AtGit, f
  <2>9. \A g \in FixBranches : job'[j].at = g /\ RepoOf[g[1]] \notin raced' =>
          /\ job'[j].pc = "commit" => /\ tree'[RepoOf[g[1]]].head = g[2]
                                      /\ local'[RepoOf[g[1]]][g[2]] # "absent"
          /\ job'[j].pc = "push" => local'[RepoOf[g[1]]][g[2]] \in {"fix", "kept"}
    BY <1>1, <2>1, <2>2, <2>6 DEF r
  <2>10. TreeInv'
    BY <1>1, <1>4, <2>2, <2>7, <2>8, <2>9, TreeKept
  <2> QED
    BY <2>3, <2>10
<1> QED
  BY <1>1, <1>6, <1>7

LEMMA PushSound ==
  ASSUME FixInv, NEW j \in Jobs, Push(j)
  PROVE  RecordInv' /\ TreeInv'
<1> DEFINE f == job[j].at
           r == RepoOf[f[1]]
           b == f[2]
           arrives == /\ local[r][b] # "absent"
                      /\ FastForward(r, b)
                      /\ remote' = [remote EXCEPT ![r][b] = Pushed(local[r][b])]
                      /\ local' = [local EXCEPT ![r][b] =
                                     IF local[r][b] = "fix" THEN "kept" ELSE local[r][b]]
<1>1. /\ job[j].pc = "push" /\ UNCHANGED <<record, tree, raced>>
      /\ \/ /\ arrives
            /\ \E rec \in {job[j].rec, MarkPushed(job[j].rec, f)} :
                 job' = [job EXCEPT ![j] = Leave(job[j], "commitBranch", rec, f)]
         \/ /\ job' = [job EXCEPT ![j] = Leave(job[j], "commitBranch", job[j].rec, f)]
            /\ UNCHANGED <<remote, local>>
  BY DEF Push
<1>2. /\ job[j] \in ShapedJob /\ job[j].rec \in Record /\ f \in FixBranches
      /\ Sound(job[j].rec, remote, raced)
  BY <1>1, FixCopy DEF HasCopy, AtGit
<1>3. /\ InTree(j, r) /\ r \in Repos /\ b \in BranchNames /\ TreeInv
  BY <1>1, <1>2, FixBranchType DEF InTree, AtGit, FixInv
<1>4. /\ remote \in [Repos -> [BranchNames -> RemoteState]]
      /\ local \in [Repos -> [BranchNames -> LocalState]]
  BY DEF FixInv, TypeInv, TypeOK, IncidentTypeOK
<1>5. r \notin raced => local[r][b] \in {"fix", "kept"}
  BY <1>1, <1>2, <1>3 DEF TreeInv
<1>6. CASE /\ job' = [job EXCEPT ![j] = Leave(job[j], "commitBranch", job[j].rec, f)]
           /\ UNCHANGED <<remote, local>>
  <2>1. Grows
    BY <1>1, <1>6 DEF Grows
  <2> QED
    BY <1>1, <1>2, <1>6, <2>1, Leaves
<1>7. CASE /\ arrives
           /\ \E rec \in {job[j].rec, MarkPushed(job[j].rec, f)} :
                job' = [job EXCEPT ![j] = Leave(job[j], "commitBranch", rec, f)]
  <2> HIDE DEF f, r, b
  <2>1. remote'[r][b] = Pushed(local[r][b])
    BY <1>3, <1>4, <1>7
  <2>2. \A q \in Repos, c \in BranchNames : q # r \/ c # b => remote'[q][c] = remote[q][c]
    BY <1>3, <1>4, <1>7
  <2>3. \A q \in Repos : q # r => local'[q] = local[q]
    BY <1>3, <1>4, <1>7
  <2>4. Pushed(local[r][b]) # "absent"
    BY DEF Pushed
  <2>5. remote[r][b] = "fix" => Pushed(local[r][b]) = "fix"
    BY <1>7 DEF FastForward, Pushed
  <2>6. Grows
    BY <1>1, <2>1, <2>2, <2>4, <2>5 DEF Grows
  <2>7. AtOrigin(f, remote', raced')
    BY <1>1, <1>5, <2>1, <2>4 DEF AtOrigin, Pushed, r, b
  <2>8. Sound(job[j].rec, remote', raced')
    BY <1>2, <2>6, SoundGrows
  <2>9. Sound(MarkPushed(job[j].rec, f), remote', raced')
    BY <1>2, <2>7, <2>8, SoundMark
  <2>10. PICK rec : /\ Sound(rec, remote', raced')
                   /\ job' = [job EXCEPT ![j] = Leave(job[j], "commitBranch", rec, f)]
    BY <1>7, <2>8, <2>9
  <2>11. \A q \in Repos : ~InTree(j, q) => tree'[q].head = tree[q].head /\ local'[q] = local[q]
    BY <1>1, <1>3, <2>3
  <2> QED
    BY <1>1, <1>2, <2>6, <2>10, <2>11, Leaves
<1> QED
  BY <1>1, <1>6, <1>7

-----------------------------------------------------------------------------
(* Requests, decisions and the environment.                                *)

LEMMA StartSound ==
  ASSUME FixInv, NEW j \in Jobs, NEW x, job' = [job EXCEPT ![j] = x], x.pc \notin AtGit,
         x.pc # "createBranch", x.rec \in {NoRecord, job[j].rec},
         UNCHANGED <<record, gitVars>>
  PROVE  RecordInv' /\ TreeInv'
<1>1. TypeInv /\ RecordInv /\ TreeInv /\ UNCHANGED gitVars /\ record' = record
  BY DEF FixInv
<1>2. x.rec # NoRecord => Sound(x.rec, remote, raced)
  BY DEF FixInv, RecordInv
<1> QED
  BY <1>1, <1>2, QuietStep

LEMMA RequestSound ==
  ASSUME FixInv, NEW j \in Jobs,
         Request(j) \/ Settle(j) \/ \E a \in Actions : Approve(j, a)
  PROVE  RecordInv' /\ TreeInv'
<1>i. Idle.pc = "idle" /\ Idle.rec = NoRecord
  BY DEF Idle
<1>1. CASE CreateFromAlert(j)
  <2> DEFINE found(i) == [job[j] EXCEPT !.pc = "analyze", !.id = i]
             inserts(key) == [job[j] EXCEPT !.pc = "insert", !.key = key]
  <2>1. PICK key, i : \/ job' = [job EXCEPT ![j] = found(i)]
                      \/ job' = [job EXCEPT ![j] = inserts(key)]
    BY <1>1 DEF CreateFromAlert
  <2>2. /\ found(i).pc = "analyze" /\ found(i).rec = job[j].rec
        /\ inserts(key).pc = "insert" /\ inserts(key).rec = job[j].rec
    <3>1. job[j] \in Job
      BY DEF FixInv, TypeInv, TypeOK, IncidentTypeOK
    <3> QED
      BY <3>1 DEF Job
  <2>3. UNCHANGED <<record, gitVars>>
    BY <1>1 DEF CreateFromAlert
  <2> HIDE DEF found, inserts
  <2> QED
    BY <2>1, <2>2, <2>3, StartSound DEF AtGit
<1>2. ASSUME NEW start, start.pc \in {"startFix", "commitFix"}, start.rec = NoRecord,
             Begin(j, start), UNCHANGED <<record, gitVars>>
      PROVE  RecordInv' /\ TreeInv'
  BY <1>2, StartSound DEF Begin, AtGit
<1>3. ASSUME NEW i, NEW b, StartFix(j, i, b) \/ CommitFix(j, i, b)
      PROVE  RecordInv' /\ TreeInv'
  <2> DEFINE start(pc) == [Idle EXCEPT !.pc = pc, !.id = i, !.name = b]
  <2>1. \A pc : start(pc).pc = pc /\ start(pc).rec = NoRecord
    BY DEF Idle
  <2>2. Begin(j, start("startFix")) \/ Begin(j, start("commitFix"))
    BY <1>3 DEF StartFix, CommitFix
  <2>3. UNCHANGED <<record, gitVars>>
    BY <1>3 DEF StartFix, CommitFix
  <2> HIDE DEF start
  <2> QED
    BY <1>2, <2>1, <2>2, <2>3
<1>4. ASSUME NEW a \in Actions, Approve(j, a) PROVE RecordInv' /\ TreeInv'
  <2> DEFINE start == [Idle EXCEPT !.act = a, !.id = action[a].id, !.name = action[a].name,
                           !.pc = IF action[a].tool = "propose_branch"
                                  THEN "startFix" ELSE "commitFix"]
  <2>1. Begin(j, start) /\ UNCHANGED <<record, gitVars>>
    BY <1>4 DEF Approve
  <2>2. start.pc \in {"startFix", "commitFix"} /\ start.rec = NoRecord
    BY DEF Idle
  <2> HIDE DEF start
  <2> QED
    BY <1>2, <2>1, <2>2
<1>5. CASE Settle(j)
  BY <1>i, <1>5, StartSound DEF Settle, AtGit
<1> QED
  BY <1>1, <1>3, <1>4, <1>5 DEF Request

LEMMA OtherSound ==
  ASSUME FixInv,
         \/ \E i \in Incidents : Delete(i)
         \/ \E r \in Repos : Edit(r)
         \/ \E a \in Actions : Propose(a) \/ Reject(a)
         \/ Crash
         \/ UNCHANGED vars
  PROVE  RecordInv' /\ TreeInv'
<1>0. /\ tree \in [Repos -> Worktree] /\ record \in [Incidents -> Record \cup {None}]
      /\ RecordInv /\ TreeInv
  BY DEF FixInv, TypeInv, TypeOK, IncidentTypeOK, Worktree
<1>1. /\ UNCHANGED <<local, remote, raced>>
      /\ job' = job \/ job' = [j \in Jobs |-> Idle]
  BY DEF Delete, Edit, Propose, Reject, Crash, vars, incidentVars, gitVars
<1>2. \A i \in Incidents : record'[i] \in {record[i], NoRecord}
  BY <1>0 DEF Delete, Edit, Propose, Reject, Crash, vars, incidentVars, NoRecord
<1>3. \A r \in Repos : tree'[r].head = tree[r].head
  <2>1. ASSUME NEW q \in Repos, Edit(q) PROVE \A r \in Repos : tree'[r].head = tree[r].head
    BY <1>0, <2>1 DEF Edit, Worktree
  <2>2. CASE tree' = tree
    BY <2>2
  <2> QED
    BY <2>1, <2>2 DEF Delete, Propose, Reject, Crash, vars, incidentVars, gitVars
<1>4. Idle.pc = "idle" /\ Idle.rec = NoRecord
  BY DEF Idle
<1>5. \A j \in Jobs : job'[j] \in {job[j], Idle}
  BY <1>1
<1>6. RecordInv'
  BY <1>0, <1>1, <1>2, <1>4, <1>5 DEF RecordInv
<1>7. \A j \in Jobs, r \in Repos : InTree(j, r)' => InTree(j, r)
  BY <1>4, <1>5 DEF InTree, AtGit
<1>8. ASSUME NEW j \in Jobs, NEW f \in FixBranches, job'[j].at = f, RepoOf[f[1]] \notin raced',
             job'[j].pc \in {"commit", "push"}
      PROVE  /\ job'[j].pc = "commit" => /\ tree'[RepoOf[f[1]]].head = f[2]
                                         /\ local'[RepoOf[f[1]]][f[2]] # "absent"
             /\ job'[j].pc = "push" => local'[RepoOf[f[1]]][f[2]] \in {"fix", "kept"}
  <2>1. job'[j] = job[j] /\ RepoOf[f[1]] \in Repos
    BY <1>4, <1>5, <1>8, FixBranchType
  <2> QED
    BY <1>0, <1>1, <1>3, <1>8, <2>1 DEF TreeInv
<1>9. TreeInv'
  BY <1>0, <1>1, <1>7, <1>8 DEF TreeInv
<1> QED
  BY <1>6, <1>9

-----------------------------------------------------------------------------
(* The theorems.                                                           *)

LEMMA InitFix == Init => FixInv
<1> SUFFICES ASSUME Init PROVE FixInv
  OBVIOUS
<1>1. \A j \in Jobs : job[j] = Idle
  BY DEF Init, IncidentInit
<1>2. Idle.pc = "idle" /\ Idle.rec = NoRecord
  BY DEF Idle
<1>3. RecordInv
  BY <1>1, <1>2 DEF Init, IncidentInit, RecordInv
<1>4. TreeInv
  BY <1>1, <1>2 DEF TreeInv, InTree, AtGit
<1> QED
  BY <1>3, <1>4, InitTypes DEF FixInv

LEMMA NextFix == FixInv /\ [Next]_vars => FixInv'
<1> SUFFICES ASSUME FixInv, [Next]_vars PROVE FixInv'
  OBVIOUS
<1>1. TypeInv'
  BY NextTypes DEF FixInv
<1>2. ASSUME NEW j \in Jobs, JobStep(j) PROVE RecordInv' /\ TreeInv'
  BY <1>2, InsertSound, AnalysisSound, GetSound, SaveSound, CreateBranchSound, CheckoutSound,
     CommitBranchSound, CommitSound, PushSound DEF JobStep
<1>3. RecordInv' /\ TreeInv'
  BY <1>2, RequestSound, OtherSound DEF Next, Work
<1> QED
  BY <1>1, <1>3 DEF FixInv

\* "fixed" is only ever saved with a pushed branch and none left unpushed:
\* whole records written over each other by analyses and fixes keep it.
THEOREM FixedIsPushed == Spec => []FixedMeansPushed
<1>1. FixInv => FixedMeansPushed
  BY DEF FixInv, RecordInv, Sound, Settled, FixedMeansPushed
<1> QED
  BY <1>1, InitFix, NextFix, PTL DEF Spec

\* A branch recorded as pushed is at origin, and what is there is a commit
\* unless two jobs shared the worktree: for any number of jobs, worktrees and
\* branches, and crashes between any two git commands.
THEOREM PushedIsReal == Spec => []PushedIsAtOrigin
<1>1. FixInv => PushedIsAtOrigin
  BY DEF FixInv, RecordInv, Sound, AtOrigin, PushedIsAtOrigin
<1> QED
  BY <1>1, InitFix, NextFix, PTL DEF Spec

=============================================================================
