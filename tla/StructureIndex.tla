--------------------------- MODULE StructureIndex ---------------------------
(***************************************************************************)
(* Checkouts and the structural index.  A rebuild scans the checkouts of    *)
(* all repositories, reads their HEAD revisions, writes a fresh SQLite      *)
(* file, renames it over the live one, opens it, swaps the handle readers   *)
(* use, and rebuilds the in-memory dependency graph from it.  Dashboard     *)
(* operations, webhooks and the daily sync run rebuilds and checkouts with  *)
(* no lock in common.                                                       *)
(*                                                                         *)
(* A job is one operation.  The steps below are the ones operations share;  *)
(* the document steps are in DocumentIndex, the operations in Workspace.    *)
(* A revision of a repository is a number that grows; 0 is "not cloned".    *)
(***************************************************************************)
EXTENDS Naturals, FiniteSets

CONSTANTS
  Repos,        \* repositories of the VCS groups
  Uploads,      \* identifiers of documents users may upload
  Jobs,         \* operations at work at one time
  MaxCommits,   \* bound on the revisions of a repository
  MaxText,      \* texts documents may have are 1..MaxText
  MaxChunks,    \* bound on the chunks of a document
  None          \* no document

ASSUME IdAssumption == Repos \cap Uploads = {} /\ None \notin Repos \cup Uploads
ASSUME SizeAssumption ==
  /\ MaxCommits \in Nat \ {0} /\ MaxText \in Nat /\ MaxChunks \in Nat \ {0}
  /\ MaxCommits <= MaxText

VARIABLES
  origin,   \* the newest revision of each repository at the VCS
  tree,     \* the revision checked out under repos/
  file,     \* the snapshot in the SQLite file
  served,   \* the snapshot behind the handle of the readers
  graph,    \* the snapshot the dependency graph was built from
  code,     \* the revision the code vectors were embedded from (see CodeIndex)
  job,      \* what every job is doing
  slipped,  \* history: repositories checked out between a scan and its HEAD
  torn,     \* history: a publication failed half-way or met another one
  unplanned \* history: repositories published by no plan to embed them

structureVars == <<origin, tree, file, served, graph, code, slipped, torn, unplanned>>

-----------------------------------------------------------------------------
(* Types.                                                                  *)

Revision == 0..MaxCommits
Text == 0..MaxText
DocIds == Uploads \cup Repos    \* a repository has one generated document

\* A repository in a snapshot: the revision its row names, and the one its
\* services, endpoints and dependencies were scanned from.
Snapshot == [Repos -> [sha: Revision, src: Revision]]
NoSnapshot == [r \in Repos |-> [sha |-> 0, src |-> 0]]

Ops == {"none", "sync", "push", "daily", "rebuild", "graph", "bootstrap",
        "gendocs", "embedDocs", "embedCode", "upload", "reindex", "delete"}

Pc == {"idle", "fetch", "detect", "scan", "label", "rename", "open", "swap",
       "edges", "graph", "hash", "read", "store", "embedCode", "drop",
       "embedKnowledge", "list", "clear", "embedGenerated",
       "load", "unvector", "embedOne", "insert", "remove"}

Job ==
  [op: Ops, pc: Pc, todo: SUBSET Repos, done: SUBSET Repos, repo: Repos \cup {None},
   bundle: Snapshot, lone: BOOLEAN, hash: Revision, src: Text, changed: BOOLEAN,
   docs: SUBSET DocIds, text: [DocIds -> Text], at: DocIds \cup {None},
   chunk: 1..MaxChunks, alone: BOOLEAN]

Idle ==
  [op |-> "none", pc |-> "idle", todo |-> {}, done |-> {}, repo |-> None,
   bundle |-> NoSnapshot, lone |-> FALSE, hash |-> 0, src |-> 0, changed |-> FALSE,
   docs |-> {}, text |-> [d \in DocIds |-> 0], at |-> None, chunk |-> 1,
   alone |-> FALSE]

StructureTypeOK ==
  /\ origin \in [Repos -> Revision]
  /\ tree \in [Repos -> Revision]
  /\ file \in Snapshot /\ served \in Snapshot /\ graph \in Snapshot
  /\ code \in [Repos -> Revision]
  /\ job \in [Jobs -> Job]
  /\ slipped \subseteq Repos /\ torn \in BOOLEAN /\ unplanned \subseteq Repos

StructureInit ==
  /\ origin = [r \in Repos |-> 1]
  /\ tree = [r \in Repos |-> 0]
  /\ file = NoSnapshot /\ served = NoSnapshot /\ graph = NoSnapshot
  /\ code = [r \in Repos |-> 0]
  /\ job = [j \in Jobs |-> Idle]
  /\ slipped = {} /\ torn = FALSE /\ unplanned = {}

At(j, pc) == job[j].pc = pc
Goto(j, pc) == job' = [job EXCEPT ![j].pc = pc]
End(j) == job' = [job EXCEPT ![j] = Idle]

-----------------------------------------------------------------------------
(* Checkouts.                                                              *)

Cloned == {r \in Repos : tree[r] > 0}

\* A revision is pushed to the VCS.
Commit(r) ==
  /\ origin[r] < MaxCommits
  /\ origin' = [origin EXCEPT ![r] = @ + 1]
  /\ UNCHANGED <<tree, file, served, graph, code, job, slipped, torn, unplanned>>

\* CloneOrFetch of one project of the operation: clone, or fetch and reset.
\* SyncAll logs a failure and goes on; SyncOne and SyncProject return it.
Fetch(j) ==
  /\ At(j, "fetch")
  /\ \E r \in job[j].todo :
       \/ /\ tree' = [tree EXCEPT ![r] = origin[r]]
          /\ job' = [job EXCEPT ![j].todo = @ \ {r}, ![j].done = @ \cup {r}]
          /\ slipped' = IF tree[r] # origin[r] /\ \E k \in Jobs : At(k, "label")
                        THEN slipped \cup {r} ELSE slipped
       \/ /\ IF job[j].op = "push" THEN End(j)
             ELSE job' = [job EXCEPT ![j].todo = @ \ {r}]
          /\ UNCHANGED <<tree, slipped>>
  /\ UNCHANGED <<origin, file, served, graph, code, torn, unplanned>>

Fetched(j) ==
  /\ At(j, "fetch") /\ job[j].todo = {}
  /\ CASE job[j].op = "daily" -> Goto(j, "detect")
       [] job[j].op = "push" -> job' = [job EXCEPT ![j].pc = "scan", ![j].done = {}]
       [] OTHER -> End(j)
  /\ UNCHANGED structureVars

\* DailySync looks for repositories whose HEAD is not the indexed revision.
\* HEAD cannot be read of some; an index state that cannot counts as changed.
Outdated(r) == tree[r] # served[r].sha

Detect(j) ==
  /\ At(j, "detect")
  /\ \E unread \in SUBSET job[j].done, unknown \in SUBSET job[j].done :
       LET changed == {r \in job[j].done : Outdated(r) \/ r \in unknown} \ unread
       IN IF changed = {} THEN End(j)
          ELSE job' = [job EXCEPT ![j].pc = "scan", ![j].done = changed]
  /\ UNCHANGED structureVars

-----------------------------------------------------------------------------
(* A rebuild.                                                              *)

\* ScanCode over the checkouts, in a moment.
Scanned == [r \in Repos |-> [sha |-> 0, src |-> tree[r]]]

Scan(j) ==
  /\ At(j, "scan")
  /\ job' = [job EXCEPT ![j].pc = "label", ![j].bundle = Scanned]
  /\ UNCHANGED structureVars

\* Broken variant: the revision is taken from the index where it has one.
LabelledAsIndexed(b) ==
  [r \in Repos |-> [b[r] EXCEPT !.sha = IF served[r].sha > 0 THEN served[r].sha
                                        ELSE tree[r]]]

\* attachRepositorySnapshots: HEAD of every repository that has services.
Labelled(b) ==
  [r \in Repos |-> [b[r] EXCEPT !.sha = IF b[r].src = 0 THEN 0 ELSE tree[r]]]

Label(j) ==
  /\ At(j, "label")
  /\ \/ job' = [job EXCEPT ![j].pc = "rename", ![j].bundle = Labelled(@)]
     \/ End(j)
  /\ UNCHANGED structureVars

\* Jobs between the rename of the file and the end of the graph's rebuild.
Window == {"open", "swap", "edges", "graph"}
InWindow(j) == job[j].pc \in Window

\* Job j enters the window: nobody in it is alone there any more.
Enter(j, pc) ==
  /\ job' = [k \in Jobs |->
               IF k = j THEN [job[j] EXCEPT !.pc = pc,
                                            !.lone = \A i \in Jobs : ~InWindow(i)]
               ELSE [job[k] EXCEPT !.lone = FALSE]]
  /\ torn' = (torn \/ \E k \in Jobs : InWindow(k))

\* Repositories a daily sync has published, or is about to, and not embedded.
Pending(j) == IF job[j].op = "daily" THEN job[j].done \cup job[j].todo ELSE {}

\* The job returns an error after the rename.
Abandon(j) ==
  /\ End(j)
  /\ torn' = TRUE
  /\ unplanned' = unplanned \cup Pending(j)

\* ReplaceAll validates, writes a new file and renames it over the live one.
Rename(j) ==
  /\ At(j, "rename")
  /\ \/ /\ file' = job[j].bundle
        /\ Enter(j, "open")
        /\ unplanned' = {r \in Repos :
                           IF file[r].sha = file'[r].sha THEN r \in unplanned
                           ELSE job[j].op # "daily" \/ r \notin job[j].done}
     \/ End(j) /\ UNCHANGED <<file, torn, unplanned>>
  /\ UNCHANGED <<origin, tree, served, graph, code, slipped>>

\* ... opens what is there now,
Open(j) ==
  /\ At(j, "open")
  /\ \/ /\ job' = [job EXCEPT ![j].pc = "swap", ![j].bundle = file]
        /\ UNCHANGED <<torn, unplanned>>
     \/ Abandon(j)
  /\ UNCHANGED <<origin, tree, file, served, graph, code, slipped>>

\* ... and puts it behind the handle.
Swap(j) ==
  /\ At(j, "swap")
  /\ served' = job[j].bundle
  /\ Goto(j, "edges")
  /\ UNCHANGED <<origin, tree, file, graph, code, slipped, torn, unplanned>>

\* reloadDependencyGraph reads the edges through the handle,
Edges(j) ==
  /\ At(j, "edges")
  /\ \/ /\ job' = [job EXCEPT ![j].pc = "graph", ![j].bundle = served]
        /\ UNCHANGED <<torn, unplanned>>
     \/ Abandon(j)
  /\ UNCHANGED <<origin, tree, file, served, graph, code, slipped>>

\* Broken variant: only a rebuild refreshes the graph, not every snapshot.
RebuildIfEmpty(j) ==
  graph' = IF graph = NoSnapshot THEN job[j].bundle ELSE graph

\* ... and replaces the graph.  A rebuild that had the window to itself leaves
\* nothing torn.
Rebuild(j) == graph' = job[j].bundle

RebuildGraph(j) ==
  /\ At(j, "graph")
  /\ Rebuild(j)
  /\ torn' = (torn /\ ~(job[j].lone /\ job[j].op # "graph"))
  /\ CASE job[j].op = "daily" ->
            job' = [job EXCEPT ![j].pc = "hash", ![j].todo = job[j].done, ![j].done = {},
                               ![j].bundle = NoSnapshot, ![j].lone = FALSE]
       [] job[j].op = "bootstrap" ->
            job' = [job EXCEPT ![j].pc = "drop", ![j].bundle = NoSnapshot,
                               ![j].lone = FALSE]
       [] OTHER -> End(j)
  /\ UNCHANGED <<origin, tree, file, served, code, slipped, unplanned>>

StructureStep(j) ==
  \/ Fetch(j) \/ Fetched(j) \/ Detect(j) \/ Scan(j) \/ Label(j)
  \/ Rename(j) \/ Open(j) \/ Swap(j) \/ Edges(j) \/ RebuildGraph(j)

=============================================================================
