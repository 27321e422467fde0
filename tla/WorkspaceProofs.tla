-------------------------- MODULE WorkspaceProofs --------------------------
(* Checkouts, structural index and documents, for any repositories, uploads,  *)
(* texts, chunks and jobs.                                                    *)
EXTENDS Workspace, TLAPS

-----------------------------------------------------------------------------
(* The inductive invariant.                                                *)

\* Which operation takes which steps.
Rebuilding == {"scan", "label", "rename", "open", "swap", "edges", "graph"}
OpsAt(pc) ==
  CASE pc = "idle" -> {"none"}
    [] pc = "fetch" -> {"sync", "push", "daily"}
    [] pc = "detect" -> {"daily"}
    [] pc \in {"scan", "label", "rename", "open", "swap"} -> {"push", "daily", "rebuild", "bootstrap"}
    [] pc \in {"edges", "graph"} -> {"push", "daily", "rebuild", "bootstrap", "graph"}
    [] pc \in {"hash", "read", "store"} -> {"daily", "gendocs", "embedDocs"}
    [] pc = "embedCode" -> {"daily", "bootstrap", "embedCode"}
    [] pc \in {"drop", "embedKnowledge"} -> {"bootstrap", "embedDocs"}
    [] pc \in {"list", "clear", "embedGenerated"} -> {"daily", "embedDocs"}
    [] pc = "load" -> {"reindex"}
    [] pc = "unvector" -> {"reindex", "delete"}
    [] pc \in {"embedOne", "insert"} -> {"upload", "reindex"}
    [] pc = "remove" -> {"delete"}

\* Documents that are listed have a text, unless it is still to be read; the
\* chunk at work is one the text has.
JobOK(w) ==
  /\ w.op \in OpsAt(w.pc)
  /\ (w.pc \in {"read", "store"} \/ (w.pc = "embedCode" /\ w.op = "daily")) => w.repo \in Cloned
  /\ w.pc = "store" => w.src # 0
  /\ w.pc # "load" /\ w.op # "delete" => \A d \in w.docs : w.text[d] # 0
  /\ w.pc \in {"load", "unvector", "remove"} =>
       (\E d \in DocIds : w.docs = {d}) /\ \A e \in DocIds \ w.docs : w.text[e] = 0
  /\ w.pc \in {"clear", "embedGenerated"} => w.docs \subseteq Generated
  /\ w.pc = "insert" => w.docs = {}
  /\ w.op = "bootstrap" \/ w.pc = "embedKnowledge" => w.docs \subseteq Flows
  /\ w.pc \in {"embedOne", "insert"} => \E d \in DocIds : w.text[d] # 0
  /\ w.at = None => w.chunk = 1
  /\ w.at # None => w.pc \in EmbedPc /\ w.at \in w.docs /\ w.chunk <= Chunks[w.text[w.at]]

TypeInv ==
  /\ TypeOK
  /\ \A r \in Repos : origin[r] # 0 /\ tree[r] <= origin[r] /\ code[r] <= tree[r]
  /\ \A j \in Jobs : JobOK(job[j])

\* The label of a snapshot is not older than what was scanned, nor newer than
\* the checkout; a scan not labelled yet is of the checkout.
Honest(e, r) ==
  /\ e.src <= e.sha /\ e.sha <= tree[r]
  /\ r \notin slipped => e.src = e.sha

LabelInv ==
  /\ \A s \in {file, served, graph}, r \in Repos : Honest(s[r], r)
  /\ \A j \in Jobs, r \in Repos :
       IF At(j, "label")
       THEN job[j].bundle[r].src <= tree[r] /\ (r \notin slipped => job[j].bundle[r].src = tree[r])
       ELSE Honest(job[j].bundle[r], r)

\* A job that is alone in the window, and the only one in it while nothing is
\* torn, has made the file, the handle and the graph equal as far as it is.
Orderly(j) ==
  /\ At(j, "swap") => job[j].bundle = file
  /\ At(j, "edges") => served = file
  /\ At(j, "graph") => served = file /\ job[j].bundle = file

ServedInv ==
  /\ PublishedIsServed
  /\ \A j \in Jobs : job[j].lone => InWindow(j) /\ \A k \in Jobs \ {j} : ~InWindow(k)
  /\ ~torn => \A j, k \in Jobs : InWindow(j) /\ InWindow(k) => j = k
  /\ \A j \in Jobs : ~torn \/ (job[j].lone /\ job[j].op # "graph") => Orderly(j)

\* A daily sync past its publication has the code of r to embed.
Plans(w, r) ==
  /\ w.op = "daily"
  /\ \/ w.pc \in Window /\ r \in w.done
     \/ w.pc \in {"hash", "read", "store", "embedCode"} /\ r \in w.todo
Planned(r) == \E j \in Jobs : Plans(job[j], r)

PlanInv ==
  \A r \in Repos \ unplanned :
    code[r] # tree[r] /\ ~Planned(r) =>
      /\ file[r].sha # tree[r] /\ served[r].sha # tree[r]
      /\ \A j \in Jobs : At(j, "swap") => job[j].bundle[r].sha # tree[r]

\* A generated document's marker is the hash of the revision its text was written
\* from, or of one before.
Hashes(n, h) == \E t \in 1..n : Digest[t] = h

FreshInv ==
  /\ \A r \in Repos : row[r].text # 0 => Hashes(row[r].text, row[r].hash)
  /\ \A j \in Jobs :
       /\ At(j, "read") => Hashes(tree[job[j].repo], job[j].hash)
       /\ At(j, "store") => Hashes(job[j].src, job[j].hash)
       /\ At(j, "load") => \A d \in DocIds : job[j].text[d] = 0
       /\ job[j].pc \in {"unvector", "embedOne", "insert"} =>
            \A r \in Repos : job[j].text[r] # 0 => Hashes(job[j].text[r], job[j].hash)

\* What an operation that is alone has done so far: w is its job.
Listed(w, S) == \A d \in S : w.text[d] = row[d].text
VectorOf(w, d) == IF w.pc = "embedKnowledge" THEN FrontId[d] ELSE d

KnowledgeIn(w) ==
  \A f \in Flows : Stored(f) /\ Unshared(f) /\ ~(w.pc = "embedKnowledge" /\ f \in w.docs) =>
    Whole(FrontId[f], row[f].text)

NothingElse == \A d \in DocIds : ~Stored(d) /\ Unshared(d) => vector[d] = NoVectors
Dropped == \A d \in Generated : Unshared(d) => vector[d] = NoVectors

Progress(w) ==
  /\ w.op = "bootstrap" /\ w.pc # "embedCode" => Listed(w, Flows)
  /\ w.op = "bootstrap" /\ w.pc \notin {"embedKnowledge", "embedCode"} => StoredIn(Flows) \subseteq w.docs
  /\ w.pc = "embedKnowledge" => Listed(w, Flows) /\ KnowledgeIn(w) /\ NothingElse /\ Dropped
  /\ w.op = "embedDocs" /\ w.pc \in {"list", "clear", "embedGenerated"} => KnowledgeIn(w) /\ NothingElse
  /\ w.pc \in {"clear", "embedGenerated"} => Listed(w, Generated)
  /\ w.pc = "clear" => StoredIn(Generated) \subseteq w.docs
  /\ w.pc = "embedGenerated" => \A d \in Generated \ w.docs :
       Stored(d) /\ Unshared(d) => Whole(d, row[d].text)
  /\ w.pc \in {"embedOne", "insert"} => \A d \in DocIds \ w.docs :
       w.text[d] # 0 => Whole(d, w.text[d])
  /\ w.pc = "remove" => \A d \in w.docs : vector[d] = NoVectors
  /\ w.at # None => \A k \in 1..(w.chunk - 1) : vector[VectorOf(w, w.at)][k] = w.text[w.at]

\* Documents an operation has touched are not clean before it ends.
Quiet(w) ==
  /\ w.pc = "remove" => w.docs \cap clean = {}
  /\ w.pc \in {"embedOne", "insert"} => \A d \in clean \ w.docs : w.text[d] = 0

SearchInv ==
  /\ CleanIsSearchable
  /\ \A j \in Jobs : OnDocuments(j) /\ job[j].alone =>
       Progress(job[j]) /\ \A k \in Jobs \ {j} : ~OnDocuments(k)
  /\ \A j \in Jobs : Quiet(job[j])

IInv ==
  /\ TypeInv /\ LabelInv /\ ServedInv /\ PlanInv /\ FreshInv /\ SearchInv
-----------------------------------------------------------------------------
(* Types.                                                                  *)

\* Job j takes a step to x; the others may lose that they are alone.
Goes(j, x) ==
  /\ job' = [k \in Jobs |-> job'[k]] /\ job'[j] = x
  /\ \A k \in Jobs \ {j} : \E l \in BOOLEAN, a \in BOOLEAN :
       /\ job'[k] = [job[k] EXCEPT !.lone = l, !.alone = a]
       /\ (l => job[k].lone) /\ (a => job[k].alone)

LEMMA Bounds ==
  /\ 0 \in Revision /\ 0 \in Text /\ 1 \in 1..MaxChunks
  /\ Revision \subseteq Text /\ Revision \subseteq Nat /\ Text \subseteq Nat
  /\ \A t \in Text \ {0} : t \in 1..MaxText /\ Chunks[t] \in 1..MaxChunks
  /\ None \notin Repos /\ None \notin DocIds
BY SizeAssumption, ChunkAssumption, IdAssumption DEF Revision, Text, DocIds

LEMMA IdleJob == Idle \in Job /\ JobOK(Idle) /\ NoSnapshot \in Snapshot
<1>1. NoSnapshot \in Snapshot
  BY Bounds DEF NoSnapshot, Snapshot
<1>2. Idle \in Job
  BY <1>1, Bounds DEF Idle, Job, Ops, Pc
<1> QED
  BY <1>1, <1>2 DEF Idle, JobOK, OpsAt

LEMMA TypeStart == ASSUME Init PROVE TypeInv
<1>1. StructureTypeOK
  <2>1. 1 \in Revision
    BY SizeAssumption DEF Revision
  <2> QED
    BY <2>1, IdleJob, Bounds DEF Init, StructureInit, StructureTypeOK
<1>2. DocumentTypeOK
  BY Bounds DEF Init, DocumentInit, DocumentTypeOK, NoRow, Row, NoVectors
<1>3. TypeOK
  BY <1>1, <1>2, MaxOpsAssumption DEF TypeOK, Init
<1> QED
  BY <1>3, IdleJob, SizeAssumption DEF TypeInv, Init, StructureInit

\* A job record with other flags.
LEMMA Flags ==
  ASSUME NEW w \in Job, JobOK(w), NEW l \in BOOLEAN, NEW a \in BOOLEAN
  PROVE  [w EXCEPT !.lone = l, !.alone = a] \in Job /\ JobOK([w EXCEPT !.lone = l, !.alone = a])
<1>1. PICK x : x = [w EXCEPT !.lone = l, !.alone = a]
  OBVIOUS
<1>2. x \in Job
  BY <1>1 DEF Job
<1>3. /\ x.op = w.op /\ x.pc = w.pc /\ x.repo = w.repo /\ x.src = w.src /\ x.docs = w.docs
      /\ x.text = w.text /\ x.at = w.at /\ x.chunk = w.chunk
  BY <1>1 DEF Job
<1>4. JobOK(x)
  BY <1>3 DEF JobOK
<1> QED
  BY <1>1, <1>2, <1>4

LEMMA SoleStep ==
  ASSUME TypeInv, NEW j \in Jobs, NEW x, job' = [job EXCEPT ![j] = x]
  PROVE  Goes(j, x) /\ \A k \in Jobs \ {j} : job'[k] = job[k]
<1>1. /\ job' = [k \in Jobs |-> job'[k]] /\ job'[j] = x
      /\ \A k \in Jobs \ {j} : job'[k] = job[k]
  BY DEF TypeInv, TypeOK, StructureTypeOK
<1>2. ASSUME NEW k \in Jobs \ {j}
      PROVE  \E l \in BOOLEAN, a \in BOOLEAN :
               /\ job'[k] = [job[k] EXCEPT !.lone = l, !.alone = a]
               /\ (l => job[k].lone) /\ (a => job[k].alone)
  <2>1. job[k] \in Job
    BY DEF TypeInv, TypeOK, StructureTypeOK
  <2>2. /\ job[k].lone \in BOOLEAN /\ job[k].alone \in BOOLEAN
        /\ job[k] = [job[k] EXCEPT !.lone = job[k].lone, !.alone = job[k].alone]
    BY <2>1 DEF Job
  <2> QED
    BY <1>1, <2>2
<1> QED
  BY <1>1, <1>2 DEF Goes

\* The checkouts only grow.
LEMMA JobsType ==
  ASSUME TypeInv, NEW j \in Jobs, NEW x \in Job, JobOK(x)', Goes(j, x), Cloned \subseteq Cloned'
  PROVE  job' \in [Jobs -> Job] /\ \A k \in Jobs : JobOK(job[k])'
<1>1. ASSUME NEW k \in Jobs \ {j} PROVE job'[k] \in Job /\ JobOK(job'[k])
  <2>1. job[k] \in Job /\ JobOK(job[k])
    BY DEF TypeInv, TypeOK, StructureTypeOK
  <2>2. PICK l \in BOOLEAN, a \in BOOLEAN : job'[k] = [job[k] EXCEPT !.lone = l, !.alone = a]
    BY DEF Goes
  <2>3. PICK w \in Job : w = job[k] /\ JobOK(w)
    BY <2>1
  <2>4. [w EXCEPT !.lone = l, !.alone = a] \in Job /\ JobOK([w EXCEPT !.lone = l, !.alone = a])
    BY <2>3, Flags
  <2>5. job'[k] = [w EXCEPT !.lone = l, !.alone = a]
    BY <2>2, <2>3
  <2> QED
    BY <2>4, <2>5, Zenon
<1>2. ASSUME NEW w, JobOK(w) PROVE JobOK(w)'
  BY <1>2 DEF JobOK
<1>3. ASSUME NEW k \in Jobs PROVE job'[k] \in Job /\ JobOK(job[k])'
  <2>1. CASE k = j
    BY <2>1 DEF Goes
  <2>2. CASE k # j
    <3>1. PICK w : w = job'[k]
      OBVIOUS
    <3>2. JobOK(w)'
      BY <1>1, <1>2, <2>2, <3>1
    <3> QED
      BY <1>1, <2>2, <3>1, <3>2
  <2> QED
    BY <2>1, <2>2
<1> QED
  BY <1>3 DEF Goes
\* Steps that change no more than jobs.
LEMMA TypeFrame ==
  ASSUME TypeInv, NEW j \in Jobs, NEW x \in Job, JobOK(x), Goes(j, x),
         UNCHANGED <<structureVars, documentVars>>, started' \in 0..MaxOps
  PROVE  TypeInv'
<1>1. Cloned' = Cloned
  BY DEF Cloned, structureVars
<1>2. JobOK(x)'
  BY <1>1 DEF JobOK
<1>3. job' \in [Jobs -> Job] /\ \A k \in Jobs : JobOK(job[k])'
  BY <1>1, <1>2, JobsType
<1>4. TypeOK'
  BY <1>3 DEF TypeInv, TypeOK, StructureTypeOK, DocumentTypeOK, structureVars, documentVars, historyVars
<1> QED
  BY <1>3, <1>4 DEF TypeInv, structureVars

LEMMA EndGoes ==
  ASSUME TypeInv, NEW j \in Jobs, End(j)
  PROVE  Goes(j, Idle) /\ \A k \in Jobs \ {j} : job'[k] = job[k]
BY SoleStep DEF End

LEMMA GotoGoes ==
  ASSUME TypeInv, NEW j \in Jobs, NEW pc, Goto(j, pc)
  PROVE  /\ Goes(j, [job[j] EXCEPT !.pc = pc])
         /\ \A k \in Jobs \ {j} : job'[k] = job[k]
BY SoleStep DEF Goto

LEMMA JobType ==
  ASSUME TypeInv, NEW j \in Jobs
  PROVE  job[j] \in Job /\ JobOK(job[j])
BY DEF TypeInv, TypeOK, StructureTypeOK

LEMMA Revisions ==
  ASSUME TypeInv, NEW r \in Repos
  PROVE  /\ origin[r] \in Nat /\ tree[r] \in Nat /\ code[r] \in Nat
         /\ origin[r] # 0 /\ code[r] <= tree[r] /\ tree[r] <= origin[r]
BY Bounds DEF TypeInv, TypeOK, StructureTypeOK

LEMMA CommitType ==
  ASSUME TypeInv, NEW r \in Repos, Commit(r), UNCHANGED <<documentVars, started>>
  PROVE  TypeInv'
<1>1. origin' \in [Repos -> Revision] /\ \A s \in Repos : origin[s] <= origin'[s]
  BY SizeAssumption DEF Commit, TypeInv, TypeOK, StructureTypeOK, Revision
<1>2. TypeOK'
  BY <1>1 DEF Commit, TypeInv, TypeOK, StructureTypeOK, DocumentTypeOK, documentVars, historyVars
<1>3. ASSUME NEW k \in Jobs PROVE JobOK(job[k])'
  BY DEF Commit, TypeInv, JobOK, Cloned
<1>4. ASSUME NEW s \in Repos PROVE origin'[s] # 0 /\ tree'[s] <= origin'[s] /\ code'[s] <= tree'[s]
  <2>1. origin'[s] \in Nat /\ origin[s] <= origin'[s] /\ tree' = tree /\ code' = code
    BY <1>1, Bounds DEF Commit
  <2> QED
    BY <2>1, Revisions
<1> QED
  BY <1>2, <1>3, <1>4 DEF TypeInv

LEMMA FetchType ==
  ASSUME TypeInv, NEW j \in Jobs, Fetch(j), UNCHANGED <<documentVars, started>>
  PROVE  /\ TypeInv' /\ \A s \in Repos : tree[s] <= tree'[s]
         /\ \A k \in Jobs \ {j} : job'[k] = job[k]
<1>1. PICK r \in job[j].todo :
        \/ /\ tree' = [tree EXCEPT ![r] = origin[r]]
           /\ job' = [job EXCEPT ![j].todo = @ \ {r}, ![j].done = @ \cup {r}]
        \/ /\ IF job[j].op = "push" THEN End(j)
              ELSE job' = [job EXCEPT ![j].todo = @ \ {r}]
           /\ UNCHANGED tree
  BY DEF Fetch
<1>2. job[j] \in Job /\ JobOK(job[j]) /\ r \in Repos /\ job[j].pc = "fetch"
  BY <1>1, JobType DEF Fetch, At, Job
<1>3. tree' \in [Repos -> Revision] /\ \A s \in Repos : tree[s] <= tree'[s] /\ tree'[s] <= origin[s]
  BY <1>1, <1>2, Bounds DEF TypeInv, TypeOK, StructureTypeOK
<1>4. Cloned \subseteq Cloned'
  <2>1. ASSUME NEW s \in Repos, tree[s] > 0 PROVE tree'[s] > 0
    <3>1. tree'[s] \in Nat /\ tree[s] <= tree'[s]
      BY <1>3, Bounds
    <3> QED
      BY <2>1, <3>1, Revisions
  <2> QED
    BY <2>1 DEF Cloned
<1>5. PICK x : /\ x \in {Idle, [job[j] EXCEPT !.todo = @ \ {r}, !.done = @ \cup {r}],
                         [job[j] EXCEPT !.todo = @ \ {r}]}
               /\ job' = [job EXCEPT ![j] = x]
  BY <1>1, <1>2 DEF End, TypeInv, TypeOK, StructureTypeOK
<1>6. x \in Job
  <2>1. job[j].todo \ {r} \in SUBSET Repos /\ job[j].done \cup {r} \in SUBSET Repos
    BY <1>2 DEF Job
  <2>2. CASE x = [job[j] EXCEPT !.todo = @ \ {r}, !.done = @ \cup {r}]
    BY <1>2, <2>1, <2>2 DEF Job
  <2>3. CASE x = [job[j] EXCEPT !.todo = @ \ {r}]
    BY <1>2, <2>1, <2>3 DEF Job
  <2> QED
    BY <1>5, <2>2, <2>3, IdleJob
<1>7. x = Idle \/ (/\ x.op = job[j].op /\ x.pc = "fetch" /\ x.repo = job[j].repo
                   /\ x.src = job[j].src /\ x.docs = job[j].docs
                   /\ x.text = job[j].text /\ x.at = job[j].at /\ x.chunk = job[j].chunk)
  BY <1>2, <1>5 DEF Job
<1>8. JobOK(x)
  BY <1>2, <1>7, IdleJob DEF JobOK
<1>9. JobOK(x)'
  BY <1>4, <1>8 DEF JobOK
<1>10. Goes(j, x) /\ \A k \in Jobs \ {j} : job'[k] = job[k]
  BY <1>5, SoleStep
<1>11. job' \in [Jobs -> Job] /\ \A k \in Jobs : JobOK(job[k])'
  BY <1>4, <1>6, <1>9, <1>10, JobsType
<1>12. TypeOK'
  <2>1. slipped' \subseteq Repos
    BY <1>2 DEF Fetch, Job, TypeInv, TypeOK, StructureTypeOK
  <2> QED
    BY <1>3, <1>11, <2>1 DEF Fetch, TypeInv, TypeOK, StructureTypeOK, DocumentTypeOK, documentVars, historyVars
<1>13. ASSUME NEW s \in Repos PROVE origin'[s] # 0 /\ tree'[s] <= origin'[s] /\ code'[s] <= tree'[s]
  BY <1>3, Bounds DEF Fetch, TypeInv, TypeOK, StructureTypeOK
<1> QED
  BY <1>3, <1>10, <1>11, <1>12, <1>13 DEF TypeInv
LEMMA Snapshots ==
  ASSUME TypeInv, NEW b \in Snapshot
  PROVE  Scanned \in Snapshot /\ Labelled(b) \in Snapshot
<1>1. Scanned \in Snapshot
  BY Bounds DEF Scanned, Snapshot, TypeInv, TypeOK, StructureTypeOK
<1>2. ASSUME NEW r \in Repos
      PROVE  [b[r] EXCEPT !.sha = IF b[r].src = 0 THEN 0 ELSE tree[r]] \in [sha: Revision, src: Revision]
  <2>1. b[r] \in [sha: Revision, src: Revision] /\ tree[r] \in Revision
    BY DEF Snapshot, TypeInv, TypeOK, StructureTypeOK
  <2> QED
    BY <2>1, Bounds
<1>3. Labelled(b) \in Snapshot
  BY <1>2 DEF Labelled, Snapshot
<1> QED
  BY <1>1, <1>3

\* A step to the same documents, none of them half embedded.
SameDocs(x, w) ==
  /\ x.op = w.op /\ x.repo = w.repo /\ x.src = w.src
  /\ x.docs = w.docs /\ x.text = w.text /\ x.at = w.at /\ x.chunk = w.chunk

LEMMA EndJob ==
  ASSUME NEW j \in Jobs, End(j)
  PROVE  \E x \in Job : JobOK(x) /\ job' = [job EXCEPT ![j] = x] /\ x = Idle
<1>1. PICK x : x = Idle
  OBVIOUS
<1>2. x \in Job /\ JobOK(x) /\ job' = [job EXCEPT ![j] = x]
  BY <1>1, IdleJob DEF End
<1> QED
  BY <1>1, <1>2

\* A step towards a publication.
Indexes(x, w) ==
  /\ SameDocs(x, w) /\ x.lone = w.lone /\ x.alone = w.alone
  /\ \/ w.pc \in {"fetch", "detect"} /\ x.pc \in {"detect", "scan"} /\ x.bundle = w.bundle
     \/ w.pc = "scan" /\ x.pc = "label" /\ x.bundle = Scanned
     \/ w.pc = "label" /\ x.pc = "rename" /\ x.bundle = Labelled(w.bundle)

LEMMA RebuildJob ==
  ASSUME TypeInv, NEW j \in Jobs,
         Fetched(j) \/ Detect(j) \/ Scan(j) \/ Label(j)
  PROVE  /\ job[j].pc \in {"fetch", "detect", "scan", "label"}
         /\ \E x \in Job :
              /\ JobOK(x) /\ job' = [job EXCEPT ![j] = x]
              /\ x = Idle \/ Indexes(x, job[j])
<1>1. job[j] \in Job /\ JobOK(job[j])
  BY JobType
<1>2. job[j].pc \in {"fetch", "detect", "scan", "label"}
  BY DEF Fetched, Detect, Scan, Label, At
<1> SUFFICES \E x \in Job : /\ JobOK(x) /\ job' = [job EXCEPT ![j] = x]
                            /\ x = Idle \/ Indexes(x, job[j])
  BY <1>2
<1>3. CASE Fetched(j)
  <2>1. CASE job[j].op = "daily"
    <3>1. PICK x : x = [job[j] EXCEPT !.pc = "detect"]
      OBVIOUS
    <3>2. x \in Job /\ SameDocs(x, job[j]) /\ x.pc = "detect" /\ job[j].pc = "fetch" /\ Indexes(x, job[j])
      BY <1>1, <1>3, <3>1 DEF Job, Pc, SameDocs, Indexes, Fetched, At
    <3>3. JobOK(x)
      BY <1>1, <2>1, <3>2 DEF JobOK, SameDocs, OpsAt, EmbedPc
    <3>4. job' = [job EXCEPT ![j] = x]
      BY <1>3, <2>1, <3>1 DEF Fetched, Goto, TypeInv, TypeOK, StructureTypeOK
    <3> QED
      BY <3>2, <3>3, <3>4
  <2>2. CASE job[j].op = "push"
    <3>1. PICK x : x = [job[j] EXCEPT !.pc = "scan", !.done = {}]
      OBVIOUS
    <3>2. x \in Job /\ SameDocs(x, job[j]) /\ x.pc = "scan" /\ job[j].pc = "fetch" /\ Indexes(x, job[j])
      BY <1>1, <1>3, <3>1 DEF Job, Pc, SameDocs, Indexes, Fetched, At
    <3>3. JobOK(x)
      BY <1>1, <2>2, <3>2 DEF JobOK, SameDocs, OpsAt, EmbedPc
    <3>4. job' = [job EXCEPT ![j] = x]
      BY <1>3, <2>2, <3>1 DEF Fetched, TypeInv, TypeOK, StructureTypeOK
    <3> QED
      BY <3>2, <3>3, <3>4
  <2>3. CASE job[j].op \notin {"daily", "push"}
    BY <1>3, <2>3, EndJob DEF Fetched
  <2> QED
    BY <2>1, <2>2, <2>3
<1>4. CASE Detect(j)
  <2>1. PICK changed : /\ changed \subseteq job[j].done
                       /\ \/ End(j)
                          \/ job' = [job EXCEPT ![j].pc = "scan", ![j].done = changed]
    BY <1>4 DEF Detect
  <2>2. CASE End(j)
    BY <2>2, EndJob
  <2>3. CASE job' = [job EXCEPT ![j].pc = "scan", ![j].done = changed]
    <3>1. PICK x : x = [job[j] EXCEPT !.pc = "scan", !.done = changed]
      OBVIOUS
    <3>2. x \in Job /\ SameDocs(x, job[j]) /\ x.pc = "scan" /\ job[j].pc = "detect" /\ Indexes(x, job[j])
      BY <1>1, <1>4, <2>1, <3>1 DEF Job, Pc, SameDocs, Indexes, Detect, At
    <3>3. JobOK(x)
      BY <1>1, <3>2 DEF JobOK, SameDocs, OpsAt, EmbedPc
    <3>4. job' = [job EXCEPT ![j] = x]
      BY <2>3, <3>1 DEF TypeInv, TypeOK, StructureTypeOK
    <3> QED
      BY <3>2, <3>3, <3>4
  <2> QED
    BY <2>1, <2>2, <2>3
<1>5. CASE Scan(j)
  <2>1. PICK x : x = [job[j] EXCEPT !.pc = "label", !.bundle = Scanned]
    OBVIOUS
  <2>2. x \in Job /\ SameDocs(x, job[j]) /\ x.pc = "label" /\ job[j].pc = "scan" /\ Indexes(x, job[j])
    BY <1>1, <1>5, <2>1, IdleJob, Snapshots DEF Job, Pc, SameDocs, Indexes, Scan, At
  <2>3. JobOK(x)
    BY <1>1, <2>2 DEF JobOK, SameDocs, OpsAt, EmbedPc
  <2>4. job' = [job EXCEPT ![j] = x]
    BY <1>5, <2>1 DEF Scan, TypeInv, TypeOK, StructureTypeOK
  <2> QED
    BY <2>2, <2>3, <2>4
<1>6. CASE Label(j)
  <2>1. CASE End(j)
    BY <2>1, EndJob
  <2>2. CASE ~End(j)
    <3>1. PICK x : x = [job[j] EXCEPT !.pc = "rename", !.bundle = Labelled(job[j].bundle)]
      OBVIOUS
    <3>2. Labelled(job[j].bundle) \in Snapshot
      BY <1>1, Snapshots DEF Job
    <3>3. x \in Job /\ SameDocs(x, job[j]) /\ x.pc = "rename" /\ job[j].pc = "label" /\ Indexes(x, job[j])
      BY <1>1, <1>6, <3>1, <3>2 DEF Job, Pc, SameDocs, Indexes, Label, At
    <3>4. JobOK(x)
      BY <1>1, <3>3 DEF JobOK, SameDocs, OpsAt, EmbedPc
    <3>5. job' = [job EXCEPT ![j] = x]
      BY <1>6, <2>2, <3>1 DEF Label, TypeInv, TypeOK, StructureTypeOK
    <3> QED
      BY <3>3, <3>4, <3>5
  <2> QED
    BY <2>1, <2>2
<1> QED
  BY <1>3, <1>4, <1>5, <1>6
LEMMA EnterGoes ==
  ASSUME TypeInv, NEW j \in Jobs, NEW pc, Enter(j, pc)
  PROVE  /\ Goes(j, [job[j] EXCEPT !.pc = pc, !.lone = \A i \in Jobs : ~InWindow(i)])
         /\ \A k \in Jobs \ {j} : job'[k] = [job[k] EXCEPT !.lone = FALSE]
<1>1. /\ job' = [k \in Jobs |-> job'[k]]
      /\ job'[j] = [job[j] EXCEPT !.pc = pc, !.lone = \A i \in Jobs : ~InWindow(i)]
      /\ \A k \in Jobs \ {j} : job'[k] = [job[k] EXCEPT !.lone = FALSE]
  BY DEF Enter
<1>2. ASSUME NEW k \in Jobs \ {j}
      PROVE  \E l \in BOOLEAN, a \in BOOLEAN :
               /\ job'[k] = [job[k] EXCEPT !.lone = l, !.alone = a]
               /\ (l => job[k].lone) /\ (a => job[k].alone)
  <2>1. job[k] \in Job
    BY JobType
  <2>2. PICK w \in Job : w = job[k]
    BY <2>1
  <2>3. w.alone \in BOOLEAN
    BY DEF Job
  <2>4. [w EXCEPT !.lone = FALSE] = [w EXCEPT !.lone = FALSE, !.alone = w.alone]
    BY DEF Job
  <2>5. job'[k] = [w EXCEPT !.lone = FALSE]
    BY <1>1, <2>2
  <2>6. job'[k] = [w EXCEPT !.lone = FALSE, !.alone = w.alone]
    BY <2>4, <2>5, Zenon
  <2> QED
    BY <2>2, <2>3, <2>6
<1> QED
  BY <1>1, <1>2 DEF Goes

\* The steps from the rename to the graph, and what they make of the job.
LEMMA RenameJob ==
  ASSUME TypeInv, NEW j \in Jobs, Rename(j)
  PROVE  /\ At(j, "rename") /\ UNCHANGED <<origin, tree, served, graph, code, slipped>>
         /\ \/ End(j) /\ UNCHANGED <<file, torn, unplanned>>
            \/ \E x \in Job :
                 /\ JobOK(x) /\ SameDocs(x, job[j]) /\ Goes(j, x) /\ x.pc = "open"
                 /\ x.bundle = job[j].bundle /\ x.done = job[j].done /\ x.alone = job[j].alone
                 /\ x.lone = (\A i \in Jobs : ~InWindow(i))
                 /\ \A k \in Jobs \ {j} : job'[k] = [job[k] EXCEPT !.lone = FALSE]
                 /\ file' = job[j].bundle /\ file' \in Snapshot
                 /\ torn' = (torn \/ \E k \in Jobs : InWindow(k))
                 /\ unplanned' = {r \in Repos :
                           IF file[r].sha = file'[r].sha THEN r \in unplanned
                           ELSE job[j].op # "daily" \/ r \notin job[j].done}
<1>1. /\ job[j] \in Job /\ JobOK(job[j]) /\ job[j].pc = "rename"
      /\ UNCHANGED <<origin, tree, served, graph, code, slipped>>
  BY JobType DEF Rename, At
<1>2. CASE End(j) /\ UNCHANGED <<file, torn, unplanned>>
  BY <1>1, <1>2 DEF At
<1>3. CASE ~(End(j) /\ UNCHANGED <<file, torn, unplanned>>)
  <2>1. PICK l \in BOOLEAN : l = (\A i \in Jobs : ~InWindow(i))
    OBVIOUS
  <2>2. PICK x : x = [job[j] EXCEPT !.pc = "open", !.lone = l]
    OBVIOUS
  <2>3. Enter(j, "open")
    BY <1>3 DEF Rename
  <2>4. Goes(j, x) /\ \A k \in Jobs \ {j} : job'[k] = [job[k] EXCEPT !.lone = FALSE]
    BY <2>1, <2>2, <2>3, EnterGoes
  <2>5. /\ x \in Job /\ SameDocs(x, job[j]) /\ x.pc = "open" /\ x.lone = l
        /\ x.bundle = job[j].bundle /\ x.done = job[j].done /\ x.alone = job[j].alone
    BY <1>1, <2>2 DEF Job, Pc, SameDocs
  <2>6. JobOK(x)
    BY <1>1, <2>5 DEF JobOK, SameDocs, OpsAt, EmbedPc
  <2>7. /\ file' = job[j].bundle /\ file' \in Snapshot
        /\ torn' = (torn \/ \E k \in Jobs : InWindow(k))
        /\ unplanned' = {r \in Repos :
                           IF file[r].sha = file'[r].sha THEN r \in unplanned
                           ELSE job[j].op # "daily" \/ r \notin job[j].done}
    BY <1>1, <1>3 DEF Rename, Enter, Job
  <2> QED
    BY <1>1, <2>1, <2>4, <2>5, <2>6, <2>7 DEF At
<1> QED
  BY <1>2, <1>3

LEMMA WindowJob ==
  ASSUME TypeInv, NEW j \in Jobs, Open(j) \/ Swap(j) \/ Edges(j)
  PROVE  /\ UNCHANGED <<origin, tree, file, graph, code, slipped>>
         /\ InWindow(j)
         /\ \/ Abandon(j) /\ served' = served
            \/ \E x \in Job :
                 /\ JobOK(x) /\ SameDocs(x, job[j]) /\ job' = [job EXCEPT ![j] = x]
                 /\ x.done = job[j].done /\ x.alone = job[j].alone /\ x.lone = job[j].lone
                 /\ UNCHANGED <<torn, unplanned>>
                 /\ \/ At(j, "open") /\ x.pc = "swap" /\ x.bundle = file /\ served' = served
                    \/ At(j, "swap") /\ x.pc = "edges" /\ x.bundle = job[j].bundle /\ served' = x.bundle
                    \/ At(j, "edges") /\ x.pc = "graph" /\ x.bundle = served /\ served' = served
<1>1. job[j] \in Job /\ JobOK(job[j]) /\ file \in Snapshot /\ served \in Snapshot
  BY JobType DEF TypeInv, TypeOK, StructureTypeOK
<1>2. UNCHANGED <<origin, tree, file, graph, code, slipped>> /\ InWindow(j)
  BY DEF Open, Swap, Edges, InWindow, Window, At
<1>3. CASE Abandon(j) /\ served' = served
  BY <1>2, <1>3
<1>4. CASE ~(Abandon(j) /\ served' = served)
  <2>1. CASE Open(j)
    <3>1. PICK x : x = [job[j] EXCEPT !.pc = "swap", !.bundle = file]
      OBVIOUS
    <3>2. /\ x \in Job /\ SameDocs(x, job[j]) /\ x.pc = "swap" /\ x.bundle = file
          /\ x.done = job[j].done /\ x.alone = job[j].alone /\ x.lone = job[j].lone
      BY <1>1, <3>1 DEF Job, Pc, SameDocs
    <3>3. job[j].pc = "open" /\ job' = [job EXCEPT ![j] = x] /\ UNCHANGED <<torn, unplanned, served>>
      BY <1>4, <2>1, <3>1 DEF Open, At, TypeInv, TypeOK, StructureTypeOK
    <3>4. JobOK(x)
      BY <1>1, <3>2, <3>3 DEF JobOK, SameDocs, OpsAt, EmbedPc
    <3> QED
      BY <1>2, <3>2, <3>3, <3>4 DEF At
  <2>2. CASE Swap(j)
    <3>1. PICK x : x = [job[j] EXCEPT !.pc = "edges"]
      OBVIOUS
    <3>2. /\ x \in Job /\ SameDocs(x, job[j]) /\ x.pc = "edges" /\ x.bundle = job[j].bundle
          /\ x.done = job[j].done /\ x.alone = job[j].alone /\ x.lone = job[j].lone
      BY <1>1, <3>1 DEF Job, Pc, SameDocs
    <3>3. /\ job[j].pc = "swap" /\ job' = [job EXCEPT ![j] = x] /\ UNCHANGED <<torn, unplanned>>
          /\ served' = x.bundle
      BY <2>2, <3>1, <3>2 DEF Swap, Goto, At, TypeInv, TypeOK, StructureTypeOK
    <3>4. JobOK(x)
      BY <1>1, <3>2, <3>3 DEF JobOK, SameDocs, OpsAt, EmbedPc
    <3> QED
      BY <1>2, <3>2, <3>3, <3>4 DEF At
  <2>3. CASE Edges(j)
    <3>1. PICK x : x = [job[j] EXCEPT !.pc = "graph", !.bundle = served]
      OBVIOUS
    <3>2. /\ x \in Job /\ SameDocs(x, job[j]) /\ x.pc = "graph" /\ x.bundle = served
          /\ x.done = job[j].done /\ x.alone = job[j].alone /\ x.lone = job[j].lone
      BY <1>1, <3>1 DEF Job, Pc, SameDocs
    <3>3. job[j].pc = "edges" /\ job' = [job EXCEPT ![j] = x] /\ UNCHANGED <<torn, unplanned, served>>
      BY <1>4, <2>3, <3>1 DEF Edges, At, TypeInv, TypeOK, StructureTypeOK
    <3>4. JobOK(x)
      BY <1>1, <3>2, <3>3 DEF JobOK, SameDocs, OpsAt, EmbedPc
    <3> QED
      BY <1>2, <3>2, <3>3, <3>4 DEF At
  <2> QED
    BY <2>1, <2>2, <2>3
<1> QED
  BY <1>3, <1>4
LEMMA GraphJob ==
  ASSUME TypeInv, NEW j \in Jobs, RebuildGraph(j)
  PROVE  /\ UNCHANGED <<origin, tree, file, served, code, slipped, unplanned>>
         /\ At(j, "graph") /\ graph' = job[j].bundle /\ graph' \in Snapshot
         /\ torn' = (torn /\ ~(job[j].lone /\ job[j].op # "graph"))
         /\ \E x \in Job :
              /\ JobOK(x) /\ job' = [job EXCEPT ![j] = x] /\ ~x.lone
              /\ \/ x = Idle /\ job[j].op # "daily"
                 \/ /\ x.pc = "hash" /\ x.op = "daily" /\ x.todo = job[j].done /\ x.done = {}
                    /\ SameDocs(x, job[j]) /\ x.alone = job[j].alone /\ x.bundle = NoSnapshot
                 \/ /\ x.pc = "drop" /\ x.op = "bootstrap"
                    /\ SameDocs(x, job[j]) /\ x.alone = job[j].alone /\ x.bundle = NoSnapshot
<1>1. job[j] \in Job /\ JobOK(job[j]) /\ job[j].pc = "graph"
  BY JobType DEF RebuildGraph, At
<1>2. /\ UNCHANGED <<origin, tree, file, served, code, slipped, unplanned>>
      /\ At(j, "graph") /\ graph' = job[j].bundle /\ graph' \in Snapshot
      /\ torn' = (torn /\ ~(job[j].lone /\ job[j].op # "graph"))
  BY <1>1 DEF RebuildGraph, Rebuild, Job
<1>3. CASE job[j].op = "daily"
  <2>1. PICK x : x = [job[j] EXCEPT !.pc = "hash", !.todo = job[j].done, !.done = {},
                                    !.bundle = NoSnapshot, !.lone = FALSE]
    OBVIOUS
  <2>2. /\ x \in Job /\ x.pc = "hash" /\ x.op = "daily" /\ x.todo = job[j].done /\ x.done = {}
        /\ SameDocs(x, job[j]) /\ x.alone = job[j].alone /\ x.bundle = NoSnapshot /\ ~x.lone
    BY <1>1, <1>3, <2>1, IdleJob, ZenonT(60) DEF Job, Pc, SameDocs
  <2>3. JobOK(x)
    BY <1>1, <2>2 DEF JobOK, SameDocs, OpsAt, EmbedPc
  <2>4. job' = [job EXCEPT ![j] = x]
    BY <1>3, <2>1 DEF RebuildGraph, TypeInv, TypeOK, StructureTypeOK
  <2> QED
    BY <1>2, <2>2, <2>3, <2>4
<1>4. CASE job[j].op = "bootstrap"
  <2>1. PICK x : x = [job[j] EXCEPT !.pc = "drop", !.bundle = NoSnapshot, !.lone = FALSE]
    OBVIOUS
  <2>2. /\ x \in Job /\ x.pc = "drop" /\ x.op = "bootstrap"
        /\ SameDocs(x, job[j]) /\ x.alone = job[j].alone /\ x.bundle = NoSnapshot /\ ~x.lone
    BY <1>1, <1>4, <2>1, IdleJob, ZenonT(60) DEF Job, Pc, SameDocs
  <2>3. JobOK(x)
    BY <1>1, <2>2 DEF JobOK, SameDocs, OpsAt, EmbedPc
  <2>4. job' = [job EXCEPT ![j] = x]
    BY <1>4, <2>1 DEF RebuildGraph, TypeInv, TypeOK, StructureTypeOK
  <2> QED
    BY <1>2, <2>2, <2>3, <2>4
<1>5. CASE job[j].op \notin {"daily", "bootstrap"}
  <2>1. PICK x \in Job : JobOK(x) /\ job' = [job EXCEPT ![j] = x] /\ x = Idle
    BY <1>5, EndJob DEF RebuildGraph
  <2>2. ~x.lone
    BY <2>1 DEF Idle
  <2> QED
    BY <1>2, <1>5, <2>1, <2>2
<1> QED
  BY <1>3, <1>4, <1>5

\* Steps that publish: only jobs and snapshots change.
LEMMA PublishFrame ==
  ASSUME TypeInv, NEW j \in Jobs, NEW x \in Job, JobOK(x), Goes(j, x),
         UNCHANGED <<origin, tree, code, slipped, documentVars>>, started' \in 0..MaxOps,
         file' \in Snapshot, served' \in Snapshot, graph' \in Snapshot,
         torn' \in BOOLEAN, unplanned' \subseteq Repos
  PROVE  TypeInv'
<1>1. Cloned' = Cloned
  BY DEF Cloned
<1>2. JobOK(x)'
  BY <1>1 DEF JobOK
<1>3. job' \in [Jobs -> Job] /\ \A k \in Jobs : JobOK(job[k])'
  BY <1>1, <1>2, JobsType
<1>4. TypeOK'
  BY <1>3 DEF TypeInv, TypeOK, StructureTypeOK, DocumentTypeOK, documentVars, historyVars
<1> QED
  BY <1>3, <1>4 DEF TypeInv

LEMMA StructureType ==
  ASSUME TypeInv, NEW j \in Jobs, StructureStep(j), UNCHANGED <<documentVars, started>>
  PROVE  TypeInv'
<1>1. /\ file \in Snapshot /\ served \in Snapshot /\ graph \in Snapshot /\ torn \in BOOLEAN
      /\ unplanned \subseteq Repos /\ started \in 0..MaxOps
      /\ job[j] \in Job /\ JobOK(job[j])
  BY JobType DEF TypeInv, TypeOK, StructureTypeOK
<1>2. CASE Fetch(j)
  BY <1>2, FetchType
<1>3. CASE Fetched(j) \/ Detect(j) \/ Scan(j) \/ Label(j)
  <2>1. PICK x \in Job : JobOK(x) /\ job' = [job EXCEPT ![j] = x]
    BY <1>3, RebuildJob
  <2>2. UNCHANGED structureVars
    BY <1>3 DEF Fetched, Detect, Scan, Label
  <2> QED
    BY <1>1, <2>1, <2>2, SoleStep, TypeFrame
<1>4. ASSUME Abandon(j), UNCHANGED <<origin, tree, file, served, graph, code, slipped>> PROVE TypeInv'
  <2>1. job[j].done \cup job[j].todo \subseteq Repos
    BY <1>1 DEF Job
  <2>2. unplanned' \subseteq Repos /\ torn' \in BOOLEAN
    BY <1>1, <1>4, <2>1 DEF Abandon, Pending
  <2>3. Goes(j, Idle)
    BY <1>4, EndGoes DEF Abandon
  <2> QED
    BY <1>1, <1>4, <2>2, <2>3, IdleJob, PublishFrame
<1>5. CASE Rename(j)
  <2>1. CASE End(j) /\ UNCHANGED <<file, torn, unplanned>>
    BY <1>1, <1>5, <2>1, EndGoes, IdleJob, RenameJob, PublishFrame
  <2>2. CASE ~(End(j) /\ UNCHANGED <<file, torn, unplanned>>)
    <3>1. PICK x \in Job : /\ JobOK(x) /\ Goes(j, x) /\ file' \in Snapshot
                           /\ torn' = (torn \/ \E k \in Jobs : InWindow(k))
                           /\ unplanned' = {r \in Repos :
                                IF file[r].sha = file'[r].sha THEN r \in unplanned
                                ELSE job[j].op # "daily" \/ r \notin job[j].done}
      BY <1>5, <2>2, RenameJob
    <3>2. unplanned' \subseteq Repos /\ torn' \in BOOLEAN
      BY <1>1, <3>1
    <3>3. UNCHANGED <<origin, tree, served, graph, code, slipped>>
      BY <1>5, RenameJob
    <3> QED
      BY <1>1, <3>1, <3>2, <3>3, PublishFrame
  <2> QED
    BY <2>1, <2>2
<1>6. CASE Open(j) \/ Swap(j) \/ Edges(j)
  <2>1. CASE Abandon(j) /\ served' = served
    BY <1>4, <1>6, <2>1, WindowJob
  <2>2. CASE ~(Abandon(j) /\ served' = served)
    <3>1. PICK x \in Job : /\ JobOK(x) /\ job' = [job EXCEPT ![j] = x]
                           /\ UNCHANGED <<torn, unplanned>>
                           /\ served' = x.bundle \/ served' = served
      BY <1>6, <2>2, WindowJob
    <3>2. served' \in Snapshot /\ Goes(j, x)
      BY <1>1, <3>1, SoleStep DEF Job
    <3> QED
      BY <1>1, <1>6, <3>1, <3>2, WindowJob, PublishFrame
  <2> QED
    BY <2>1, <2>2
<1>7. CASE RebuildGraph(j)
  <2>1. PICK x \in Job : JobOK(x) /\ job' = [job EXCEPT ![j] = x]
    BY <1>7, GraphJob
  <2>2. torn' \in BOOLEAN /\ Goes(j, x)
    BY <1>1, <1>7, <2>1, GraphJob, SoleStep
  <2> QED
    BY <1>1, <1>7, <2>1, <2>2, GraphJob, PublishFrame
<1> QED
  BY <1>2, <1>3, <1>5, <1>6, <1>7 DEF StructureStep
\* A step of a generation keeps the documents, snapshots and flags of its job.
Keeps(x, w) ==
  /\ x.op = w.op /\ x.docs = w.docs /\ x.text = w.text /\ x.at = w.at /\ x.chunk = w.chunk
  /\ x.bundle = w.bundle /\ x.lone = w.lone /\ x.alone = w.alone

Dealt(x, w, r) ==
  \/ x.pc = "embedCode" /\ x.op = "daily" /\ x.repo = r /\ x.todo = w.todo
  \/ x.pc = "hash" /\ x.op # "daily"

LEMMA AfterJob ==
  ASSUME TypeInv, NEW j \in Jobs, NEW next \in Job, Keeps(next, job[j]),
         next.todo = job[j].todo, next.repo \in Cloned, job[j].pc \in {"hash", "store"}
  PROVE  \E x \in Job : /\ x = AfterGeneration(j, next) /\ JobOK(x) /\ Keeps(x, job[j])
                        /\ Dealt(x, job[j], next.repo)
<1>1. job[j] \in Job /\ JobOK(job[j]) /\ next.repo \in Repos
  BY JobType DEF Cloned
<1>2. CASE job[j].op = "daily"
  <2>1. PICK x : x = [next EXCEPT !.pc = "embedCode"]
    OBVIOUS
  <2>2. x \in Job /\ Keeps(x, job[j]) /\ x.pc = "embedCode" /\ x.repo = next.repo /\ x.todo = job[j].todo
    BY <1>1, <2>1 DEF Job, Pc, Keeps
  <2>3. JobOK(x)
    BY <1>1, <1>2, <2>2 DEF JobOK, Keeps, OpsAt, EmbedPc
  <2>4. x.op = "daily" /\ x = AfterGeneration(j, next)
    BY <1>2, <2>1, <2>2 DEF AfterGeneration, Keeps
  <2> QED
    BY <2>2, <2>3, <2>4 DEF Dealt
<1>3. CASE job[j].op # "daily"
  <2>1. PICK x : x = [next EXCEPT !.pc = "hash", !.todo = @ \ {next.repo}, !.repo = None]
    OBVIOUS
  <2>2. next.todo \ {next.repo} \in SUBSET Repos
    BY DEF Job
  <2>3. x \in Job /\ Keeps(x, job[j]) /\ x.pc = "hash"
    BY <1>1, <2>1, <2>2 DEF Job, Pc, Keeps
  <2>4. JobOK(x)
    <3>1. job[j].op \in {"gendocs", "embedDocs"}
      BY <1>1, <1>3 DEF JobOK, OpsAt
    <3>2. x.op \in OpsAt(x.pc)
      BY <2>3, <3>1 DEF Keeps, OpsAt
    <3>3. job[j].at = None
      BY <1>1 DEF JobOK, EmbedPc
    <3> QED
      BY <1>1, <2>3, <3>1, <3>2, <3>3 DEF JobOK, Keeps
  <2>5. x.op # "daily" /\ x = AfterGeneration(j, next)
    BY <1>3, <2>1, <2>3 DEF AfterGeneration, Skip, Keeps
  <2> QED
    BY <2>3, <2>4, <2>5 DEF Dealt
<1> QED
  BY <1>2, <1>3

LEMMA HashJob ==
  ASSUME TypeInv, NEW j \in Jobs, Hash(j)
  PROVE  /\ UNCHANGED <<structureVars, documentVars>> /\ At(j, "hash")
         /\ \E r \in job[j].todo \cap Cloned : \E x \in Job :
              /\ JobOK(x) /\ job' = [job EXCEPT ![j] = x] /\ Keeps(x, job[j])
              /\ \/ Dealt(x, job[j], r)
                 \/ x.pc = "read" /\ x.repo = r /\ x.hash = Digest[tree[r]] /\ x.todo = job[j].todo
<1>1. PICK r \in job[j].todo \cap Cloned :
        job' = [job EXCEPT ![j] =
                 IF row[r].hash = Digest[tree[r]]
                 THEN AfterGeneration(j, [job[j] EXCEPT !.repo = r, !.hash = 0])
                 ELSE [[job[j] EXCEPT !.repo = r, !.hash = 0] EXCEPT
                         !.pc = "read", !.hash = Digest[tree[r]]]]
  BY DEF Hash
<1>2. job[j] \in Job /\ JobOK(job[j]) /\ job[j].pc = "hash" /\ r \in Repos
      /\ Digest[tree[r]] \in Revision
  <2>1. r \in Repos /\ tree[r] > 0 /\ tree[r] \in Revision
    BY DEF Cloned, TypeInv, TypeOK, StructureTypeOK
  <2>2. tree[r] \in 1..MaxCommits
    BY <2>1, SizeAssumption DEF Revision
  <2>3. Digest[tree[r]] \in Revision
    BY <2>2, DigestAssumption, SizeAssumption DEF Revision
  <2> QED
    BY <2>1, <2>3, JobType DEF Hash, At
<1>3. UNCHANGED <<structureVars, documentVars>> /\ At(j, "hash")
  BY DEF Hash
<1>4. PICK next : next = [job[j] EXCEPT !.repo = r, !.hash = 0]
  OBVIOUS
<1>5. /\ next \in Job /\ Keeps(next, job[j]) /\ next.todo = job[j].todo /\ next.repo = r
  BY <1>2, <1>4, Bounds DEF Job, Keeps
<1>6. CASE row[r].hash = Digest[tree[r]]
  <2>1. PICK x \in Job : /\ x = AfterGeneration(j, next) /\ JobOK(x) /\ Keeps(x, job[j])
                         /\ Dealt(x, job[j], r)
    BY <1>2, <1>5, AfterJob
  <2>2. job' = [job EXCEPT ![j] = x]
    BY <1>1, <1>4, <1>6, <2>1
  <2> QED
    BY <1>3, <2>1, <2>2
<1>7. CASE row[r].hash # Digest[tree[r]]
  <2>1. PICK x : x = [next EXCEPT !.pc = "read", !.hash = Digest[tree[r]]]
    OBVIOUS
  <2>2. /\ x \in Job /\ Keeps(x, job[j]) /\ x.pc = "read" /\ x.repo = r
        /\ x.hash = Digest[tree[r]] /\ x.todo = job[j].todo
    BY <1>2, <1>5, <2>1, ZenonT(60) DEF Job, Pc, Keeps
  <2>3. JobOK(x)
    BY <1>2, <2>2 DEF JobOK, Keeps, OpsAt, EmbedPc
  <2>4. job' = [job EXCEPT ![j] = x]
    BY <1>1, <1>4, <1>7, <2>1
  <2> QED
    BY <1>3, <2>2, <2>3, <2>4
<1> QED
  BY <1>6, <1>7

LEMMA ReadJob ==
  ASSUME TypeInv, NEW j \in Jobs, Read(j)
  PROVE  /\ UNCHANGED <<structureVars, documentVars>> /\ At(j, "read")
         /\ \E x \in Job :
              /\ JobOK(x) /\ job' = [job EXCEPT ![j] = x] /\ Keeps(x, job[j])
              /\ x.pc = "store" /\ x.src = tree[job[j].repo] /\ x.hash = job[j].hash
              /\ x.repo = job[j].repo /\ x.todo = job[j].todo
<1>1. job[j] \in Job /\ JobOK(job[j]) /\ job[j].pc = "read" /\ UNCHANGED <<structureVars, documentVars>>
  BY JobType DEF Read, At
<1>2. job[j].repo \in Cloned
  BY <1>1 DEF JobOK
<1>3. tree[job[j].repo] \in Text /\ tree[job[j].repo] # 0
  <2>1. job[j].repo \in Repos /\ tree[job[j].repo] > 0
    BY <1>2 DEF Cloned
  <2>2. tree[job[j].repo] \in Revision
    BY <2>1 DEF TypeInv, TypeOK, StructureTypeOK
  <2>3. PICK t : t = tree[job[j].repo]
    OBVIOUS
  <2>4. t \in Text /\ t \in Nat /\ t > 0
    BY <2>1, <2>2, <2>3, Bounds
  <2> QED
    BY <2>3, <2>4
<1>4. PICK x : x = [job[j] EXCEPT !.pc = "store", !.src = tree[job[j].repo]]
  OBVIOUS
<1>5. /\ x \in Job /\ Keeps(x, job[j]) /\ x.pc = "store" /\ x.src = tree[job[j].repo]
      /\ x.hash = job[j].hash /\ x.repo = job[j].repo /\ x.todo = job[j].todo
  BY <1>1, <1>3, <1>4 DEF Job, Pc, Keeps
<1>6. JobOK(x)
  BY <1>1, <1>2, <1>3, <1>5 DEF JobOK, Keeps, OpsAt, EmbedPc
<1>7. job' = [job EXCEPT ![j] = x]
  BY <1>4 DEF Read, TypeInv, TypeOK, StructureTypeOK
<1> QED
  BY <1>1, <1>5, <1>6, <1>7 DEF At

LEMMA StoreJob ==
  ASSUME TypeInv, NEW j \in Jobs, Store(j)
  PROVE  /\ UNCHANGED <<structureVars, vector>> /\ At(j, "store") /\ job[j].repo \in Cloned
         /\ \/ /\ row' = [row EXCEPT ![job[j].repo] = [text |-> job[j].src, hash |-> job[j].hash]]
               /\ behind' = behind \cup {job[j].repo} /\ UNCHANGED <<clean, filed>>
            \/ UNCHANGED <<row, historyVars>>
         /\ \E x \in Job : /\ JobOK(x) /\ job' = [job EXCEPT ![j] = x] /\ Keeps(x, job[j])
                           /\ Dealt(x, job[j], job[j].repo)
<1>1. /\ job[j] \in Job /\ JobOK(job[j]) /\ job[j].pc = "store"
      /\ UNCHANGED <<structureVars, vector>> /\ At(j, "store")
  BY JobType DEF Store, At
<1>2. job[j].repo \in Cloned
  BY <1>1 DEF JobOK
<1>3. PICK next : /\ next \in {[job[j] EXCEPT !.hash = 0, !.src = 0],
                               [[job[j] EXCEPT !.hash = 0, !.src = 0] EXCEPT !.changed = TRUE]}
                  /\ job' = [job EXCEPT ![j] = AfterGeneration(j, next)]
                  /\ \/ /\ row' = [row EXCEPT ![job[j].repo] = [text |-> job[j].src, hash |-> job[j].hash]]
                        /\ behind' = behind \cup {job[j].repo} /\ UNCHANGED <<clean, filed>>
                     \/ UNCHANGED <<row, historyVars>>
  BY DEF Store, Marker, historyVars
<1>4. next \in Job /\ Keeps(next, job[j]) /\ next.todo = job[j].todo /\ next.repo = job[j].repo
  <2>1. PICK w \in Job : w = job[j]
    BY <1>1
  <2>2. PICK y : y = [w EXCEPT !.hash = 0, !.src = 0]
    OBVIOUS
  <2>3. y \in Job /\ Keeps(y, w) /\ y.todo = w.todo /\ y.repo = w.repo
    BY <2>2, Bounds DEF Job, Keeps
  <2>4. PICK z : z = [y EXCEPT !.changed = TRUE]
    OBVIOUS
  <2>5. z \in Job /\ Keeps(z, w) /\ z.todo = w.todo /\ z.repo = w.repo
    BY <2>3, <2>4 DEF Job, Keeps
  <2>6. next = y \/ next = z
    BY <1>3, <2>1, <2>2, <2>4
  <2> QED
    BY <2>1, <2>3, <2>5, <2>6
<1>5. PICK x \in Job : /\ x = AfterGeneration(j, next) /\ JobOK(x) /\ Keeps(x, job[j])
                       /\ Dealt(x, job[j], job[j].repo)
  BY <1>1, <1>2, <1>4, AfterJob
<1> QED
  BY <1>1, <1>2, <1>3, <1>5
LEMMA GenerationJob ==
  ASSUME TypeInv, NEW j \in Jobs, Generation(j)
  PROVE  /\ UNCHANGED <<structureVars, documentVars>> /\ At(j, "hash") /\ job[j].todo \cap Cloned = {}
         /\ \E x \in Job : /\ JobOK(x) /\ job' = [job EXCEPT ![j] = x]
                           /\ \/ x = Idle
                              \/ Keeps(x, job[j]) /\ x.pc = "list" /\ x.op = "daily"
                              \/ Keeps(x, job[j]) /\ x.pc = "drop" /\ x.op = "embedDocs"
<1>1. /\ job[j] \in Job /\ JobOK(job[j]) /\ job[j].pc = "hash" /\ UNCHANGED <<structureVars, documentVars>>
      /\ At(j, "hash") /\ job[j].todo \cap Cloned = {}
  BY JobType DEF Generation, At
<1>2. CASE job[j].op = "daily" /\ job[j].changed
  <2>1. PICK x : x = [job[j] EXCEPT !.pc = "list", !.todo = {}]
    OBVIOUS
  <2>2. x \in Job /\ Keeps(x, job[j]) /\ x.pc = "list" /\ x.op = "daily"
    BY <1>1, <1>2, <2>1 DEF Job, Pc, Keeps
  <2>3. JobOK(x)
    BY <1>1, <2>2 DEF JobOK, Keeps, OpsAt, EmbedPc
  <2>4. job' = [job EXCEPT ![j] = x]
    BY <1>2, <2>1 DEF Generation, TypeInv, TypeOK, StructureTypeOK
  <2> QED
    BY <1>1, <2>2, <2>3, <2>4
<1>3. CASE job[j].op = "embedDocs"
  <2>1. PICK x : x = [job[j] EXCEPT !.pc = "drop", !.todo = {}]
    OBVIOUS
  <2>2. x \in Job /\ Keeps(x, job[j]) /\ x.pc = "drop" /\ x.op = "embedDocs"
    BY <1>1, <1>3, <2>1 DEF Job, Pc, Keeps
  <2>3. JobOK(x)
    BY <1>1, <2>2 DEF JobOK, Keeps, OpsAt, EmbedPc
  <2>4. job' = [job EXCEPT ![j] = x]
    BY <1>3, <2>1 DEF Generation, TypeInv, TypeOK, StructureTypeOK
  <2> QED
    BY <1>1, <2>2, <2>3, <2>4
<1>4. CASE ~(job[j].op = "daily" /\ job[j].changed) /\ job[j].op # "embedDocs"
  <2>1. End(j)
    BY <1>4 DEF Generation
  <2> QED
    BY <1>1, <2>1, EndJob
<1> QED
  BY <1>2, <1>3, <1>4

\* What a step of EmbedCode makes of the job: the next repository, or the end.
LEMMA CodeJob ==
  ASSUME TypeInv, NEW j \in Jobs, EmbedCode(j)
  PROVE  /\ UNCHANGED <<origin, tree, file, served, graph, slipped, torn, documentVars>>
         /\ At(j, "embedCode")
         /\ \E r \in Repos : \E x \in Job :
              /\ JobOK(x) /\ job' = [job EXCEPT ![j] = x]
              /\ \/ /\ x.pc = "hash" /\ x.op = "daily" /\ Keeps(x, job[j])
                    /\ x.todo = job[j].todo \ {r}
                 \/ x.pc = "embedCode" /\ x.op # "daily" /\ Keeps(x, job[j])
                 \/ x = Idle /\ job[j].op # "daily"
              /\ \/ code' = [code EXCEPT ![r] = tree[r]] /\ unplanned' = unplanned \ {r}
                 \/ code' = code /\ unplanned' = unplanned \cup {r}
<1>1. /\ job[j] \in Job /\ JobOK(job[j]) /\ job[j].pc = "embedCode" /\ At(j, "embedCode")
      /\ UNCHANGED <<origin, tree, file, served, graph, slipped, torn, documentVars>>
  BY JobType DEF EmbedCode, At
<1>2. CASE job[j].op = "daily"
  <2>1. job[j].repo \in Repos
    BY <1>1, <1>2 DEF JobOK, Cloned
  <2>2. PICK x : x = Skip(job[j])
    OBVIOUS
  <2>3. job[j].todo \ {job[j].repo} \in SUBSET Repos
    BY <1>1 DEF Job
  <2>4. /\ x \in Job /\ Keeps(x, job[j]) /\ x.pc = "hash" /\ x.op = "daily"
        /\ x.todo = job[j].todo \ {job[j].repo}
    BY <1>1, <1>2, <2>2, <2>3 DEF Job, Pc, Keeps, Skip
  <2>5. JobOK(x)
    BY <1>1, <2>4 DEF JobOK, Keeps, OpsAt, EmbedPc
  <2>6. PICK r : r = job[j].repo
    OBVIOUS
  <2>7. job' = [job EXCEPT ![j] = x]
    BY <1>2, <2>2 DEF EmbedCode
  <2>8. \/ code' = [code EXCEPT ![r] = tree[r]] /\ unplanned' = unplanned \ {r}
        \/ code' = code /\ unplanned' = unplanned \cup {r}
    BY <1>2, <2>6 DEF EmbedCode
  <2> QED
    BY <1>1, <2>1, <2>4, <2>5, <2>6, <2>7, <2>8
<1>3. CASE job[j].op # "daily"
  <2>1. PICK r \in job[j].todo :
          \/ /\ code' = [code EXCEPT ![r] = tree[r]] /\ unplanned' = unplanned \ {r}
             /\ job' = [job EXCEPT ![j] = [job[j] EXCEPT !.todo = @ \ {r}]]
          \/ code' = code /\ unplanned' = unplanned \cup {r} /\ End(j)
    BY <1>3 DEF EmbedCode, End
  <2>2. r \in Repos
    BY <1>1, <2>1 DEF Job
  <2>3. CASE End(j) /\ code' = code /\ unplanned' = unplanned \cup {r}
    BY <1>1, <1>3, <2>2, <2>3, EndJob
  <2>4. CASE /\ code' = [code EXCEPT ![r] = tree[r]] /\ unplanned' = unplanned \ {r}
             /\ job' = [job EXCEPT ![j] = [job[j] EXCEPT !.todo = @ \ {r}]]
    <3>1. PICK x : x = [job[j] EXCEPT !.todo = @ \ {r}]
      OBVIOUS
    <3>2. job[j].todo \ {r} \in SUBSET Repos
      BY <1>1 DEF Job
    <3>3. x \in Job /\ Keeps(x, job[j]) /\ x.pc = "embedCode" /\ x.op # "daily"
      BY <1>1, <1>3, <3>1, <3>2 DEF Job, Keeps
    <3>4. JobOK(x)
      BY <1>1, <3>3 DEF JobOK, Keeps, OpsAt, EmbedPc
    <3>5. job' = [job EXCEPT ![j] = x]
      BY <2>4, <3>1
    <3> QED
      BY <1>1, <2>2, <2>4, <3>3, <3>4, <3>5
  <2> QED
    BY <2>1, <2>3, <2>4
<1> QED
  BY <1>2, <1>3

LEMMA Rows ==
  ASSUME TypeInv
  PROVE  /\ \A d \in DocIds : row[d] \in Row /\ (Stored(d) <=> row[d].text # 0)
         /\ Texts \in [DocIds -> Text] /\ \A d \in DocIds : Texts[d] = row[d].text
         /\ \A S \in SUBSET DocIds : StoredIn(S) \in SUBSET DocIds
         /\ Flows \subseteq DocIds /\ Generated \subseteq DocIds
<1>1. ASSUME NEW d \in DocIds PROVE row[d] \in Row /\ (Stored(d) <=> row[d].text # 0)
  BY DEF TypeInv, TypeOK, DocumentTypeOK, Stored, NoRow, Row
<1>2. Texts \in [DocIds -> Text]
  BY <1>1 DEF Texts, Row
<1> QED
  BY <1>1, <1>2, FlowAssumption DEF Texts, StoredIn, DocIds, Generated

\* The knowledge base is listed, or its query fails and it seems empty.
LEMMA KnowledgeJob ==
  ASSUME TypeInv, NEW start \in Job, NEW x \in Knowledge(start)
  PROVE  /\ x \in Job /\ x.docs \subseteq Flows /\ \A d \in x.docs : x.text[d] # 0
         /\ x.op = start.op /\ x.pc = start.pc /\ x.repo = start.repo /\ x.src = start.src
         /\ x.at = start.at /\ x.chunk = start.chunk /\ x.hash = start.hash
         /\ x.bundle = start.bundle /\ x.lone = start.lone /\ x.todo = start.todo
         /\ \/ x.docs = StoredIn(Flows) /\ x.text = Texts /\ x.alone = start.alone
            \/ x.docs = {} /\ x.text = start.text /\ ~x.alone
<1>1. CASE x = [start EXCEPT !.docs = StoredIn(Flows), !.text = Texts]
  <2>1. StoredIn(Flows) \in SUBSET DocIds /\ Texts \in [DocIds -> Text]
    BY Rows
  <2>2. \A d \in StoredIn(Flows) : d \in Flows /\ Texts[d] # 0
    BY Rows DEF StoredIn
  <2> QED
    BY <1>1, <2>1, <2>2 DEF Job
<1>2. CASE x = [start EXCEPT !.docs = {}, !.alone = FALSE]
  BY <1>2 DEF Job
<1> QED
  BY <1>1, <1>2 DEF Knowledge
LEMMA DropJob ==
  ASSUME TypeInv, NEW j \in Jobs, Drop(j)
  PROVE  /\ UNCHANGED <<structureVars, row>> /\ At(j, "drop") /\ Touch(DocIds)
         /\ \E dropped \in BOOLEAN : \E x \in Job :
              /\ vector' = IF dropped THEN [v \in VectorIds |-> NoVectors] ELSE vector
              /\ JobOK(x) /\ job' = [job EXCEPT ![j] = x]
              /\ x.pc = "embedKnowledge" /\ x.op = job[j].op /\ x.at = None
              /\ x.bundle = job[j].bundle /\ x.lone = job[j].lone
              /\ x.alone => /\ job[j].alone /\ dropped
                            /\ IF job[j].op = "bootstrap"
                               THEN x.docs = job[j].docs /\ x.text = job[j].text
                               ELSE x.docs = StoredIn(Flows) /\ x.text = Texts
<1>1. /\ job[j] \in Job /\ JobOK(job[j]) /\ job[j].pc = "drop" /\ At(j, "drop")
      /\ UNCHANGED <<structureVars, row>> /\ Touch(DocIds)
  BY JobType DEF Drop, At
<1>2. PICK dropped \in BOOLEAN :
        /\ vector' = IF dropped THEN [v \in VectorIds |-> NoVectors] ELSE vector
        /\ \E x \in IF job[j].op = "bootstrap"
                   THEN {[job[j] EXCEPT !.pc = "embedKnowledge", !.alone = @ /\ dropped]}
                   ELSE Knowledge([job[j] EXCEPT !.pc = "embedKnowledge", !.alone = @ /\ dropped]) :
             job' = [job EXCEPT ![j] = x]
  BY DEF Drop
<1>3. PICK start : start = [job[j] EXCEPT !.pc = "embedKnowledge", !.alone = @ /\ dropped]
  OBVIOUS
<1>4. /\ start \in Job /\ start.pc = "embedKnowledge" /\ SameDocs(start, job[j])
      /\ start.bundle = job[j].bundle /\ start.lone = job[j].lone
      /\ start.alone = (job[j].alone /\ dropped)
  <2>1. PICK w \in Job : w = job[j]
    BY <1>1
  <2>2. PICK b \in BOOLEAN : b = (w.alone /\ dropped)
    OBVIOUS
  <2>3. start = [w EXCEPT !.pc = "embedKnowledge", !.alone = b]
    BY <1>3, <2>1, <2>2 DEF Job
  <2>4. start \in Job
    BY <2>3 DEF Job, Pc
  <2>5. /\ start.pc = "embedKnowledge" /\ SameDocs(start, w)
        /\ start.bundle = w.bundle /\ start.lone = w.lone /\ start.alone = b
    BY <2>3 DEF Job, SameDocs
  <2> QED
    BY <2>1, <2>2, <2>4, <2>5
<1>5. job[j].op \in {"bootstrap", "embedDocs"} /\ job[j].at = None /\ job[j].chunk = 1
  BY <1>1 DEF JobOK, OpsAt, EmbedPc
<1>6. CASE job[j].op = "bootstrap"
  <2>1. job' = [job EXCEPT ![j] = start]
    BY <1>2, <1>3, <1>6
  <2>2. JobOK(start)
    BY <1>1, <1>4, <1>6 DEF JobOK, SameDocs, OpsAt, EmbedPc
  <2>3. start.at = None /\ start.op = job[j].op /\ start.docs = job[j].docs /\ start.text = job[j].text
    BY <1>4, <1>5 DEF SameDocs
  <2> QED
    BY <1>1, <1>2, <1>4, <1>6, <2>1, <2>2, <2>3
<1>7. CASE job[j].op # "bootstrap"
  <2>1. PICK x \in Knowledge(start) : job' = [job EXCEPT ![j] = x]
    BY <1>2, <1>3, <1>7
  <2>2. /\ x \in Job /\ x.docs \subseteq Flows /\ \A d \in x.docs : x.text[d] # 0
        /\ x.op = start.op /\ x.pc = start.pc /\ x.repo = start.repo /\ x.src = start.src
        /\ x.at = start.at /\ x.chunk = start.chunk
        /\ x.bundle = start.bundle /\ x.lone = start.lone
        /\ \/ x.docs = StoredIn(Flows) /\ x.text = Texts /\ x.alone = start.alone
           \/ x.docs = {} /\ x.text = start.text /\ ~x.alone
    BY <1>4, <2>1, KnowledgeJob
  <2>3. x.op = job[j].op /\ x.at = None /\ x.chunk = 1 /\ x.pc = "embedKnowledge"
    BY <1>4, <1>5, <2>2 DEF SameDocs
  <2>4. JobOK(x)
    BY <1>5, <1>7, <2>2, <2>3 DEF JobOK, OpsAt, EmbedPc
  <2> QED
    BY <1>1, <1>2, <1>4, <1>7, <2>1, <2>2, <2>3, <2>4
<1> QED
  BY <1>6, <1>7

LEMMA ListJob ==
  ASSUME TypeInv, NEW j \in Jobs, List(j)
  PROVE  /\ UNCHANGED <<structureVars, documentVars>> /\ At(j, "list")
         /\ \E x \in Job :
              /\ JobOK(x) /\ job' = [job EXCEPT ![j] = x]
              /\ \/ x = Idle
                 \/ /\ x.pc = "clear" /\ x.op = job[j].op /\ x.at = None
                    /\ x.bundle = job[j].bundle /\ x.lone = job[j].lone /\ x.alone = job[j].alone
                    /\ x.docs = StoredIn(Generated) /\ x.text = Texts
<1>1. /\ job[j] \in Job /\ JobOK(job[j]) /\ job[j].pc = "list" /\ At(j, "list")
      /\ UNCHANGED <<structureVars, documentVars>>
  BY JobType DEF List, At
<1>2. CASE End(j)
  BY <1>1, <1>2, EndJob
<1>3. CASE ~End(j)
  <2>1. PICK x : x = [job[j] EXCEPT !.pc = "clear", !.text = Texts, !.docs = StoredIn(Generated)]
    OBVIOUS
  <2>2. StoredIn(Generated) \in SUBSET DocIds /\ Texts \in [DocIds -> Text]
    BY Rows
  <2>3. StoredIn(Generated) \subseteq Generated /\ \A d \in StoredIn(Generated) : Texts[d] # 0
    BY Rows DEF StoredIn
  <2>4. /\ x \in Job /\ x.pc = "clear" /\ x.op = job[j].op /\ x.at = job[j].at
        /\ x.bundle = job[j].bundle /\ x.lone = job[j].lone /\ x.alone = job[j].alone
        /\ x.docs = StoredIn(Generated) /\ x.text = Texts /\ x.chunk = job[j].chunk
    BY <1>1, <2>1, <2>2 DEF Job, Pc
  <2>5. x.at = None /\ JobOK(x)
    BY <1>1, <2>3, <2>4 DEF JobOK, OpsAt, EmbedPc
  <2>6. job' = [job EXCEPT ![j] = x]
    BY <1>3, <2>1 DEF List
  <2> QED
    BY <1>1, <2>4, <2>5, <2>6
<1> QED
  BY <1>2, <1>3

LEMMA ClearJob ==
  ASSUME TypeInv, NEW j \in Jobs, Clear(j)
  PROVE  /\ UNCHANGED <<structureVars, row>> /\ At(j, "clear") /\ Touch(job[j].docs)
         /\ \E failed \in SUBSET job[j].docs : \E x \in Job :
              /\ vector' = [v \in VectorIds |->
                              IF v \in job[j].docs \ failed THEN NoVectors ELSE vector[v]]
              /\ JobOK(x) /\ job' = [job EXCEPT ![j] = x] /\ x.pc = "embedGenerated"
              /\ SameDocs(x, job[j]) /\ x.at = None
              /\ x.bundle = job[j].bundle /\ x.lone = job[j].lone
              /\ x.alone => job[j].alone /\ failed = {}
<1>1. /\ job[j] \in Job /\ JobOK(job[j]) /\ job[j].pc = "clear" /\ At(j, "clear")
      /\ UNCHANGED <<structureVars, row>> /\ Touch(job[j].docs)
  BY JobType DEF Clear, At
<1>2. PICK failed \in SUBSET job[j].docs :
        /\ vector' = [v \in VectorIds |->
                              IF v \in job[j].docs \ failed THEN NoVectors ELSE vector[v]]
        /\ job' = [job EXCEPT ![j] = [job[j] EXCEPT !.pc = "embedGenerated", !.alone = @ /\ failed = {}]]
  BY DEF Clear
<1>3. PICK x : x = [job[j] EXCEPT !.pc = "embedGenerated", !.alone = @ /\ failed = {}]
  OBVIOUS
<1>4. /\ x \in Job /\ x.pc = "embedGenerated" /\ SameDocs(x, job[j])
      /\ x.bundle = job[j].bundle /\ x.lone = job[j].lone
      /\ x.alone => job[j].alone /\ failed = {}
  <2>1. PICK w \in Job : w = job[j]
    BY <1>1
  <2>2. PICK b \in BOOLEAN : b = (w.alone /\ failed = {})
    OBVIOUS
  <2>3. x = [w EXCEPT !.pc = "embedGenerated", !.alone = b]
    BY <1>3, <2>1, <2>2 DEF Job
  <2>4. x \in Job
    BY <2>3 DEF Job, Pc
  <2>5. /\ x.pc = "embedGenerated" /\ SameDocs(x, w)
        /\ x.bundle = w.bundle /\ x.lone = w.lone /\ x.alone = b
    BY <2>3 DEF Job, SameDocs
  <2> QED
    BY <2>1, <2>2, <2>4, <2>5
<1>5. x.at = None /\ JobOK(x)
  BY <1>1, <1>4 DEF JobOK, SameDocs, OpsAt, EmbedPc
<1>6. job' = [job EXCEPT ![j] = x]
  BY <1>2, <1>3
<1> QED
  BY <1>1, <1>2, <1>4, <1>5, <1>6

LEMMA CurrentDocument ==
  ASSUME TypeInv, NEW j \in Jobs, job[j].pc \in EmbedPc, NEW d \in Current(j)
  PROVE  /\ d \in job[j].docs /\ d \in DocIds /\ job[j].text[d] \in Text \ {0}
         /\ VectorId(j, d) \in VectorIds /\ job[j].chunk \in 1..Chunks[job[j].text[d]]
         /\ Chunks[job[j].text[d]] \in 1..MaxChunks
         /\ At(j, "embedKnowledge") => d \in Flows
<1>1. job[j] \in Job /\ JobOK(job[j])
  BY JobType
<1>2. d \in job[j].docs /\ d \in DocIds
  BY <1>1 DEF Current, JobOK, Job
<1>3. job[j].text[d] \in Text \ {0}
  <2>1. job[j].pc # "load" /\ job[j].op # "delete"
    BY <1>1 DEF JobOK, OpsAt, EmbedPc
  <2> QED
    BY <1>1, <1>2, <2>1 DEF JobOK, Job
<1>4. Chunks[job[j].text[d]] \in 1..MaxChunks
  BY <1>3, Bounds
<1>5. job[j].chunk \in 1..Chunks[job[j].text[d]]
  <2>1. PICK n : n = Chunks[job[j].text[d]]
    OBVIOUS
  <2>2. job[j].chunk \in 1..MaxChunks
    BY <1>1 DEF Job
  <2>3. CASE job[j].at = None
    BY <1>1, <1>4, <2>1, <2>3 DEF JobOK
  <2>4. CASE job[j].at # None
    <3>1. d = job[j].at
      BY <2>4 DEF Current
    <3>2. job[j].chunk <= n
      BY <1>1, <2>1, <2>4, <3>1 DEF JobOK
    <3> QED
      BY <1>4, <2>1, <2>2, <3>2
  <2> QED
    BY <2>3, <2>4
<1>6. At(j, "embedKnowledge") => d \in Flows
  BY <1>1, <1>2 DEF JobOK, At
<1>7. VectorId(j, d) \in VectorIds
  <2>1. CASE At(j, "embedKnowledge")
    BY <1>6, <2>1, FlowAssumption DEF VectorId, VectorIds, DocIds
  <2>2. CASE ~At(j, "embedKnowledge")
    BY <1>2, <2>2 DEF VectorId, VectorIds
  <2> QED
    BY <2>1, <2>2
<1> QED
  BY <1>2, <1>3, <1>4, <1>5, <1>6, <1>7
LEMMA ChunkJob ==
  ASSUME TypeInv, NEW j \in Jobs, EmbedChunk(j)
  PROVE  /\ UNCHANGED <<structureVars, row>> /\ job[j].pc \in EmbedPc
         /\ \E d \in Current(j) : \E x \in Job :
              /\ WriteChunk(j, d) /\ Touch({d})
              /\ JobOK(x) /\ job' = [job EXCEPT ![j] = x]
              /\ x.pc = job[j].pc /\ x.op = job[j].op /\ x.text = job[j].text /\ x.hash = job[j].hash
              /\ x.bundle = job[j].bundle /\ x.lone = job[j].lone /\ x.alone = job[j].alone
              /\ \/ /\ job[j].chunk = Chunks[job[j].text[d]] /\ x.docs = job[j].docs \ {d}
                    /\ x.at = None
                 \/ /\ job[j].chunk # Chunks[job[j].text[d]] /\ x.docs = job[j].docs
                    /\ x.at = d /\ x.chunk = job[j].chunk + 1
<1>1. /\ job[j] \in Job /\ JobOK(job[j]) /\ job[j].pc \in EmbedPc
      /\ UNCHANGED <<structureVars, row>>
  BY JobType DEF EmbedChunk
<1>2. PICK d \in Current(j) :
        /\ WriteChunk(j, d) /\ Touch({d})
        /\ job' = [job EXCEPT ![j] =
                    IF job[j].chunk = Chunks[job[j].text[d]]
                    THEN [job[j] EXCEPT !.docs = @ \ {d}, !.at = None, !.chunk = 1]
                    ELSE [job[j] EXCEPT !.at = d, !.chunk = @ + 1]]
  BY DEF EmbedChunk, LastChunk
<1>3. /\ d \in job[j].docs /\ d \in DocIds /\ job[j].text[d] \in Text \ {0}
      /\ job[j].chunk \in 1..Chunks[job[j].text[d]] /\ Chunks[job[j].text[d]] \in 1..MaxChunks
      /\ At(j, "embedKnowledge") => d \in Flows
  BY <1>1, CurrentDocument
<1>4. PICK n : n = Chunks[job[j].text[d]]
  OBVIOUS
<1>5. CASE job[j].chunk = n
  <2>1. PICK x : x = [job[j] EXCEPT !.docs = @ \ {d}, !.at = None, !.chunk = 1]
    OBVIOUS
  <2>2. job[j].docs \ {d} \in SUBSET DocIds
    BY <1>1 DEF Job
  <2>3. /\ x \in Job /\ x.pc = job[j].pc /\ x.op = job[j].op /\ x.text = job[j].text
        /\ x.bundle = job[j].bundle /\ x.lone = job[j].lone /\ x.alone = job[j].alone
        /\ x.docs = job[j].docs \ {d} /\ x.at = None /\ x.chunk = 1 /\ x.hash = job[j].hash
    BY <1>1, <2>1, <2>2, Bounds DEF Job
  <2>4. JobOK(x)
    BY <1>1, <2>3, SMTT(30) DEF JobOK, OpsAt, EmbedPc
  <2>5. job' = [job EXCEPT ![j] = x]
    BY <1>2, <1>4, <1>5, <2>1
  <2> QED
    BY <1>1, <1>2, <1>4, <1>5, <2>3, <2>4, <2>5
<1>6. CASE job[j].chunk # n
  <2>1. PICK x : x = [job[j] EXCEPT !.at = d, !.chunk = @ + 1]
    OBVIOUS
  <2>2. job[j].chunk + 1 \in 1..n /\ job[j].chunk + 1 \in 1..MaxChunks /\ n \in Nat
    <3>1. PICK c : c = job[j].chunk
      OBVIOUS
    <3>2. c \in 1..n /\ n \in 1..MaxChunks /\ c # n
      BY <1>3, <1>4, <1>6, <3>1
    <3>3. c + 1 \in 1..n /\ c + 1 \in 1..MaxChunks /\ n \in Nat
      BY <3>2, SizeAssumption
    <3> QED
      BY <3>1, <3>3
  <2>3. /\ x \in Job /\ x.pc = job[j].pc /\ x.op = job[j].op /\ x.text = job[j].text
        /\ x.bundle = job[j].bundle /\ x.lone = job[j].lone /\ x.alone = job[j].alone
        /\ x.docs = job[j].docs /\ x.at = d /\ x.chunk = job[j].chunk + 1
        /\ x.hash = job[j].hash /\ x.repo = job[j].repo /\ x.src = job[j].src
    BY <1>1, <1>3, <2>1, <2>2, IdAssumption DEF Job, DocIds
  <2>4. x.chunk <= Chunks[x.text[x.at]] /\ x.at # None
    BY <1>3, <1>4, <2>2, <2>3, Bounds
  <2>5. JobOK(x)
    <3>1. x.op \in OpsAt(x.pc) /\ x.pc \in EmbedPc /\ x.at \in x.docs
      BY <1>1, <1>3, <2>3 DEF JobOK
    <3> QED
      BY <1>1, <2>3, <2>4, <3>1 DEF JobOK
  <2>6. job' = [job EXCEPT ![j] = x]
    BY <1>2, <1>4, <1>6, <2>1
  <2> QED
    BY <1>1, <1>2, <1>4, <1>6, <2>3, <2>5, <2>6
<1> QED
  BY <1>5, <1>6

LEMMA EmbeddedJob ==
  ASSUME TypeInv, NEW j \in Jobs, Embedded(j)
  PROVE  /\ UNCHANGED <<structureVars, row, vector>> /\ job[j].pc \in EmbedPc /\ job[j].docs = {}
         /\ \E x \in Job :
              /\ JobOK(x) /\ job' = [job EXCEPT ![j] = x]
              /\ \/ /\ At(j, "embedOne") /\ x.pc = "insert" /\ x.at = None
                    /\ Keeps(x, job[j]) /\ x.hash = job[j].hash /\ UNCHANGED historyVars
                 \/ /\ At(j, "embedKnowledge") /\ job[j].op = "embedDocs" /\ x.pc = "list" /\ x.at = None
                    /\ Keeps(x, job[j]) /\ UNCHANGED historyVars
                 \/ /\ At(j, "embedKnowledge") /\ job[j].op # "embedDocs" /\ x.pc = "embedCode"
                    /\ x.op = "bootstrap" /\ x.bundle = NoSnapshot /\ ~x.lone /\ ~x.alone
                    /\ Bootstrapped(j)
                 \/ At(j, "embedKnowledge") /\ job[j].op # "embedDocs" /\ x = Idle /\ Bootstrapped(j)
                 \/ /\ At(j, "embedGenerated") /\ x = Idle
                    /\ Cover(j, IF job[j].op = "daily" THEN {d \in Generated : job[j].text[d] # 0}
                                ELSE DocIds, Texts)
<1>1. /\ job[j] \in Job /\ JobOK(job[j]) /\ job[j].pc \in EmbedPc /\ job[j].docs = {}
      /\ UNCHANGED <<structureVars, row, vector>>
  BY JobType DEF Embedded
<1>2. job[j].at = None
  BY <1>1 DEF JobOK
<1>3. CASE At(j, "embedOne")
  <2>1. PICK x : x = [job[j] EXCEPT !.pc = "insert"]
    OBVIOUS
  <2>2. x \in Job /\ Keeps(x, job[j]) /\ x.pc = "insert" /\ x.hash = job[j].hash
    BY <1>1, <2>1 DEF Job, Pc, Keeps
  <2>3. job[j].pc = "embedOne" /\ ~At(j, "embedKnowledge") /\ ~At(j, "embedGenerated")
    BY <1>3 DEF At
  <2>4. JobOK(x)
    BY <1>1, <1>2, <2>2, <2>3 DEF JobOK, Keeps, OpsAt, EmbedPc
  <2>5. Goto(j, "insert") /\ UNCHANGED historyVars
    BY <1>3, <2>3 DEF Embedded
  <2>6. job' = [job EXCEPT ![j] = x] /\ UNCHANGED historyVars /\ x.at = None
    BY <1>2, <2>1, <2>2, <2>5 DEF Goto, Keeps, TypeInv, TypeOK, StructureTypeOK
  <2> QED
    BY <1>1, <1>3, <2>2, <2>4, <2>6
<1>4. CASE At(j, "embedKnowledge") /\ job[j].op = "embedDocs"
  <2>1. PICK x : x = [job[j] EXCEPT !.pc = "list"]
    OBVIOUS
  <2>2. x \in Job /\ Keeps(x, job[j]) /\ x.pc = "list"
    BY <1>1, <2>1 DEF Job, Pc, Keeps
  <2>3. job[j].pc = "embedKnowledge" /\ ~At(j, "embedOne") /\ ~At(j, "embedGenerated")
    BY <1>4 DEF At
  <2>4. JobOK(x)
    BY <1>1, <1>2, <1>4, <2>2, <2>3 DEF JobOK, Keeps, OpsAt, EmbedPc
  <2>5. Goto(j, "list") /\ UNCHANGED historyVars
    BY <1>4, <2>3 DEF Embedded
  <2>6. job' = [job EXCEPT ![j] = x] /\ UNCHANGED historyVars /\ x.at = None
    BY <1>2, <2>1, <2>2, <2>5 DEF Goto, Keeps, TypeInv, TypeOK, StructureTypeOK
  <2> QED
    BY <1>1, <1>4, <2>2, <2>4, <2>6
<1>5. CASE At(j, "embedKnowledge") /\ job[j].op # "embedDocs"
  <2>1. ~At(j, "embedOne") /\ ~At(j, "embedGenerated") /\ job[j].op = "bootstrap"
    BY <1>1, <1>5 DEF At, JobOK, OpsAt
  <2>2. CASE IndexCode
    <3>1. PICK x : x = [Idle EXCEPT !.op = "bootstrap", !.todo = Cloned, !.pc = "embedCode"]
      OBVIOUS
    <3>2. /\ x \in Job /\ x.pc = "embedCode" /\ x.op = "bootstrap" /\ x.bundle = NoSnapshot
          /\ ~x.lone /\ ~x.alone /\ x.docs = {} /\ x.at = None /\ x.chunk = 1
      <4>1. PICK w \in Job : w = Idle
        BY IdleJob
      <4>2. Cloned \in SUBSET Repos
        BY DEF Cloned
      <4>3. x = [w EXCEPT !.op = "bootstrap", !.todo = Cloned, !.pc = "embedCode"]
        BY <3>1, <4>1, Zenon
      <4>4. x \in Job
        <5>1. "embedCode" \in Pc /\ "bootstrap" \in Ops
          BY DEF Pc, Ops
        <5> QED
          BY <4>2, <4>3, <5>1 DEF Job
      <4>5. /\ x.pc = "embedCode" /\ x.op = "bootstrap" /\ x.bundle = w.bundle
            /\ x.lone = w.lone /\ x.alone = w.alone /\ x.docs = w.docs
            /\ x.at = w.at /\ x.chunk = w.chunk
        BY <4>3 DEF Job
      <4>6. /\ w.bundle = NoSnapshot /\ ~w.lone /\ ~w.alone /\ w.docs = {}
            /\ w.at = None /\ w.chunk = 1
        BY <4>1 DEF Idle
      <4> QED
        BY <4>4, <4>5, <4>6
    <3>3. JobOK(x)
      BY <3>2 DEF JobOK, OpsAt, EmbedPc
    <3>4. job' = [job EXCEPT ![j] = x] /\ Bootstrapped(j)
      BY <1>5, <2>1, <2>2, <3>1 DEF Embedded
    <3> QED
      BY <1>1, <1>5, <3>2, <3>3, <3>4
  <2>3. CASE ~IndexCode
    <3>1. End(j) /\ Bootstrapped(j)
      BY <1>5, <2>1, <2>3 DEF Embedded
    <3> QED
      BY <1>1, <1>5, <3>1, EndJob
  <2> QED
    BY <2>2, <2>3
<1>6. CASE At(j, "embedGenerated")
  <2>1. ~At(j, "embedOne") /\ ~At(j, "embedKnowledge")
    BY <1>6 DEF At
  <2>2. /\ End(j)
        /\ Cover(j, IF job[j].op = "daily" THEN {d \in Generated : job[j].text[d] # 0} ELSE DocIds, Texts)
    BY <1>6, <2>1 DEF Embedded
  <2> QED
    BY <1>1, <1>6, <2>2, EndJob
<1> QED
  BY <1>1, <1>3, <1>4, <1>5, <1>6 DEF EmbedPc, At
LEMMA LoadJob ==
  ASSUME TypeInv, NEW j \in Jobs, Load(j)
  PROVE  /\ UNCHANGED <<structureVars, documentVars>> /\ At(j, "load")
         /\ \E d \in DocIds : \E x \in Job :
              /\ job[j].docs = {d}
              /\ JobOK(x) /\ job' = [job EXCEPT ![j] = x]
              /\ \/ x = Idle
                 \/ /\ x.pc = "unvector" /\ x.op = "reindex" /\ x.docs = {d} /\ x.at = None
                    /\ Stored(d) /\ x.hash = row[d].hash /\ x.text = [job[j].text EXCEPT ![d] = row[d].text]
                    /\ x.bundle = job[j].bundle /\ x.lone = job[j].lone /\ x.alone = job[j].alone
<1>1. /\ job[j] \in Job /\ JobOK(job[j]) /\ job[j].pc = "load" /\ At(j, "load")
      /\ UNCHANGED <<structureVars, documentVars>>
  BY JobType DEF Load, At
<1>2. PICK d \in DocIds : job[j].docs = {d}
  BY <1>1 DEF JobOK
<1>3. job[j].op = "reindex" /\ job[j].at = None
  BY <1>1 DEF JobOK, OpsAt, EmbedPc
<1>4. CASE End(j)
  BY <1>1, <1>2, <1>4, EndJob
<1>5. CASE ~End(j)
  <2>1. /\ Stored(d)
        /\ job' = [job EXCEPT ![j] = [job[j] EXCEPT !.pc = "unvector", !.hash = row[d].hash,
                                                    !.text[d] = row[d].text]]
    BY <1>2, <1>5 DEF Load
  <2>2. PICK x : x = [job[j] EXCEPT !.pc = "unvector", !.hash = row[d].hash,
                                    !.text[d] = row[d].text]
    OBVIOUS
  <2>3. row[d].hash \in Revision /\ row[d].text \in Text \ {0}
    BY <2>1, Rows DEF Row
  <2>4. [job[j].text EXCEPT ![d] = row[d].text] \in [DocIds -> Text]
    BY <1>1, <2>3 DEF Job
  <2>5. /\ x \in Job /\ x.pc = "unvector" /\ x.op = "reindex" /\ x.docs = {d}
        /\ x.at = job[j].at /\ x.chunk = job[j].chunk
        /\ x.hash = row[d].hash /\ x.text = [job[j].text EXCEPT ![d] = row[d].text]
        /\ x.bundle = job[j].bundle /\ x.lone = job[j].lone /\ x.alone = job[j].alone
    <3>1. PICK w \in Job : w = job[j]
      BY <1>1
    <3>2. PICK t \in [DocIds -> Text] : t = [w.text EXCEPT ![d] = row[d].text]
      BY <2>4, <3>1
    <3>3. x = [w EXCEPT !.pc = "unvector", !.hash = row[d].hash, !.text = t]
      BY <2>2, <3>1, <3>2 DEF Job
    <3>4. x \in Job
      BY <2>3, <3>3 DEF Job, Pc
    <3>5. /\ x.pc = "unvector" /\ x.op = w.op /\ x.docs = w.docs
          /\ x.at = w.at /\ x.chunk = w.chunk /\ x.hash = row[d].hash /\ x.text = t
          /\ x.bundle = w.bundle /\ x.lone = w.lone /\ x.alone = w.alone
      BY <3>3 DEF Job
    <3> QED
      BY <1>2, <1>3, <3>1, <3>2, <3>4, <3>5
  <2>6. x.text[d] # 0 /\ \A e \in DocIds \ {d} : x.text[e] = 0
    <3>1. job[j].text \in [DocIds -> Text] /\ \A e \in DocIds \ {d} : job[j].text[e] = 0
      BY <1>1, <1>2 DEF Job, JobOK
    <3> QED
      BY <2>3, <2>5, <3>1
  <2>7. JobOK(x)
    BY <1>1, <1>3, <2>5, <2>6 DEF JobOK, OpsAt, EmbedPc
  <2> QED
    BY <1>1, <1>2, <1>3, <2>1, <2>2, <2>5, <2>7
<1> QED
  BY <1>4, <1>5

LEMMA UnvectorJob ==
  ASSUME TypeInv, NEW j \in Jobs, Unvector(j)
  PROVE  /\ UNCHANGED <<structureVars, row>> /\ At(j, "unvector")
         /\ \E d \in job[j].docs, failed \in BOOLEAN : \E x \in Job :
              /\ vector' = IF failed THEN vector ELSE [vector EXCEPT ![d] = NoVectors]
              /\ Touch({d})
              /\ JobOK(x) /\ job' = [job EXCEPT ![j] = x]
              /\ x.pc = IF job[j].op = "delete" THEN "remove" ELSE "embedOne"
              /\ SameDocs(x, job[j]) /\ x.hash = job[j].hash
              /\ x.bundle = job[j].bundle /\ x.lone = job[j].lone
              /\ x.alone => job[j].alone /\ ~failed
<1>1. /\ job[j] \in Job /\ JobOK(job[j]) /\ job[j].pc = "unvector" /\ At(j, "unvector")
      /\ UNCHANGED <<structureVars, row>>
  BY JobType DEF Unvector, At
<1>2. PICK d \in job[j].docs, failed \in BOOLEAN :
        /\ vector' = IF failed THEN vector ELSE [vector EXCEPT ![d] = NoVectors]
        /\ Touch({d})
        /\ job' = [job EXCEPT ![j] =
                    [job[j] EXCEPT !.pc = IF job[j].op = "delete" THEN "remove" ELSE "embedOne",
                                   !.alone = @ /\ ~failed]]
  BY DEF Unvector, Unvectored
<1>3. PICK pc : pc = IF job[j].op = "delete" THEN "remove" ELSE "embedOne"
  OBVIOUS
<1>4. PICK x : x = [job[j] EXCEPT !.pc = pc, !.alone = @ /\ ~failed]
  OBVIOUS
<1>5. pc \in Pc
  BY <1>3 DEF Pc
<1>6. /\ x \in Job /\ SameDocs(x, job[j]) /\ x.pc = pc /\ x.hash = job[j].hash
      /\ x.bundle = job[j].bundle /\ x.lone = job[j].lone
      /\ x.alone => job[j].alone /\ ~failed
  BY <1>1, <1>4, <1>5 DEF Job, SameDocs
<1>7. d \in DocIds /\ (job[j].op # "delete" => job[j].text[d] # 0)
  BY <1>1 DEF JobOK, Job
<1>8. JobOK(x)
  BY <1>1, <1>3, <1>6, <1>7 DEF JobOK, SameDocs, OpsAt, EmbedPc
<1>9. job' = [job EXCEPT ![j] = x]
  BY <1>2, <1>3, <1>4
<1> QED
  BY <1>1, <1>2, <1>3, <1>6, <1>8, <1>9

LEMMA InsertJob ==
  ASSUME TypeInv, NEW j \in Jobs, Insert(j)
  PROVE  /\ UNCHANGED <<structureVars, vector>> /\ At(j, "insert") /\ End(j)
         /\ \E d \in DocIds :
              /\ d = One(j) /\ job[j].text[d] # 0
              /\ \/ /\ row' = [row EXCEPT ![d] = [text |-> job[j].text[d], hash |-> job[j].hash]]
                    /\ Cover(j, {d}, job[j].text)
                 \/ UNCHANGED <<row, historyVars>>
<1>1. job[j] \in Job /\ JobOK(job[j]) /\ job[j].pc = "insert"
  BY JobType DEF Insert, At
<1>2. \E d \in DocIds : job[j].text[d] # 0
  BY <1>1 DEF JobOK
<1>3. One(j) \in DocIds /\ job[j].text[One(j)] # 0
  BY <1>2 DEF One
<1> QED
  BY <1>3 DEF Insert

LEMMA StartGoes ==
  ASSUME TypeInv, NEW j \in Jobs, NEW first \in Job, JobOK(first), Start(j, first)
  PROVE  /\ job[j].op = "none" /\ job[j].pc = "idle" /\ started' \in 0..MaxOps
         /\ \E x \in Job :
              /\ JobOK(x) /\ Goes(j, x) /\ x = [first EXCEPT !.alone = x.alone]
              /\ x.alone => first.alone /\ first.op \in DocumentOps /\ \A i \in Jobs : ~OnDocuments(i)
              /\ \A k \in Jobs \ {j} : /\ job'[k] = [job[k] EXCEPT !.alone = job'[k].alone]
                                       /\ first.op \in DocumentOps => ~job'[k].alone
<1>1. job[j] \in Job /\ JobOK(job[j]) /\ job[j].op = "none"
  BY JobType DEF Start
<1>2. job[j].pc = "idle"
  BY <1>1 DEF JobOK, OpsAt, Job, Pc
<1>3. started' \in 0..MaxOps
  BY MaxOpsAssumption DEF Start, TypeInv, TypeOK
<1>4. PICK b \in BOOLEAN : b <=> first.op \in DocumentOps
  <2>1. CASE first.op \in DocumentOps
    BY <2>1
  <2>2. CASE first.op \notin DocumentOps
    BY <2>2
  <2> QED
    BY <2>1, <2>2
<1>5. PICK a \in BOOLEAN : a = (first.alone /\ b /\ \A i \in Jobs : ~OnDocuments(i))
  BY <1>4 DEF Job
<1>6. PICK x : x = [first EXCEPT !.alone = a]
  OBVIOUS
<1>7. /\ job' = [k \in Jobs |-> job'[k]] /\ job'[j] = x
      /\ \A k \in Jobs \ {j} : job'[k] = [job[k] EXCEPT !.alone = @ /\ ~b]
  BY <1>4, <1>5, <1>6 DEF Start
<1>8. x \in Job /\ JobOK(x) /\ x.alone = a /\ x = [first EXCEPT !.alone = x.alone]
  <2>1. x = [first EXCEPT !.lone = first.lone, !.alone = a] /\ first.lone \in BOOLEAN
    BY <1>6 DEF Job
  <2>2. x \in Job /\ JobOK(x)
    BY <2>1, Flags
  <2>3. x.alone = a
    BY <1>6 DEF Job
  <2> QED
    BY <1>6, <2>2, <2>3
<1>9. ASSUME NEW k \in Jobs \ {j}
      PROVE  /\ job'[k] = [job[k] EXCEPT !.lone = job[k].lone, !.alone = job'[k].alone]
             /\ job'[k] = [job[k] EXCEPT !.alone = job'[k].alone]
             /\ job[k].lone \in BOOLEAN /\ job'[k].alone \in BOOLEAN
             /\ (job'[k].alone => job[k].alone) /\ (b => ~job'[k].alone)
  <2>1. job[k] \in Job
    BY JobType
  <2>2. PICK c \in BOOLEAN : c = (job[k].alone /\ ~b)
    BY <1>4, <2>1 DEF Job
  <2>3. job'[k] = [job[k] EXCEPT !.alone = c]
    BY <1>7, <2>2
  <2>4. job'[k].alone = c /\ job[k].lone \in BOOLEAN
        /\ [job[k] EXCEPT !.alone = c] = [job[k] EXCEPT !.lone = job[k].lone, !.alone = c]
    BY <2>1, <2>3 DEF Job
  <2> QED
    BY <2>2, <2>3, <2>4
<1>10. Goes(j, x)
  BY <1>7, <1>9 DEF Goes
<1> QED
  BY <1>1, <1>2, <1>3, <1>4, <1>5, <1>8, <1>9, <1>10
\* What an operation starts with.
First(x) ==
  /\ x.bundle = NoSnapshot /\ x.at = None /\ ~x.lone
  /\ x.pc \in {"fetch", "scan", "hash", "embedCode", "embedOne", "load", "unvector"}
  /\ x.pc \in {"load", "unvector"} => \A d \in DocIds : x.text[d] = 0
  /\ x.pc = "embedOne" => \E d \in Uploads : x.docs = {d} /\ \A e \in DocIds \ {d} : x.text[e] = 0
  /\ x.op = "bootstrap" /\ x.alone => x.docs = StoredIn(Flows) /\ x.text = Texts
  /\ x.op \in {"daily", "bootstrap"} => x.pc \in {"fetch", "scan"}

LEMMA OpJob ==
  ASSUME NEW op \in Ops, NEW pc \in Pc
  PROVE  /\ Op(op, pc) \in Job /\ Op(op, pc).op = op /\ Op(op, pc).pc = pc /\ Op(op, pc).alone
         /\ Op(op, pc).bundle = NoSnapshot /\ ~Op(op, pc).lone
         /\ Op(op, pc).docs = {} /\ Op(op, pc).at = None /\ Op(op, pc).chunk = 1
         /\ Op(op, pc).text = [d \in DocIds |-> 0] /\ Op(op, pc).todo = {}
BY IdleJob DEF Op, Idle, Job

\* An operation on no document but, perhaps, on repositories.
LEMMA PlainFirst ==
  ASSUME TypeInv, NEW op \in Ops, NEW pc \in Pc, NEW S \in SUBSET Repos,
         op \in OpsAt(pc), op # "bootstrap", pc \in {"fetch", "scan", "hash", "embedCode"},
         op = "daily" => pc = "fetch"
  PROVE  LET x == [Op(op, pc) EXCEPT !.todo = S] IN x \in Job /\ JobOK(x) /\ First(x)
<1>1. PICK x : x = [Op(op, pc) EXCEPT !.todo = S]
  OBVIOUS
<1>2. /\ x \in Job /\ x.op = op /\ x.pc = pc /\ x.bundle = NoSnapshot /\ ~x.lone /\ x.docs = {}
      /\ x.at = None /\ x.chunk = 1
  BY <1>1, OpJob DEF Job
<1>3. JobOK(x)
  BY <1>2 DEF JobOK, OpsAt
<1>4. First(x)
  BY <1>2 DEF First
<1> QED
  BY <1>1, <1>2, <1>3, <1>4

LEMMA NothingToDo == ASSUME NEW op \in Ops, NEW pc \in Pc PROVE Op(op, pc) = [Op(op, pc) EXCEPT !.todo = {}]
<1>1. PICK w \in Job : w = Op(op, pc) /\ w.todo = {}
  BY OpJob
<1>2. w = [w EXCEPT !.todo = {}]
  BY <1>1 DEF Job
<1> QED
  BY <1>1, <1>2

\* One document.
LEMMA DocumentFirst ==
  ASSUME TypeInv, NEW op \in Ops, NEW pc \in Pc, NEW d \in DocIds,
         \/ op = "reindex" /\ pc = "load"
         \/ op = "delete" /\ pc = "unvector"
  PROVE  LET x == [Op(op, pc) EXCEPT !.docs = {d}] IN x \in Job /\ JobOK(x) /\ First(x)
<1>1. PICK x : x = [Op(op, pc) EXCEPT !.docs = {d}]
  OBVIOUS
<1>2. /\ x \in Job /\ x.op = op /\ x.pc = pc /\ x.bundle = NoSnapshot /\ ~x.lone /\ x.docs = {d}
      /\ x.at = None /\ x.chunk = 1 /\ x.text = [e \in DocIds |-> 0]
  BY <1>1, OpJob DEF Job
<1>3. JobOK(x)
  BY <1>2 DEF JobOK, OpsAt
<1>4. First(x)
  BY <1>2 DEF First
<1> QED
  BY <1>1, <1>2, <1>3, <1>4

LEMMA UploadFirst ==
  ASSUME TypeInv, NEW d \in Uploads, NEW t \in 1..MaxText
  PROVE  LET x == [Op("upload", "embedOne") EXCEPT !.docs = {d}, !.text[d] = t]
         IN x \in Job /\ JobOK(x) /\ First(x)
<1>1. PICK x : x = [Op("upload", "embedOne") EXCEPT !.docs = {d}, !.text[d] = t]
  OBVIOUS
<1>2. "upload" \in Ops /\ "embedOne" \in Pc /\ d \in DocIds /\ t \in Text /\ t # 0
  BY DEF Ops, Pc, DocIds, Text
<1>3. [[e \in DocIds |-> 0] EXCEPT ![d] = t] \in [DocIds -> Text]
  BY <1>2, Bounds
<1>4. /\ x \in Job /\ x.op = "upload" /\ x.pc = "embedOne" /\ x.bundle = NoSnapshot /\ ~x.lone /\ x.docs = {d}
      /\ x.at = None /\ x.chunk = 1 /\ x.text = [[e \in DocIds |-> 0] EXCEPT ![d] = t]
  <2>1. PICK w : w = Op("upload", "embedOne")
    OBVIOUS
  <2>2. PICK u : u = [w.text EXCEPT ![d] = t]
    OBVIOUS
  <2>3. /\ w \in Job /\ w.op = "upload" /\ w.pc = "embedOne" /\ w.bundle = NoSnapshot /\ ~w.lone
        /\ w.at = None /\ w.chunk = 1 /\ w.text = [e \in DocIds |-> 0]
    BY <1>2, <2>1, OpJob
  <2>4. x = [w EXCEPT !.docs = {d}, !.text = u]
    BY <1>1, <2>1, <2>2
  <2>5. u \in [DocIds -> Text] /\ u = [[e \in DocIds |-> 0] EXCEPT ![d] = t]
    BY <1>3, <2>2, <2>3
  <2> QED
    BY <1>2, <2>3, <2>4, <2>5 DEF Job
<1>5. x.text[d] = t /\ \A e \in DocIds \ {d} : x.text[e] = 0
  BY <1>2, <1>4
<1>6. JobOK(x)
  BY <1>2, <1>4, <1>5 DEF JobOK, OpsAt
<1>7. First(x)
  BY <1>4, <1>5 DEF First
<1> QED
  BY <1>1, <1>4, <1>6, <1>7

LEMMA BootstrapFirst ==
  ASSUME TypeInv, NEW x \in Knowledge(Op("bootstrap", "scan"))
  PROVE  x \in Job /\ JobOK(x) /\ First(x)
<1>1. PICK start : start = Op("bootstrap", "scan")
  OBVIOUS
<1>2. "bootstrap" \in Ops /\ "scan" \in Pc
  BY DEF Ops, Pc
<1>3. /\ start \in Job /\ start.op = "bootstrap" /\ start.pc = "scan" /\ start.bundle = NoSnapshot
      /\ ~start.lone /\ start.at = None /\ start.chunk = 1
  BY <1>1, <1>2, OpJob
<1>4. /\ x \in Job /\ x.docs \subseteq Flows /\ \A d \in x.docs : x.text[d] # 0
      /\ x.op = start.op /\ x.pc = start.pc /\ x.at = start.at /\ x.chunk = start.chunk
      /\ x.bundle = start.bundle /\ x.lone = start.lone
      /\ \/ x.docs = StoredIn(Flows) /\ x.text = Texts /\ x.alone = start.alone
         \/ x.docs = {} /\ x.text = start.text /\ ~x.alone
  BY <1>1, <1>3, KnowledgeJob
<1>5. JobOK(x)
  BY <1>3, <1>4 DEF JobOK, OpsAt
<1>6. First(x)
  BY <1>3, <1>4 DEF First
<1> QED
  BY <1>4, <1>5, <1>6
\* An operation starts with x; operations on documents are alone no more.
Starts(j, x) ==
  /\ Goes(j, x) /\ First(x)
  /\ x.alone => OnDocuments(j)' /\ \A i \in Jobs : ~OnDocuments(i)
  /\ \A k \in Jobs \ {j} : /\ job'[k] = [job[k] EXCEPT !.alone = job'[k].alone]
                           /\ OnDocuments(j)' => ~job'[k].alone

Reloads(j, x) ==
  /\ Goes(j, x) /\ x.pc = "edges" /\ x.op = "graph" /\ x.bundle = NoSnapshot /\ x.at = None
  /\ x.lone = (\A i \in Jobs : ~InWindow(i))
  /\ \A k \in Jobs \ {j} : job'[k] = [job[k] EXCEPT !.lone = FALSE]
  /\ torn' = (torn \/ \E k \in Jobs : InWindow(k))

LEMMA StartsFirst ==
  ASSUME TypeInv, NEW j \in Jobs, NEW first \in Job, JobOK(first), First(first), Start(j, first)
  PROVE  /\ job[j].op = "none" /\ job[j].pc = "idle" /\ started' \in 0..MaxOps
         /\ \E x \in Job : JobOK(x) /\ Starts(j, x)
<1>1. PICK x \in Job :
        /\ JobOK(x) /\ Goes(j, x) /\ x = [first EXCEPT !.alone = x.alone]
        /\ x.alone => first.alone /\ first.op \in DocumentOps /\ \A i \in Jobs : ~OnDocuments(i)
        /\ \A k \in Jobs \ {j} : /\ job'[k] = [job[k] EXCEPT !.alone = job'[k].alone]
                                 /\ first.op \in DocumentOps => ~job'[k].alone
  BY StartGoes
<1>2. /\ x.op = first.op /\ x.pc = first.pc /\ x.bundle = first.bundle /\ x.at = first.at
      /\ x.lone = first.lone /\ x.text = first.text /\ x.docs = first.docs
  BY <1>1 DEF Job
<1>3. First(x)
  BY <1>1, <1>2 DEF First
<1>4. OnDocuments(j)' <=> first.op \in DocumentOps
  BY <1>1, <1>2 DEF OnDocuments, Goes
<1> QED
  BY <1>1, <1>3, <1>4, StartGoes DEF Starts

LEMMA BeginJob ==
  ASSUME TypeInv, NEW j \in Jobs, Begin(j)
  PROVE  /\ job[j].op = "none" /\ job[j].pc = "idle" /\ started' \in 0..MaxOps
         /\ UNCHANGED <<origin, tree, file, served, graph, code, slipped, unplanned, documentVars>>
         /\ \E x \in Job : /\ JobOK(x)
                           /\ (UNCHANGED torn /\ Starts(j, x)) \/ Reloads(j, x)
<1>1. CASE ReloadGraph(j) /\ UNCHANGED <<origin, tree, file, served, graph, code, slipped, unplanned, documentVars>>
  <2>1. PICK l \in BOOLEAN : l = (\A i \in Jobs : ~InWindow(i))
    OBVIOUS
  <2>2. PICK x : x = [Op("graph", "edges") EXCEPT !.lone = l]
    OBVIOUS
  <2>3. "graph" \in Ops /\ "edges" \in Pc
    BY DEF Ops, Pc
  <2>4. /\ x \in Job /\ x.pc = "edges" /\ x.op = "graph" /\ x.bundle = NoSnapshot /\ x.at = None
        /\ x.lone = l /\ x.docs = {} /\ x.chunk = 1
    BY <2>2, <2>3, OpJob DEF Job
  <2>5. JobOK(x)
    BY <2>4 DEF JobOK, OpsAt
  <2>6. /\ job' = [k \in Jobs |-> job'[k]] /\ job'[j] = x
        /\ \A k \in Jobs \ {j} : job'[k] = [job[k] EXCEPT !.lone = FALSE]
    BY <1>1, <2>1, <2>2 DEF ReloadGraph
  <2>7. ASSUME NEW k \in Jobs \ {j}
        PROVE  \E m \in BOOLEAN, a \in BOOLEAN :
                 /\ job'[k] = [job[k] EXCEPT !.lone = m, !.alone = a]
                 /\ (m => job[k].lone) /\ (a => job[k].alone)
    <3>1. job[k] \in Job
      BY JobType
    <3>2. job[k].alone \in BOOLEAN /\ job'[k] = [job[k] EXCEPT !.lone = FALSE, !.alone = job[k].alone]
      BY <2>6, <3>1 DEF Job
    <3> QED
      BY <3>2
  <2>8. Goes(j, x)
    BY <2>6, <2>7 DEF Goes
  <2>9. job[j].op = "none" /\ job[j].pc = "idle" /\ started' \in 0..MaxOps
    <3>1. job[j] \in Job /\ JobOK(job[j]) /\ job[j].op = "none"
      BY <1>1, JobType DEF ReloadGraph
    <3>2. job[j].pc = "idle"
      BY <3>1 DEF JobOK, OpsAt, Job, Pc
    <3>3. started' \in 0..MaxOps
      BY <1>1, MaxOpsAssumption DEF ReloadGraph, TypeInv, TypeOK
    <3> QED
      BY <3>1, <3>2, <3>3
  <2>10. Reloads(j, x)
    BY <1>1, <2>1, <2>4, <2>6, <2>8 DEF Reloads, ReloadGraph
  <2> QED
    BY <1>1, <2>4, <2>5, <2>9, <2>10
<1>2. CASE /\ \/ Sync(j) \/ Hook(j) \/ Daily(j) \/ RebuildIndex(j) \/ Bootstrap(j)
              \/ GenerateDocs(j) \/ EmbedDocs(j) \/ EmbedCodeOf(j)
              \/ Upload(j) \/ Reindex(j) \/ Delete(j)
           /\ UNCHANGED <<structureVars, documentVars>>
  <2>1. SUFFICES \E first \in Job : JobOK(first) /\ First(first) /\ Start(j, first)
    BY <1>2, StartsFirst DEF structureVars
  <2>2. /\ {"sync", "push", "daily", "rebuild", "bootstrap", "gendocs", "embedDocs", "embedCode",
            "upload", "reindex", "delete"} \subseteq Ops
        /\ {"fetch", "scan", "hash", "embedCode", "embedOne", "load", "unvector"} \subseteq Pc
        /\ Cloned \subseteq Repos
    BY DEF Ops, Pc, Cloned
  <2>3. ASSUME NEW op \in Ops, NEW pc \in Pc, NEW S \in SUBSET Repos,
               op \in OpsAt(pc), op # "bootstrap", pc \in {"fetch", "scan", "hash", "embedCode"},
               op = "daily" => pc = "fetch", Start(j, [Op(op, pc) EXCEPT !.todo = S])
        PROVE  \E first \in Job : JobOK(first) /\ First(first) /\ Start(j, first)
    BY <2>3, PlainFirst
  <2>4. CASE Sync(j)
    <3>1. PICK S \in {{r} : r \in Repos} \cup {Repos} : Start(j, [Op("sync", "fetch") EXCEPT !.todo = S])
      BY <2>4 DEF Sync
    <3>2. S \in SUBSET Repos /\ "sync" \in OpsAt("fetch")
      BY DEF OpsAt
    <3> QED
      BY <2>2, <2>3, <3>1, <3>2
  <2>5. CASE Hook(j)
    <3>1. PICK r \in Repos : Start(j, [Op("push", "fetch") EXCEPT !.todo = {r}])
      BY <2>5 DEF Hook
    <3>2. {r} \in SUBSET Repos /\ "push" \in OpsAt("fetch")
      BY DEF OpsAt
    <3> QED
      BY <2>2, <2>3, <3>1, <3>2
  <2>6. CASE Daily(j)
    <3>1. "daily" \in OpsAt("fetch") /\ Repos \in SUBSET Repos
      BY DEF OpsAt
    <3> QED
      BY <2>2, <2>3, <2>6, <3>1 DEF Daily
  <2>7. CASE RebuildIndex(j)
    <3>1. "rebuild" \in OpsAt("scan") /\ {} \in SUBSET Repos
      BY DEF OpsAt
    <3>2. Start(j, [Op("rebuild", "scan") EXCEPT !.todo = {}])
      BY <2>2, <2>7, NothingToDo DEF RebuildIndex
    <3> QED
      BY <2>2, <2>3, <3>1, <3>2
  <2>8. CASE Bootstrap(j)
    BY <2>8, BootstrapFirst DEF Bootstrap
  <2>9. CASE GenerateDocs(j)
    <3>1. PICK r \in Repos : Start(j, [Op("gendocs", "hash") EXCEPT !.todo = {r}])
      BY <2>9 DEF GenerateDocs
    <3>2. {r} \in SUBSET Repos /\ "gendocs" \in OpsAt("hash")
      BY DEF OpsAt
    <3> QED
      BY <2>2, <2>3, <3>1, <3>2
  <2>10. CASE EmbedDocs(j)
    <3>1. "embedDocs" \in OpsAt("hash")
      BY DEF OpsAt
    <3> QED
      BY <2>2, <2>3, <2>10, <3>1 DEF EmbedDocs
  <2>11. CASE EmbedCodeOf(j)
    <3>1. PICK S \in {{r} : r \in Cloned} \cup {Cloned} :
            Start(j, [Op("embedCode", "embedCode") EXCEPT !.todo = S])
      BY <2>11 DEF EmbedCodeOf
    <3>2. S \in SUBSET Repos /\ "embedCode" \in OpsAt("embedCode")
      BY <2>2 DEF OpsAt
    <3> QED
      BY <2>2, <2>3, <3>1, <3>2
  <2>12. CASE Upload(j)
    <3>1. PICK d \in Uploads, t \in 1..MaxText :
            Start(j, [Op("upload", "embedOne") EXCEPT !.docs = {d}, !.text[d] = t])
      BY <2>12 DEF Upload
    <3> QED
      BY <3>1, UploadFirst
  <2>13. CASE Reindex(j)
    <3>1. PICK d \in DocIds : Start(j, [Op("reindex", "load") EXCEPT !.docs = {d}])
      BY <2>13 DEF Reindex
    <3> QED
      BY <2>2, <3>1, DocumentFirst
  <2>14. CASE Delete(j)
    <3>1. PICK d \in DocIds : Start(j, [Op("delete", "unvector") EXCEPT !.docs = {d}])
      BY <2>14 DEF Delete
    <3> QED
      BY <2>2, <3>1, DocumentFirst
  <2> QED
    BY <1>2, <2>4, <2>5, <2>6, <2>7, <2>8, <2>9, <2>10, <2>11, <2>12, <2>13, <2>14
<1> QED
  BY <1>1, <1>2 DEF Begin
\* Steps on documents leave checkouts and snapshots alone.
Aside(x, w) ==
  /\ w.pc \notin Rebuilding /\ x.pc \notin Rebuilding
  /\ x.bundle \in {w.bundle, NoSnapshot} /\ (x.lone => w.lone)

LEMMA DocumentJob ==
  ASSUME TypeInv, NEW j \in Jobs, DocumentStep(j)
  PROVE  /\ UNCHANGED <<origin, tree, file, served, graph, slipped, torn>>
         /\ \E x \in Job : JobOK(x) /\ job' = [job EXCEPT ![j] = x] /\ Aside(x, job[j])
<1>1. job[j] \in Job /\ JobOK(job[j])
  BY JobType
<1>2. ASSUME End(j), job[j].pc \notin Rebuilding
      PROVE  \E x \in Job : JobOK(x) /\ job' = [job EXCEPT ![j] = x] /\ Aside(x, job[j])
  BY <1>2, EndJob DEF Idle, Aside, Rebuilding
<1>3. CASE Hash(j)
  BY <1>3, HashJob DEF Keeps, Dealt, Aside, Rebuilding, At, structureVars
<1>4. CASE Read(j)
  BY <1>4, ReadJob DEF Keeps, Aside, Rebuilding, At, structureVars
<1>5. CASE Store(j)
  <2>1. PICK x \in Job : /\ JobOK(x) /\ job' = [job EXCEPT ![j] = x] /\ Keeps(x, job[j])
                         /\ Dealt(x, job[j], job[j].repo)
    BY <1>5, StoreJob
  <2>2. UNCHANGED structureVars /\ job[j].pc = "store"
    BY <1>5, StoreJob DEF At
  <2> QED
    BY <2>1, <2>2 DEF Keeps, Dealt, Aside, Rebuilding, structureVars
<1>6. CASE Generation(j)
  BY <1>6, GenerationJob DEF Keeps, Idle, Aside, Rebuilding, At, structureVars
<1>7. CASE EmbedCode(j)
  BY <1>7, CodeJob DEF Keeps, Idle, Aside, Rebuilding, At
<1>8. CASE CodeEmbedded(j) \/ DropFails(j) \/ EmbedFails(j) \/ Remove(j)
  BY <1>2, <1>8 DEF CodeEmbedded, DropFails, EmbedFails, Remove, Rebuilding, EmbedPc, At, structureVars
<1>9. CASE Drop(j)
  BY <1>9, DropJob DEF Aside, Rebuilding, At, structureVars
<1>10. CASE List(j)
  BY <1>10, ListJob DEF Idle, Aside, Rebuilding, At, structureVars
<1>11. CASE Clear(j)
  BY <1>11, ClearJob DEF Aside, Rebuilding, At, structureVars
<1>12. CASE EmbedChunk(j)
  <2>1. PICK x \in Job : /\ JobOK(x) /\ job' = [job EXCEPT ![j] = x] /\ x.pc = job[j].pc
                         /\ x.bundle = job[j].bundle /\ x.lone = job[j].lone
    BY <1>12, ChunkJob
  <2>2. UNCHANGED structureVars /\ job[j].pc \in EmbedPc
    BY <1>12, ChunkJob
  <2> QED
    BY <2>1, <2>2 DEF Aside, Rebuilding, EmbedPc, structureVars
<1>13. CASE Embedded(j)
  <2>1. PICK x \in Job : /\ JobOK(x) /\ job' = [job EXCEPT ![j] = x]
                         /\ \/ x.pc \in {"insert", "list"} /\ Keeps(x, job[j])
                            \/ x.pc = "embedCode" /\ x.bundle = NoSnapshot /\ ~x.lone
                            \/ x = Idle
    BY <1>13, EmbeddedJob
  <2>2. UNCHANGED structureVars /\ job[j].pc \in EmbedPc
    BY <1>13, EmbeddedJob
  <2>3. Aside(x, job[j])
    BY <2>1, <2>2 DEF Keeps, Idle, Aside, Rebuilding, EmbedPc
  <2> QED
    BY <2>1, <2>2, <2>3 DEF structureVars
<1>14. CASE Load(j)
  <2>1. PICK x \in Job : /\ JobOK(x) /\ job' = [job EXCEPT ![j] = x]
                         /\ \/ x.pc = "unvector" /\ x.bundle = job[j].bundle /\ x.lone = job[j].lone
                            \/ x = Idle
    BY <1>14, LoadJob
  <2>2. UNCHANGED structureVars /\ job[j].pc = "load"
    BY <1>14, LoadJob DEF At
  <2>3. Aside(x, job[j])
    BY <2>1, <2>2 DEF Idle, Aside, Rebuilding
  <2> QED
    BY <2>1, <2>2, <2>3 DEF structureVars
<1>15. CASE Unvector(j)
  BY <1>15, UnvectorJob, ZenonT(60) DEF Aside, Rebuilding, At, structureVars
<1>16. CASE Insert(j)
  BY <1>2, <1>16, InsertJob DEF Rebuilding, At, structureVars
<1> QED
  BY <1>3, <1>4, <1>5, <1>6, <1>7, <1>8, <1>9, <1>10, <1>11, <1>12, <1>13, <1>14, <1>15, <1>16
  DEF DocumentStep

HistoryType == clean \subseteq DocIds /\ filed \in [DocIds -> Text] /\ behind \subseteq DocIds

LEMMA HistoryTypes ==
  ASSUME HistoryType, row \in [DocIds -> Row], NEW j \in Jobs, job[j] \in Job
  PROVE  /\ UNCHANGED historyVars => HistoryType'
         /\ \A S \in SUBSET DocIds : Touch(S) => HistoryType'
         /\ Bootstrapped(j) => HistoryType'
         /\ \A S \in SUBSET DocIds : Cover(j, S, Texts) => HistoryType'
         /\ \A d \in DocIds :
              Cover(j, {d}, job[j].text) \/ Cover(j, {d}, [e \in {d} |-> 0]) => HistoryType'
<1>1. UNCHANGED historyVars => HistoryType'
  BY DEF HistoryType, historyVars
<1>2. ASSUME NEW S \in SUBSET DocIds, Touch(S) PROVE HistoryType'
  BY <1>2 DEF HistoryType, Touch
<1>3. 0 \in Text /\ \A d \in DocIds : row[d].text \in Text /\ job[j].text[d] \in Text
  BY Bounds DEF Row, Job
<1>4. ASSUME Bootstrapped(j) PROVE HistoryType'
  <2>1. CASE job[j].alone
    <3>1. /\ clean' = DocIds
          /\ filed' = [d \in DocIds |-> IF d \in Flows THEN row[d].text ELSE 0]
          /\ behind' = StoredIn(Generated)
      BY <1>4, <2>1 DEF Bootstrapped
    <3>2. StoredIn(Generated) \subseteq DocIds
      BY DEF StoredIn, Generated
    <3> QED
      BY <1>3, <3>1, <3>2 DEF HistoryType
  <2> QED
    BY <1>1, <1>4, <2>1 DEF Bootstrapped
<1>5. ASSUME NEW S \in SUBSET DocIds, NEW text, \A d \in S : text[d] \in Text, Cover(j, S, text)
      PROVE  HistoryType'
  <2>1. CASE job[j].alone
    <3>1. /\ clean' = clean \cup S /\ behind' = behind \ S
          /\ filed' = [d \in DocIds |-> IF d \in S THEN text[d] ELSE filed[d]]
      BY <1>5, <2>1 DEF Cover
    <3> QED
      BY <1>5, <3>1 DEF HistoryType
  <2> QED
    BY <1>1, <1>5, <2>1 DEF Cover
<1>6. ASSUME NEW S \in SUBSET DocIds, Cover(j, S, Texts) PROVE HistoryType'
  <2>1. \A d \in S : Texts[d] \in Text
    BY <1>3 DEF Texts
  <2> QED
    BY <1>5, <1>6, <2>1
<1>7. ASSUME NEW d \in DocIds, Cover(j, {d}, job[j].text) \/ Cover(j, {d}, [e \in {d} |-> 0])
      PROVE  HistoryType'
  <2>1. {d} \in SUBSET DocIds /\ \A e \in {d} : job[j].text[e] \in Text /\ [f \in {d} |-> 0][e] \in Text
    BY <1>3
  <2>2. CASE Cover(j, {d}, job[j].text)
    BY <1>5, <2>1, <2>2
  <2>3. CASE Cover(j, {d}, [e \in {d} |-> 0])
    <3>1. \A e \in {d} : [f \in {d} |-> 0][e] \in Text
      BY <2>1
    <3> QED
      BY <1>5, <2>1, <2>3, <3>1
  <2> QED
    BY <1>7, <2>2, <2>3
<1> QED
  BY <1>1, <1>2, <1>4, <1>6, <1>7

LEMMA DocumentFrame ==
  ASSUME TypeInv, NEW j \in Jobs, DocumentStep(j), started' = started,
         row' \in [DocIds -> Row], \A d \in DocIds : row'[d].text = 0 => row'[d].hash = 0,
         vector' \in [VectorIds -> [1..MaxChunks -> Text]], HistoryType',
         code' \in [Repos -> Revision], \A r \in Repos : code'[r] <= tree[r], unplanned' \subseteq Repos
  PROVE  TypeInv'
<1>1. PICK x \in Job : JobOK(x) /\ job' = [job EXCEPT ![j] = x]
  BY DocumentJob
<1>2. UNCHANGED <<origin, tree, file, served, graph, slipped, torn>> /\ Goes(j, x)
  BY <1>1, DocumentJob, SoleStep
<1>3. Cloned' = Cloned
  BY <1>2 DEF Cloned
<1>4. JobOK(x)'
  BY <1>1, <1>3 DEF JobOK
<1>5. job' \in [Jobs -> Job] /\ \A k \in Jobs : JobOK(job[k])'
  BY <1>2, <1>3, <1>4, JobsType
<1>6. TypeOK'
  BY <1>2, <1>5 DEF TypeInv, TypeOK, StructureTypeOK, DocumentTypeOK, HistoryType
<1> QED
  BY <1>2, <1>5, <1>6 DEF TypeInv
LEMMA DocumentType ==
  ASSUME TypeInv, NEW j \in Jobs, DocumentStep(j), started' = started
  PROVE  TypeInv'
<1>1. /\ job[j] \in Job /\ JobOK(job[j])
      /\ row \in [DocIds -> Row] /\ \A d \in DocIds : row[d].text = 0 => row[d].hash = 0
      /\ vector \in [VectorIds -> [1..MaxChunks -> Text]] /\ HistoryType
      /\ code \in [Repos -> Revision] /\ tree \in [Repos -> Revision]
      /\ \A r \in Repos : code[r] <= tree[r]
      /\ unplanned \subseteq Repos
  BY JobType DEF TypeInv, TypeOK, StructureTypeOK, DocumentTypeOK, HistoryType
<1>2. CASE UNCHANGED <<code, unplanned, documentVars>>
  BY <1>1, <1>2, HistoryTypes, DocumentFrame DEF documentVars
<1>3. CASE Hash(j) \/ Read(j) \/ Generation(j) \/ CodeEmbedded(j) \/ DropFails(j) \/ List(j) \/ Load(j)
  BY <1>2, <1>3 DEF Hash, Read, Generation, CodeEmbedded, DropFails, List, Load, structureVars
<1>4. NoVectors \in [1..MaxChunks -> Text] /\ NoRow \in Row /\ NoRow.hash = 0
  BY Bounds DEF NoVectors, NoRow, Row
<1>5. CASE Store(j)
  <2>1. /\ job[j].repo \in DocIds /\ job[j].src \in Text /\ job[j].src # 0 /\ job[j].hash \in Revision
    BY <1>1, <1>5 DEF Store, At, JobOK, Job, DocIds, Cloned
  <2>2. [text |-> job[j].src, hash |-> job[j].hash] \in Row
    BY <2>1 DEF Row
  <2>3. row' \in [DocIds -> Row] /\ \A d \in DocIds : row'[d].text = 0 => row'[d].hash = 0
    BY <1>1, <1>5, <2>1, <2>2, StoreJob
  <2>4. UNCHANGED <<code, unplanned, vector>> /\ HistoryType'
    BY <1>1, <1>5, <2>1, StoreJob DEF structureVars, historyVars, HistoryType
  <2> QED
    BY <1>1, <2>3, <2>4, DocumentFrame
<1>6. CASE EmbedCode(j)
  <2>1. PICK r \in Repos : \/ code' = [code EXCEPT ![r] = tree[r]] /\ unplanned' = unplanned \ {r}
                           \/ code' = code /\ unplanned' = unplanned \cup {r}
    BY <1>6, CodeJob
  <2>2. \A s \in Repos : tree[s] <= tree[s]
    BY Revisions
  <2>3. /\ code' \in [Repos -> Revision] /\ unplanned' \subseteq Repos
        /\ \A s \in Repos : code'[s] <= tree[s]
    BY <1>1, <2>1, <2>2
  <2> QED
    BY <1>1, <1>6, <2>3, HistoryTypes, DocumentFrame DEF EmbedCode, documentVars
<1>7. ASSUME NEW v \in VectorIds, NEW k \in 1..MaxChunks, NEW t \in Text
      PROVE  [vector EXCEPT ![v][k] = t] \in [VectorIds -> [1..MaxChunks -> Text]]
  BY <1>1
<1>8. ASSUME NEW d \in Current(j), job[j].pc \in EmbedPc, WriteChunk(j, d) \/ vector' = vector
      PROVE  vector' \in [VectorIds -> [1..MaxChunks -> Text]]
  <2>1. /\ job[j].text[d] \in Text /\ VectorId(j, d) \in VectorIds /\ job[j].chunk \in 1..MaxChunks
    BY <1>1, <1>8, CurrentDocument DEF Job
  <2>2. PICK v \in VectorIds, k \in 1..MaxChunks, t \in Text :
          v = VectorId(j, d) /\ k = job[j].chunk /\ t = job[j].text[d]
    BY <2>1
  <2>3. vector' = [vector EXCEPT ![v][k] = t] \/ vector' = vector
    BY <1>8, <2>2 DEF WriteChunk
  <2>4. [vector EXCEPT ![v][k] = t] \in [VectorIds -> [1..MaxChunks -> Text]]
    BY <1>7
  <2> QED
    BY <1>1, <2>3, <2>4
<1>9. CASE EmbedChunk(j)
  <2>1. PICK d \in Current(j) : WriteChunk(j, d) /\ Touch({d})
    BY <1>9, ChunkJob
  <2>2. vector' \in [VectorIds -> [1..MaxChunks -> Text]] /\ HistoryType'
    BY <1>1, <1>8, <1>9, <2>1, CurrentDocument, HistoryTypes DEF EmbedChunk
  <2> QED
    BY <1>1, <1>9, <2>2, DocumentFrame DEF EmbedChunk, structureVars
<1>10. CASE EmbedFails(j)
  <2>1. PICK d \in Current(j) : (WriteChunk(j, d) \/ UNCHANGED vector) /\ Touch({d})
    BY <1>10 DEF EmbedFails
  <2>2. vector' \in [VectorIds -> [1..MaxChunks -> Text]] /\ HistoryType'
    BY <1>1, <1>8, <1>10, <2>1, CurrentDocument, HistoryTypes DEF EmbedFails
  <2> QED
    BY <1>1, <1>10, <2>2, DocumentFrame DEF EmbedFails, structureVars
<1>11. CASE Drop(j)
  <2>1. vector' \in [VectorIds -> [1..MaxChunks -> Text]] /\ HistoryType'
    BY <1>1, <1>4, <1>11, DropJob, HistoryTypes
  <2> QED
    BY <1>1, <1>11, <2>1, DropJob, DocumentFrame DEF structureVars
<1>12. CASE Clear(j)
  <2>1. vector' \in [VectorIds -> [1..MaxChunks -> Text]] /\ HistoryType'
    BY <1>1, <1>4, <1>12, ClearJob, HistoryTypes DEF Job
  <2> QED
    BY <1>1, <1>12, <2>1, ClearJob, DocumentFrame DEF structureVars
<1>14. CASE Embedded(j)
  <2>1. {d \in Generated : job[j].text[d] # 0} \subseteq DocIds /\ Flows \subseteq DocIds
    BY Rows
  <2>2. UNCHANGED <<structureVars, row, vector>> /\ HistoryType'
    BY <1>1, <1>14, <2>1, EmbeddedJob, HistoryTypes
  <2> QED
    BY <1>1, <1>14, <2>2, DocumentFrame DEF structureVars
<1>15. CASE Unvector(j)
  <2>1. PICK d \in job[j].docs, failed \in BOOLEAN :
          /\ vector' = IF failed THEN vector ELSE [vector EXCEPT ![d] = NoVectors]
          /\ Touch({d})
    BY <1>15, UnvectorJob
  <2>2. vector' \in [VectorIds -> [1..MaxChunks -> Text]] /\ HistoryType'
    BY <1>1, <1>4, <2>1, HistoryTypes DEF Job
  <2> QED
    BY <1>1, <1>15, <2>2, UnvectorJob, DocumentFrame DEF structureVars
<1>16. CASE Insert(j)
  <2>1. PICK d \in DocIds :
              /\ job[j].text[d] # 0
              /\ \/ /\ row' = [row EXCEPT ![d] = [text |-> job[j].text[d], hash |-> job[j].hash]]
                    /\ Cover(j, {d}, job[j].text)
                 \/ UNCHANGED <<row, historyVars>>
    BY <1>16, InsertJob
  <2>2. [text |-> job[j].text[d], hash |-> job[j].hash] \in Row
    BY <1>1 DEF Job, Row
  <2>3. row' \in [DocIds -> Row] /\ \A e \in DocIds : row'[e].text = 0 => row'[e].hash = 0
    BY <1>1, <2>1, <2>2
  <2>4. HistoryType'
    BY <1>1, <2>1, HistoryTypes
  <2> QED
    BY <1>1, <1>16, <2>3, <2>4, InsertJob, DocumentFrame DEF structureVars
<1>17. CASE Remove(j)
  <2>1. PICK d \in job[j].docs : \/ row' = [row EXCEPT ![d] = NoRow] /\ Cover(j, {d}, [e \in {d} |-> 0])
                                 \/ UNCHANGED <<row, historyVars>>
    BY <1>17 DEF Remove
  <2>2. d \in DocIds
    BY <1>1 DEF Job
  <2>3. /\ row' \in [DocIds -> Row] /\ \A e \in DocIds : row'[e].text = 0 => row'[e].hash = 0
        /\ HistoryType'
    BY <1>1, <1>4, <2>1, <2>2, HistoryTypes
  <2> QED
    BY <1>1, <1>17, <2>3, DocumentFrame DEF Remove, structureVars
<1> QED
  BY <1>3, <1>5, <1>6, <1>9, <1>10, <1>11, <1>12, <1>14, <1>15, <1>16, <1>17 DEF DocumentStep

LEMMA RestartType == ASSUME TypeInv, Restart PROVE TypeInv'
<1>1. Cloned' = Cloned /\ job' \in [Jobs -> Job] /\ \A k \in Jobs : job'[k] = Idle
  BY IdleJob DEF Restart, Cloned
<1>2. ASSUME NEW k \in Jobs PROVE JobOK(job[k])'
  <2>1. PICK x : x = Idle
    OBVIOUS
  <2>2. JobOK(x)
    BY <2>1, IdleJob
  <2>3. JobOK(x)'
    BY <1>1, <2>2 DEF JobOK
  <2> QED
    BY <1>1, <2>1, <2>3
<1>3. UNION {Pending(j) : j \in Jobs} \subseteq Repos
  BY JobType DEF Pending, Job
<1>4. TypeOK'
  BY <1>1, <1>3 DEF Restart, TypeInv, TypeOK, StructureTypeOK, DocumentTypeOK, documentVars, historyVars
<1> QED
  BY <1>2, <1>4 DEF Restart, TypeInv

LEMMA TypeStep == ASSUME TypeInv, [Next]_allVars PROVE TypeInv'
<1>1. ASSUME NEW r \in Repos, Commit(r), UNCHANGED <<documentVars, started>> PROVE TypeInv'
  BY <1>1, CommitType
<1>2. ASSUME NEW j \in Jobs, Begin(j) PROVE TypeInv'
  <2>1. PICK x \in Job : JobOK(x) /\ Goes(j, x)
    BY <1>2, BeginJob DEF Starts, Reloads
  <2>2. torn' \in BOOLEAN
    BY <1>2, BeginJob DEF Reloads, TypeInv, TypeOK, StructureTypeOK
  <2>3. /\ UNCHANGED <<origin, tree, file, served, graph, code, slipped, unplanned, documentVars>>
        /\ started' \in 0..MaxOps
        /\ file \in Snapshot /\ served \in Snapshot /\ graph \in Snapshot /\ unplanned \subseteq Repos
    BY <1>2, BeginJob DEF TypeInv, TypeOK, StructureTypeOK
  <2> QED
    BY <2>1, <2>2, <2>3, PublishFrame
<1>3. ASSUME NEW j \in Jobs, Step(j) PROVE TypeInv'
  BY <1>3, StructureType, DocumentType DEF Step
<1>4. CASE UNCHANGED allVars
  <2>1. \A w : JobOK(w) => JobOK(w)'
    BY <1>4 DEF JobOK, Cloned, allVars, vars, structureVars
  <2>2. TypeOK' /\ UNCHANGED <<origin, tree, code, job>>
    BY <1>4 DEF TypeInv, TypeOK, StructureTypeOK, DocumentTypeOK, allVars, vars, structureVars, documentVars, historyVars
  <2> QED
    BY <2>1, <2>2 DEF TypeInv
<1> QED
  BY <1>1, <1>2, <1>3, <1>4, RestartType DEF Next
\* What the other jobs keep.
LEMMA Others ==
  ASSUME TypeInv, NEW j \in Jobs, NEW x, Goes(j, x), NEW k \in Jobs \ {j}
  PROVE  /\ job'[k] \in Job
         /\ job'[k].op = job[k].op /\ job'[k].pc = job[k].pc /\ job'[k].todo = job[k].todo
         /\ job'[k].done = job[k].done /\ job'[k].repo = job[k].repo /\ job'[k].bundle = job[k].bundle
         /\ job'[k].hash = job[k].hash /\ job'[k].src = job[k].src /\ job'[k].docs = job[k].docs
         /\ job'[k].text = job[k].text /\ job'[k].at = job[k].at /\ job'[k].chunk = job[k].chunk
         /\ job'[k].lone => job[k].lone
         /\ job'[k].alone => job[k].alone
<1>1. job[k] \in Job
  BY JobType
<1>2. PICK l \in BOOLEAN, a \in BOOLEAN :
        /\ job'[k] = [job[k] EXCEPT !.lone = l, !.alone = a]
        /\ (l => job[k].lone) /\ (a => job[k].alone)
  BY DEF Goes
<1>3. PICK w \in Job : w = job[k]
  BY <1>1
<1>4. PICK y : y = [w EXCEPT !.lone = l, !.alone = a]
  OBVIOUS
<1>5. /\ y \in Job /\ y.lone = l /\ y.alone = a
      /\ y.op = w.op /\ y.pc = w.pc /\ y.todo = w.todo /\ y.done = w.done /\ y.repo = w.repo
      /\ y.bundle = w.bundle /\ y.hash = w.hash /\ y.src = w.src /\ y.docs = w.docs
      /\ y.text = w.text /\ y.at = w.at /\ y.chunk = w.chunk
  BY <1>4 DEF Job
<1> QED
  BY <1>2, <1>3, <1>4, <1>5

\* A step to another state than swap brings no job there.
LEMMA SwapsKept ==
  ASSUME TypeInv, NEW j \in Jobs, NEW x, Goes(j, x), x.pc # "swap"
  PROVE  \A k \in Jobs : At(k, "swap")' => At(k, "swap") /\ job'[k].bundle = job[k].bundle
<1>1. job'[j].pc # "swap"
  BY DEF Goes
<1>2. ASSUME NEW k \in Jobs \ {j} PROVE job'[k].pc = job[k].pc /\ job'[k].bundle = job[k].bundle
  BY Others
<1> QED
  BY <1>1, <1>2 DEF At

-----------------------------------------------------------------------------
(* Labels.                                                                 *)

LabelOK(w) ==
  \A r \in Repos :
    IF w.pc = "label"
    THEN w.bundle[r].src <= tree[r] /\ (r \notin slipped => w.bundle[r].src = tree[r])
    ELSE Honest(w.bundle[r], r)

HonestIn(s) == \A r \in Repos : Honest(s[r], r)

LEMMA LabelParts ==
  LabelInv <=> /\ HonestIn(file) /\ HonestIn(served) /\ HonestIn(graph)
               /\ \A j \in Jobs : LabelOK(job[j])
BY DEF LabelInv, LabelOK, HonestIn, At

LEMMA SnapshotType ==
  ASSUME NEW b \in Snapshot, NEW r \in Repos
  PROVE  b[r] \in [sha: Revision, src: Revision] /\ b[r].sha \in Nat /\ b[r].src \in Nat
BY Bounds DEF Snapshot

LEMMA NothingIsHonest == ASSUME TypeInv PROVE HonestIn(NoSnapshot)
BY Revisions DEF HonestIn, Honest, NoSnapshot

LEMMA LabelStart == ASSUME Init PROVE LabelInv
BY TypeStart, NothingIsHonest, LabelParts DEF LabelOK, HonestIn, Idle, Init, StructureInit

\* Steps that check nothing out.
LEMMA LabelFrame ==
  ASSUME TypeInv, LabelInv, NEW j \in Jobs, NEW x \in Job, Goes(j, x), LabelOK(x),
         UNCHANGED <<tree, slipped>>, HonestIn(file'), HonestIn(served'), HonestIn(graph')
  PROVE  LabelInv'
<1>1. ASSUME NEW e, NEW r \in Repos, Honest(e, r) PROVE Honest(e, r)'
  BY <1>1 DEF Honest
<1>2. HonestIn(file)' /\ HonestIn(served)' /\ HonestIn(graph)'
  BY <1>1 DEF HonestIn
<1>3. ASSUME NEW w, LabelOK(w) PROVE LabelOK(w)'
  BY <1>3, <1>1 DEF LabelOK
<1>4. ASSUME NEW k \in Jobs PROVE LabelOK(job[k])'
  <2>1. CASE k = j
    BY <1>3, <2>1 DEF Goes
  <2>2. CASE k # j
    <3>1. LabelOK(job[k])
      BY LabelParts
    <3>2. job'[k].pc = job[k].pc /\ job'[k].bundle = job[k].bundle
      BY <2>2, Others
    <3>3. LabelOK(job'[k])
      BY <3>1, <3>2 DEF LabelOK
    <3>4. PICK w : w = job'[k]
      OBVIOUS
    <3>5. LabelOK(w)'
      BY <1>3, <3>3, <3>4
    <3> QED
      BY <3>4, <3>5
  <2> QED
    BY <2>1, <2>2
<1> QED
  BY <1>2, <1>4 DEF LabelInv, HonestIn, LabelOK, At
LEMMA FetchJob ==
  ASSUME TypeInv, NEW j \in Jobs, Fetch(j)
  PROVE  /\ At(j, "fetch") /\ UNCHANGED <<origin, file, served, graph, code, torn, unplanned>>
         /\ \E r \in job[j].todo :
              \/ /\ tree' = [tree EXCEPT ![r] = origin[r]]
                 /\ slipped' = IF tree[r] # origin[r] /\ \E k \in Jobs : At(k, "label")
                               THEN slipped \cup {r} ELSE slipped
              \/ UNCHANGED <<tree, slipped>>
         /\ \E x \in Job :
              /\ JobOK(x) /\ job' = [job EXCEPT ![j] = x]
              /\ \/ x = Idle
                 \/ /\ x.pc = "fetch" /\ SameDocs(x, job[j]) /\ x.bundle = job[j].bundle
                    /\ x.lone = job[j].lone /\ x.alone = job[j].alone
<1>1. PICK r \in job[j].todo :
        \/ /\ tree' = [tree EXCEPT ![r] = origin[r]]
           /\ job' = [job EXCEPT ![j].todo = @ \ {r}, ![j].done = @ \cup {r}]
           /\ slipped' = IF tree[r] # origin[r] /\ \E k \in Jobs : At(k, "label")
                         THEN slipped \cup {r} ELSE slipped
        \/ /\ IF job[j].op = "push" THEN End(j)
              ELSE job' = [job EXCEPT ![j].todo = @ \ {r}]
           /\ UNCHANGED <<tree, slipped>>
  BY DEF Fetch
<1>2. job[j] \in Job /\ r \in Repos /\ job[j].pc = "fetch"
  BY <1>1, JobType DEF Fetch, At, Job
<1>3. PICK x : /\ x \in {Idle, [job[j] EXCEPT !.todo = @ \ {r}, !.done = @ \cup {r}],
                         [job[j] EXCEPT !.todo = @ \ {r}]}
               /\ job' = [job EXCEPT ![j] = x]
  BY <1>1, <1>2 DEF End, TypeInv, TypeOK, StructureTypeOK
<1>4. \/ x = Idle /\ x \in Job
      \/ /\ x \in Job /\ x.pc = "fetch" /\ SameDocs(x, job[j]) /\ x.bundle = job[j].bundle
         /\ x.lone = job[j].lone /\ x.alone = job[j].alone
  <2>1. job[j].todo \ {r} \in SUBSET Repos /\ job[j].done \cup {r} \in SUBSET Repos
    BY <1>2 DEF Job
  <2>2. CASE x = [job[j] EXCEPT !.todo = @ \ {r}, !.done = @ \cup {r}]
    BY <1>2, <2>1, <2>2 DEF Job, SameDocs
  <2>3. CASE x = [job[j] EXCEPT !.todo = @ \ {r}]
    BY <1>2, <2>1, <2>3 DEF Job, SameDocs
  <2> QED
    BY <1>3, <2>2, <2>3, IdleJob
<1>5. At(j, "fetch") /\ UNCHANGED <<origin, file, served, graph, code, torn, unplanned>>
  BY DEF Fetch
<1>6. JobOK(x)
  <2>1. JobOK(job[j])
    BY JobType
  <2> QED
    BY <1>2, <1>4, <2>1, IdleJob DEF JobOK, SameDocs
<1> QED
  BY <1>1, <1>3, <1>4, <1>5, <1>6

LEMMA LabelFetch ==
  ASSUME TypeInv, LabelInv, NEW j \in Jobs, Fetch(j)
  PROVE  LabelInv'
<1>1. PICK r \in job[j].todo :
        \/ /\ tree' = [tree EXCEPT ![r] = origin[r]]
           /\ slipped' = IF tree[r] # origin[r] /\ \E k \in Jobs : At(k, "label")
                         THEN slipped \cup {r} ELSE slipped
        \/ UNCHANGED <<tree, slipped>>
  BY FetchJob
<1>2. PICK x \in Job : /\ job' = [job EXCEPT ![j] = x] /\ x.pc # "label"
                       /\ x.bundle \in {job[j].bundle, NoSnapshot}
  BY FetchJob DEF Idle
<1>3. /\ tree \in [Repos -> Revision] /\ r \in Repos /\ UNCHANGED <<file, served, graph>>
      /\ job[j].pc = "fetch" /\ job[j].bundle \in Snapshot
      /\ file \in Snapshot /\ served \in Snapshot /\ graph \in Snapshot
  BY <1>1, JobType, FetchJob DEF At, Job, TypeInv, TypeOK, StructureTypeOK
<1>4. ASSUME NEW s \in Repos
      PROVE  /\ tree[s] \in Nat /\ tree'[s] \in Nat /\ tree[s] <= tree'[s]
             /\ s \notin slipped' => s \notin slipped /\ (tree'[s] = tree[s] \/ \A k \in Jobs : ~At(k, "label"))
  BY <1>1, <1>3, Revisions
<1>5. ASSUME NEW b \in Snapshot, HonestIn(b), NEW s \in Repos PROVE Honest(b[s], s)'
  BY <1>4, <1>5, SnapshotType DEF HonestIn, Honest
<1>6. HonestIn(file)' /\ HonestIn(served)' /\ HonestIn(graph)'
  BY <1>3, <1>5, LabelParts DEF HonestIn
<1>7. ASSUME NEW k \in Jobs PROVE LabelOK(job[k])'
  <2>1. CASE k = j
    <3>1. HonestIn(job[j].bundle) /\ HonestIn(NoSnapshot)
      BY <1>3, LabelParts, NothingIsHonest DEF LabelOK, HonestIn
    <3>2. HonestIn(x.bundle) /\ x.bundle \in Snapshot
      BY <1>2, <3>1 DEF Job
    <3>3. PICK b \in Snapshot : b = x.bundle /\ HonestIn(b)
      BY <3>2
    <3>4. job'[k] = x
      BY <1>2, <2>1 DEF TypeInv, TypeOK, StructureTypeOK
    <3> QED
      BY <1>2, <1>5, <3>3, <3>4 DEF LabelOK
  <2>2. CASE k # j
    <3>1. job'[k] = job[k] /\ LabelOK(job[k]) /\ job[k].bundle \in Snapshot
      BY <1>2, <2>2, JobType, LabelParts DEF Job, TypeInv, TypeOK, StructureTypeOK
    <3>2. CASE At(k, "label")
      <4>1. ASSUME NEW s \in Repos
            PROVE  /\ job[k].bundle[s].src <= tree'[s]
                   /\ s \notin slipped' => job[k].bundle[s].src = tree'[s]
        <5>1. job[k].bundle[s].src \in Nat
          BY <3>1, SnapshotType
        <5>2. /\ job[k].bundle[s].src <= tree[s]
              /\ s \notin slipped => job[k].bundle[s].src = tree[s]
          BY <3>1, <3>2 DEF LabelOK, At
        <5> QED
          BY <1>4, <3>2, <5>1, <5>2
      <4> QED
        BY <3>1, <3>2, <4>1 DEF LabelOK, At
    <3>3. CASE ~At(k, "label")
      <4>1. HonestIn(job[k].bundle)
        BY <3>1, <3>3 DEF LabelOK, HonestIn, At
      <4>2. PICK b \in Snapshot : b = job[k].bundle /\ HonestIn(b)
        BY <3>1, <4>1
      <4> QED
        BY <1>5, <3>1, <3>3, <4>2 DEF LabelOK, At
    <3> QED
      BY <3>2, <3>3
  <2> QED
    BY <2>1, <2>2
<1> QED
  BY <1>6, <1>7 DEF LabelInv, HonestIn, LabelOK, At
LEMMA LabelRebuild ==
  ASSUME TypeInv, LabelInv, NEW j \in Jobs, NEW x \in Job, Indexes(x, job[j])
  PROVE  LabelOK(x)
<1>1. job[j] \in Job /\ job[j].bundle \in Snapshot /\ LabelOK(job[j])
  BY JobType, LabelParts DEF Job
<1>2. CASE x.bundle = job[j].bundle /\ x.pc # "label" /\ job[j].pc # "label"
  BY <1>1, <1>2 DEF LabelOK
<1>3. CASE x.pc = "label" /\ x.bundle = Scanned
  BY <1>3, Revisions DEF Scanned, LabelOK
<1>4. CASE job[j].pc = "label" /\ x.pc = "rename" /\ x.bundle = Labelled(job[j].bundle)
  <2>1. ASSUME NEW r \in Repos PROVE Honest(x.bundle[r], r)
    <3>1. PICK e \in [sha: Revision, src: Revision] : e = job[j].bundle[r] /\ e.src \in Nat
      BY <1>1, SnapshotType
    <3>2. e.src <= tree[r] /\ (r \notin slipped => e.src = tree[r])
      BY <1>1, <1>4, <3>1 DEF LabelOK
    <3>3. x.bundle[r] = [e EXCEPT !.sha = IF e.src = 0 THEN 0 ELSE tree[r]]
      BY <1>4, <3>1 DEF Labelled
    <3>4. x.bundle[r].src = e.src /\ x.bundle[r].sha = IF e.src = 0 THEN 0 ELSE tree[r]
      BY <3>1, <3>3
    <3> QED
      BY <3>1, <3>2, <3>4, Revisions DEF Honest
  <2> QED
    BY <1>4, <2>1 DEF LabelOK
<1> QED
  BY <1>2, <1>3, <1>4 DEF Indexes

LEMMA LabelStructure ==
  ASSUME TypeInv, LabelInv, NEW j \in Jobs, StructureStep(j)
  PROVE  LabelInv'
<1>1. /\ job[j] \in Job /\ job[j].bundle \in Snapshot /\ LabelOK(job[j]) /\ HonestIn(NoSnapshot)
      /\ HonestIn(file) /\ HonestIn(served) /\ HonestIn(graph)
  BY JobType, LabelParts, NothingIsHonest DEF Job
<1>2. ASSUME NEW x, x.pc # "label", HonestIn(x.bundle) PROVE LabelOK(x)
  BY <1>2 DEF LabelOK, HonestIn
<1>3. LabelOK(Idle)
  BY <1>1, <1>2 DEF Idle
<1>4. ASSUME job[j].pc # "label" PROVE HonestIn(job[j].bundle)
  BY <1>1, <1>4 DEF LabelOK, HonestIn
<1>5. CASE Fetched(j) \/ Detect(j) \/ Scan(j) \/ Label(j)
  <2>1. PICK x \in Job : job' = [job EXCEPT ![j] = x] /\ (x = Idle \/ Indexes(x, job[j]))
    BY <1>5, RebuildJob
  <2>2. LabelOK(x) /\ Goes(j, x)
    BY <1>3, <2>1, LabelRebuild, SoleStep
  <2>3. UNCHANGED structureVars
    BY <1>5 DEF Fetched, Detect, Scan, Label
  <2> QED
    BY <1>1, <2>2, <2>3, LabelFrame DEF structureVars
<1>6. ASSUME End(j), UNCHANGED <<tree, file, served, graph, slipped>> PROVE LabelInv'
  BY <1>1, <1>3, <1>6, EndGoes, IdleJob, LabelFrame
<1>7. CASE Rename(j)
  <2>1. CASE End(j) /\ UNCHANGED <<file, torn, unplanned>>
    BY <1>6, <1>7, <2>1, RenameJob
  <2>2. CASE ~(End(j) /\ UNCHANGED <<file, torn, unplanned>>)
    <3>1. PICK x \in Job : /\ Goes(j, x) /\ file' = job[j].bundle /\ x.pc = "open"
                           /\ x.bundle = job[j].bundle
      BY <1>7, <2>2, RenameJob
    <3>2. /\ UNCHANGED <<tree, served, graph, slipped>> /\ HonestIn(job[j].bundle)
      BY <1>4, <1>7, RenameJob DEF At
    <3> QED
      BY <1>1, <1>2, <3>1, <3>2, LabelFrame
  <2> QED
    BY <2>1, <2>2
<1>8. CASE Open(j) \/ Swap(j) \/ Edges(j)
  <2>1. UNCHANGED <<tree, file, graph, slipped>> /\ HonestIn(job[j].bundle)
    BY <1>4, <1>8, WindowJob DEF InWindow, Window
  <2>2. CASE Abandon(j) /\ served' = served
    BY <1>6, <2>1, <2>2 DEF Abandon
  <2>3. CASE ~(Abandon(j) /\ served' = served)
    <3>1. PICK x \in Job : /\ job' = [job EXCEPT ![j] = x] /\ x.pc # "label"
                           /\ x.bundle \in {file, served, job[j].bundle}
                           /\ served' \in {served, job[j].bundle}
      BY <1>8, <2>3, WindowJob
    <3>2. HonestIn(x.bundle) /\ HonestIn(served')
      BY <1>1, <2>1, <3>1
    <3> QED
      BY <1>1, <1>2, <2>1, <3>1, <3>2, SoleStep, LabelFrame
  <2> QED
    BY <2>2, <2>3
<1>9. CASE RebuildGraph(j)
  <2>1. /\ UNCHANGED <<tree, file, served, slipped>> /\ HonestIn(job[j].bundle)
        /\ graph' = job[j].bundle
    BY <1>4, <1>9, GraphJob DEF At
  <2>2. PICK x \in Job : /\ job' = [job EXCEPT ![j] = x] /\ x.pc # "label"
                         /\ x.bundle = NoSnapshot
    BY <1>9, GraphJob DEF Idle
  <2> QED
    BY <1>1, <1>2, <2>1, <2>2, SoleStep, LabelFrame
<1> QED
  BY <1>5, <1>7, <1>8, <1>9, LabelFetch DEF StructureStep

LEMMA LabelStep == ASSUME TypeInv, LabelInv, [Next]_allVars PROVE LabelInv'
<1>1. ASSUME NEW r \in Repos, Commit(r) PROVE LabelInv'
  BY <1>1 DEF Commit, LabelInv, Honest, At
<1>2. HonestIn(file) /\ HonestIn(served) /\ HonestIn(graph) /\ HonestIn(NoSnapshot)
  BY LabelParts, NothingIsHonest
<1>3. ASSUME NEW j \in Jobs, NEW x \in Job, Goes(j, x), x.pc # "label", HonestIn(x.bundle),
             UNCHANGED <<tree, file, served, graph, slipped>>
      PROVE  LabelInv'
  <2>1. LabelOK(x)
    BY <1>3 DEF LabelOK, HonestIn
  <2> QED
    BY <1>2, <1>3, <2>1, LabelFrame
<1>4. ASSUME NEW j \in Jobs, Begin(j) PROVE LabelInv'
  <2>1. PICK x \in Job : Starts(j, x) \/ Reloads(j, x)
    BY <1>4, BeginJob
  <2>2. Goes(j, x) /\ x.pc # "label" /\ x.bundle = NoSnapshot
    BY <2>1 DEF Starts, First, Reloads
  <2> QED
    BY <1>2, <1>3, <1>4, <2>2, BeginJob
<1>5. ASSUME NEW j \in Jobs, DocumentStep(j) PROVE LabelInv'
  <2>1. PICK x \in Job : job' = [job EXCEPT ![j] = x] /\ Aside(x, job[j])
    BY <1>5, DocumentJob
  <2>2. HonestIn(job[j].bundle)
    BY <2>1, LabelParts DEF LabelOK, HonestIn, Aside, Rebuilding
  <2>3. x.pc # "label" /\ (x.bundle = job[j].bundle \/ x.bundle = NoSnapshot)
    BY <2>1 DEF Aside, Rebuilding
  <2>4. HonestIn(x.bundle)
    BY <1>2, <2>2, <2>3
  <2>5. Goes(j, x)
    BY <2>1, SoleStep
  <2> QED
    BY <1>3, <1>5, <2>3, <2>4, <2>5, DocumentJob
<1>6. CASE Restart
  <2>1. /\ \A k \in Jobs : job'[k] = Idle
        /\ UNCHANGED <<tree, file, slipped>> /\ served' = file /\ graph' = file
    BY <1>6 DEF Restart
  <2>2. ASSUME NEW e, NEW r \in Repos, Honest(e, r) PROVE Honest(e, r)'
    BY <2>1, <2>2 DEF Honest
  <2>3. PICK b : b = file
    OBVIOUS
  <2>4. PICK n : n = NoSnapshot
    OBVIOUS
  <2>5. \A r \in Repos : Honest(b[r], r)' /\ Honest(n[r], r)'
    BY <1>2, <2>2, <2>3, <2>4 DEF HonestIn
  <2> QED
    BY <2>1, <2>3, <2>4, <2>5 DEF LabelInv, Idle, At
<1>7. CASE UNCHANGED allVars
  BY <1>7 DEF LabelInv, Honest, At, allVars, vars, structureVars
<1> QED
  BY <1>1, <1>4, <1>5, <1>6, <1>7, LabelStructure DEF Next, Step
-----------------------------------------------------------------------------
(* Publications.                                                           *)

LEMMA ServedStart == ASSUME Init PROVE ServedInv
BY DEF Init, StructureInit, ServedInv, PublishedIsServed, Idle, InWindow, Window, Orderly, At

\* Who shares the window with whom.
LEMMA Window1 ==
  ASSUME ServedInv, NEW j \in Jobs, NEW k \in Jobs \ {j}, InWindow(j)
  PROVE  ~job[k].lone /\ (InWindow(k) => torn /\ ~job[j].lone)
BY DEF ServedInv

\* Steps before and after the window.
LEMMA ServedFrame ==
  ASSUME TypeInv, ServedInv, NEW j \in Jobs, NEW x, Goes(j, x),
         ~InWindow(j), x.pc \notin Window, x.lone => job[j].lone,
         UNCHANGED <<file, served, graph, torn>>
  PROVE  ServedInv'
<1>1. /\ job'[j] = x /\ ~job[j].lone
      /\ \A k \in Jobs \ {j} : /\ job'[k].op = job[k].op /\ job'[k].pc = job[k].pc
                               /\ job'[k].bundle = job[k].bundle
                               /\ job'[k].lone => job[k].lone
  BY Others DEF Goes, ServedInv
<1>2. \A k \in Jobs : InWindow(k)' <=> InWindow(k)
  BY <1>1 DEF InWindow
<1>3. PublishedIsServed'
  BY <1>2 DEF ServedInv, PublishedIsServed
<1>4. ASSUME NEW k \in Jobs, ~torn \/ (job'[k].lone /\ job'[k].op # "graph")
      PROVE  Orderly(k)'
  <2>1. CASE k = j
    BY <1>1, <2>1 DEF Orderly, At, Window
  <2>2. CASE k # j
    BY <1>1, <1>4, <2>2 DEF ServedInv, Orderly, At
  <2> QED
    BY <2>1, <2>2
<1>5. \A k \in Jobs : job'[k].lone => InWindow(k)' /\ \A i \in Jobs \ {k} : ~InWindow(i)'
  BY <1>1, <1>2 DEF ServedInv
<1> QED
  BY <1>2, <1>3, <1>4, <1>5 DEF ServedInv

\* A rename, and a reload of the graph from outside.
LEMMA ServedEntry ==
  ASSUME TypeInv, ServedInv, NEW j \in Jobs, NEW x, Goes(j, x), ~InWindow(j),
         x.pc = "open" \/ (x.pc = "edges" /\ file' = file), UNCHANGED <<served, graph>>,
         x.lone = (\A i \in Jobs : ~InWindow(i)),
         \A k \in Jobs \ {j} : job'[k] = [job[k] EXCEPT !.lone = FALSE],
         torn' = (torn \/ \E k \in Jobs : InWindow(k)), x.op = "graph" \/ x.pc = "open"
  PROVE  ServedInv'
<1>1. /\ job'[j] = x /\ InWindow(j)'
      /\ \A k \in Jobs \ {j} : job'[k].pc = job[k].pc /\ ~job'[k].lone
  <2>1. job'[j] = x /\ InWindow(j)'
    BY DEF Goes, InWindow, Window
  <2>2. ASSUME NEW k \in Jobs \ {j} PROVE job'[k].pc = job[k].pc /\ ~job'[k].lone
    BY JobType DEF Job
  <2> QED
    BY <2>1, <2>2
<1>2. /\ x.lone => \A k \in Jobs \ {j} : ~InWindow(k)'
      /\ ~torn' => ~torn /\ \A k \in Jobs : ~InWindow(k)
      /\ ~torn' => \A k \in Jobs \ {j} : ~InWindow(k)'
  BY <1>1 DEF InWindow
<1>3. ASSUME NEW k \in Jobs, ~torn' \/ (job'[k].lone /\ job'[k].op # "graph")
      PROVE  Orderly(k)'
  <2>1. CASE k = j
    <3>1. CASE x.pc = "open"
      BY <1>1, <2>1, <3>1 DEF Orderly, At
    <3>2. CASE x.pc = "edges" /\ file' = file
      <4>1. served = file
        BY <1>1, <1>2, <1>3, <2>1, <3>2 DEF ServedInv, PublishedIsServed
      <4> QED
        BY <1>1, <2>1, <3>2, <4>1 DEF Orderly, At
    <3> QED
      BY <3>1, <3>2
  <2>2. CASE k # j
    BY <1>1, <1>2, <1>3, <2>2 DEF Orderly, At, InWindow, Window
  <2> QED
    BY <2>1, <2>2
<1> QED
  BY <1>1, <1>2, <1>3 DEF ServedInv, PublishedIsServed

LEMMA ServedWindow ==
  ASSUME TypeInv, ServedInv, NEW j \in Jobs, Open(j) \/ Swap(j) \/ Edges(j)
  PROVE  ServedInv'
<1>1. UNCHANGED <<file, graph>> /\ InWindow(j)
  BY WindowJob
<1>2. \A k \in Jobs \ {j} : ~job[k].lone /\ (InWindow(k) => torn /\ ~job[j].lone)
  BY <1>1, Window1
<1>3. CASE Abandon(j) /\ served' = served
  <2>1. /\ torn' = TRUE /\ job'[j] = Idle /\ \A k \in Jobs \ {j} : job'[k] = job[k]
    BY <1>3, EndGoes DEF Abandon, Goes
  <2> QED
    BY <1>1, <1>2, <2>1 DEF ServedInv, PublishedIsServed, Orderly, InWindow, Window, At, Idle
<1>4. CASE ~(Abandon(j) /\ served' = served)
  <2>1. PICK x \in Job :
          /\ job' = [job EXCEPT ![j] = x] /\ x.lone = job[j].lone /\ x.op = job[j].op
          /\ UNCHANGED torn
          /\ \/ At(j, "open") /\ x.pc = "swap" /\ x.bundle = file /\ served' = served
             \/ At(j, "swap") /\ x.pc = "edges" /\ x.bundle = job[j].bundle /\ served' = x.bundle
             \/ At(j, "edges") /\ x.pc = "graph" /\ x.bundle = served /\ served' = served
    BY <1>4, WindowJob DEF SameDocs
  <2>2. job'[j] = x /\ \A k \in Jobs \ {j} : job'[k] = job[k]
    BY <2>1 DEF TypeInv, TypeOK, StructureTypeOK
  <2>3. InWindow(j)' /\ \A k \in Jobs \ {j} : InWindow(k)' <=> InWindow(k)
    BY <2>1, <2>2 DEF InWindow, Window
  <2>4. ASSUME NEW k \in Jobs, ~torn' \/ (job'[k].lone /\ job'[k].op # "graph")
        PROVE  Orderly(k)'
    <3>1. CASE k = j
      <4>1. Orderly(j)
        BY <2>1, <2>2, <2>4, <3>1 DEF ServedInv
      <4> QED
        BY <1>1, <2>1, <2>2, <3>1, <4>1 DEF Orderly, At
    <3>2. CASE k # j
      BY <1>2, <2>1, <2>2, <2>4, <3>2 DEF Orderly, At, InWindow, Window
    <3> QED
      BY <3>1, <3>2
  <2> QED
    BY <1>1, <1>2, <2>1, <2>2, <2>3, <2>4 DEF ServedInv, PublishedIsServed
<1> QED
  BY <1>3, <1>4

LEMMA ServedGraph ==
  ASSUME TypeInv, ServedInv, NEW j \in Jobs, RebuildGraph(j)
  PROVE  ServedInv'
<1>1. /\ UNCHANGED <<file, served>> /\ graph' = job[j].bundle
      /\ job[j].pc = "graph" /\ InWindow(j)
      /\ torn' = (torn /\ ~(job[j].lone /\ job[j].op # "graph"))
  BY GraphJob DEF At, InWindow, Window
<1>2. \A k \in Jobs \ {j} : ~job[k].lone /\ (InWindow(k) => torn /\ ~job[j].lone)
  BY <1>1, Window1
<1>3. PICK x : job' = [job EXCEPT ![j] = x] /\ ~x.lone /\ x.pc \notin Window
  BY GraphJob DEF Idle, Window
<1>4. job'[j] = x /\ \A k \in Jobs \ {j} : job'[k] = job[k]
  BY <1>3 DEF TypeInv, TypeOK, StructureTypeOK
<1>5. ~InWindow(j)' /\ \A k \in Jobs \ {j} : InWindow(k)' <=> InWindow(k)
  BY <1>3, <1>4 DEF InWindow
<1>6. ASSUME ~torn'
      PROVE  /\ served' = file' /\ graph' = file'
             /\ \A k \in Jobs : ~InWindow(k)'
  <2>1. Orderly(j)
    BY <1>1, <1>6 DEF ServedInv
  <2> QED
    BY <1>1, <1>2, <1>5, <1>6, <2>1 DEF Orderly, At
<1>7. \A k \in Jobs : ~job'[k].lone
  BY <1>2, <1>3, <1>4
<1>8. ASSUME NEW k \in Jobs, ~torn' PROVE Orderly(k)'
  BY <1>6, <1>8 DEF Orderly, At, InWindow, Window
<1> QED
  BY <1>6, <1>7, <1>8 DEF ServedInv, PublishedIsServed

LEMMA ServedStep == ASSUME TypeInv, ServedInv, [Next]_allVars PROVE ServedInv'
<1>1. ASSUME NEW r \in Repos, Commit(r) PROVE ServedInv'
  BY <1>1 DEF Commit, ServedInv, PublishedIsServed, Orderly, InWindow, At
<1>2. ASSUME NEW j \in Jobs, Begin(j) PROVE ServedInv'
  <2>1. /\ job[j].pc = "idle" /\ UNCHANGED <<file, served, graph>> /\ ~InWindow(j)
    BY <1>2, BeginJob DEF InWindow, Window
  <2>2. PICK x \in Job : (UNCHANGED torn /\ Starts(j, x)) \/ Reloads(j, x)
    BY <1>2, BeginJob
  <2>3. CASE UNCHANGED torn /\ Starts(j, x)
    BY <2>1, <2>3, ServedFrame DEF Starts, First, Window
  <2>4. CASE Reloads(j, x)
    BY <2>1, <2>4, ServedEntry DEF Reloads
  <2> QED
    BY <2>2, <2>3, <2>4
<1>3. ASSUME NEW j \in Jobs, DocumentStep(j) PROVE ServedInv'
  <2>1. PICK x \in Job : job' = [job EXCEPT ![j] = x] /\ Aside(x, job[j])
    BY <1>3, DocumentJob
  <2>2. ~InWindow(j) /\ x.pc \notin Window /\ (x.lone => job[j].lone) /\ Goes(j, x)
    BY <2>1, SoleStep DEF Aside, Rebuilding, InWindow, Window
  <2> QED
    BY <1>3, <2>2, DocumentJob, ServedFrame
<1>4. ASSUME NEW j \in Jobs, StructureStep(j) PROVE ServedInv'
  <2>1. CASE Fetch(j)
    <3>1. PICK x : job' = [job EXCEPT ![j] = x] /\ x.pc \notin Window /\ (x.lone => job[j].lone)
      BY <2>1, FetchJob DEF Idle, Window
    <3>2. ~InWindow(j) /\ UNCHANGED <<file, served, graph, torn>> /\ Goes(j, x)
      BY <2>1, <3>1, FetchJob, SoleStep DEF At, InWindow, Window
    <3> QED
      BY <3>1, <3>2, ServedFrame
  <2>2. CASE Fetched(j) \/ Detect(j) \/ Scan(j) \/ Label(j)
    <3>1. PICK x : job' = [job EXCEPT ![j] = x] /\ (x = Idle \/ Indexes(x, job[j]))
      BY <2>2, RebuildJob
    <3>2. x.pc \notin Window /\ (x.lone => job[j].lone)
      BY <3>1 DEF Idle, Indexes, Window
    <3>3. Goes(j, x)
      BY <3>1, SoleStep
    <3>4. ~InWindow(j) /\ UNCHANGED <<file, served, graph, torn>>
      BY <2>2, RebuildJob DEF InWindow, Window, Fetched, Detect, Scan, Label, structureVars
    <3> QED
      BY <3>2, <3>3, <3>4, ServedFrame
  <2>3. CASE Rename(j)
    <3>1. ~InWindow(j) /\ UNCHANGED <<served, graph>>
      BY <2>3, RenameJob DEF At, InWindow, Window
    <3>2. CASE End(j) /\ UNCHANGED <<file, torn, unplanned>>
      BY <3>1, <3>2, EndGoes, ServedFrame DEF Idle, Window
    <3>3. CASE ~(End(j) /\ UNCHANGED <<file, torn, unplanned>>)
      <4>1. PICK x : /\ Goes(j, x) /\ x.pc = "open" /\ x.lone = (\A i \in Jobs : ~InWindow(i))
                     /\ \A k \in Jobs \ {j} : job'[k] = [job[k] EXCEPT !.lone = FALSE]
                     /\ torn' = (torn \/ \E k \in Jobs : InWindow(k))
        BY <2>3, <3>3, RenameJob
      <4> QED
        BY <3>1, <4>1, ServedEntry
    <3> QED
      BY <3>2, <3>3
  <2> QED
    BY <1>4, <2>1, <2>2, <2>3, ServedWindow, ServedGraph DEF StructureStep
<1>5. CASE Restart
  <2>1. /\ \A k \in Jobs : job'[k] = Idle
        /\ served' = file' /\ graph' = file'
    BY <1>5 DEF Restart
  <2> QED
    BY <2>1 DEF ServedInv, PublishedIsServed, Orderly, InWindow, Window, At, Idle
<1>6. CASE UNCHANGED allVars
  BY <1>6 DEF ServedInv, PublishedIsServed, Orderly, InWindow, At, allVars, vars, structureVars
<1> QED
  BY <1>1, <1>2, <1>3, <1>4, <1>5, <1>6 DEF Next, Step
-----------------------------------------------------------------------------
(* Generated documents.                                                    *)

FreshRow(r) == row[r].text # 0 => Hashes(row[r].text, row[r].hash)

FreshJob(w) ==
  /\ w.pc = "read" => Hashes(tree[w.repo], w.hash)
  /\ w.pc = "store" => Hashes(w.src, w.hash)
  /\ w.pc = "load" => \A d \in DocIds : w.text[d] = 0
  /\ w.pc \in {"unvector", "embedOne", "insert"} =>
       \A r \in Repos : w.text[r] # 0 => Hashes(w.text[r], w.hash)

LEMMA FreshParts == FreshInv <=> (\A r \in Repos : FreshRow(r)) /\ \A j \in Jobs : FreshJob(job[j])
BY DEF FreshInv, FreshRow, FreshJob, At

LEMMA FreshStart == ASSUME Init PROVE FreshInv
<1>1. \A r \in Repos : r \in DocIds
  BY DEF DocIds
<1> QED
  BY <1>1 DEF Init, StructureInit, DocumentInit, FreshInv, At, Idle, NoRow

\* The checkouts only grow.
LEMMA FreshFrame ==
  ASSUME TypeInv, FreshInv, NEW j \in Jobs, NEW x \in Job, JobOK(x), Goes(j, x), FreshJob(x),
         tree' \in [Repos -> Nat], \A r \in Repos : tree[r] <= tree'[r],
         \A r \in Repos : FreshRow(r)'
  PROVE  FreshInv'
<1>1. ASSUME NEW w \in Job, JobOK(w), FreshJob(w) PROVE FreshJob(w)'
  <2>1. CASE w.pc = "read"
    <3>1. w.repo \in Repos
      BY <1>1, <2>1 DEF JobOK, Cloned
    <3>2. PICK m \in Nat, n \in Nat : m = tree[w.repo] /\ n = tree'[w.repo] /\ m <= n
      BY <3>1, Revisions
    <3>3. Hashes(m, w.hash)
      BY <1>1, <2>1, <3>2 DEF FreshJob
    <3>4. Hashes(n, w.hash)
      BY <3>2, <3>3 DEF Hashes
    <3>5. Hashes(tree[w.repo], w.hash)'
      BY <3>2, <3>4 DEF Hashes
    <3> QED
      BY <2>1, <3>5 DEF FreshJob
  <2>2. CASE w.pc # "read"
    BY <1>1, <2>2 DEF FreshJob, Hashes
  <2> QED
    BY <2>1, <2>2
<1>2. ASSUME NEW k \in Jobs PROVE FreshJob(job[k])'
  <2>1. CASE k = j
    BY <1>1, <2>1 DEF Goes
  <2>2. CASE k # j
    <3>1. /\ job'[k] \in Job /\ job'[k].op = job[k].op /\ job'[k].pc = job[k].pc
          /\ job'[k].repo = job[k].repo
          /\ job'[k].hash = job[k].hash /\ job'[k].src = job[k].src /\ job'[k].docs = job[k].docs
          /\ job'[k].text = job[k].text /\ job'[k].at = job[k].at /\ job'[k].chunk = job[k].chunk
      BY <2>2, Others
    <3>2. JobOK(job[k]) /\ FreshJob(job[k])
      BY JobType, FreshParts
    <3>3. PICK w \in Job : w = job'[k]
      BY <3>1
    <3>4. JobOK(w)
      BY <3>1, <3>2, <3>3 DEF JobOK
    <3>5. FreshJob(w)
      BY <3>1, <3>2, <3>3 DEF FreshJob
    <3> QED
      BY <1>1, <3>3, <3>4, <3>5
  <2> QED
    BY <2>1, <2>2
<1> QED
  BY <1>2, FreshParts DEF FreshInv, FreshRow, FreshJob, Hashes, At

LEMMA FreshDocument ==
  ASSUME TypeInv, FreshInv, NEW j \in Jobs, DocumentStep(j)
  PROVE  FreshInv'
<1>1. /\ job[j] \in Job /\ JobOK(job[j]) /\ FreshJob(job[j])
      /\ row \in [DocIds -> Row] /\ tree' = tree /\ tree \in [Repos -> Nat]
      /\ \A r \in Repos : FreshRow(r) /\ tree[r] <= tree[r] /\ r \in DocIds
  BY JobType, FreshParts, Revisions, DocumentJob, Bounds
  DEF TypeInv, TypeOK, StructureTypeOK, DocumentTypeOK, DocIds
<1>2. ASSUME NEW x \in Job, JobOK(x), job' = [job EXCEPT ![j] = x], FreshJob(x),
             \A r \in Repos : FreshRow(r)'
      PROVE  FreshInv'
  BY <1>1, <1>2, SoleStep, FreshFrame
<1>3. ASSUME NEW x \in Job, JobOK(x), job' = [job EXCEPT ![j] = x], FreshJob(x), UNCHANGED row
      PROVE  FreshInv'
  BY <1>1, <1>2, <1>3 DEF FreshRow, Hashes
<1>4. ASSUME NEW w, w.pc \notin {"read", "store", "load", "unvector", "embedOne", "insert"}
      PROVE  FreshJob(w)
  BY <1>4 DEF FreshJob
<1>5. FreshJob(Idle)
  BY <1>4 DEF Idle
<1>6. ASSUME End(j), UNCHANGED row PROVE FreshInv'
  BY <1>3, <1>5, <1>6, IdleJob DEF End
<1>7. CASE CodeEmbedded(j) \/ DropFails(j) \/ EmbedFails(j)
  BY <1>6, <1>7 DEF CodeEmbedded, DropFails, EmbedFails, documentVars
<1>8. CASE Hash(j)
  <2>1. PICK r \in job[j].todo \cap Cloned, x \in Job :
              /\ JobOK(x) /\ job' = [job EXCEPT ![j] = x]
              /\ \/ Dealt(x, job[j], r)
                 \/ x.pc = "read" /\ x.repo = r /\ x.hash = Digest[tree[r]]
    BY <1>8, HashJob
  <2>2. r \in Repos /\ tree[r] \in Nat /\ tree[r] > 0
    BY Revisions DEF Cloned
  <2>3. FreshJob(x)
    BY <1>1, <2>1, <2>2 DEF Dealt, FreshJob, Hashes
  <2> QED
    BY <1>3, <1>8, <2>1, <2>3 DEF Hash, documentVars
<1>9. CASE Read(j)
  <2>1. PICK x \in Job :
              /\ JobOK(x) /\ job' = [job EXCEPT ![j] = x]
              /\ x.pc = "store" /\ x.src = tree[job[j].repo] /\ x.hash = job[j].hash
              /\ x.repo = job[j].repo
    BY <1>9, ReadJob
  <2>2. job[j].pc = "read" /\ job[j].repo \in Repos
    BY <1>1, <1>9 DEF Read, At, JobOK, Cloned
  <2>3. FreshJob(x)
    BY <1>1, <2>1, <2>2 DEF FreshJob
  <2> QED
    BY <1>3, <1>9, <2>1, <2>3 DEF Read, documentVars
<1>10. CASE Store(j)
  <2>1. PICK x \in Job : JobOK(x) /\ job' = [job EXCEPT ![j] = x] /\ x.pc \in {"hash", "embedCode"}
    BY <1>10, StoreJob DEF Dealt
  <2>2. FreshJob(x)
    BY <1>4, <2>1
  <2>3. CASE UNCHANGED row
    BY <1>3, <2>1, <2>2, <2>3
  <2>4. CASE row' = [row EXCEPT ![job[j].repo] = [text |-> job[j].src, hash |-> job[j].hash]]
    <3>1. job[j].repo \in Repos /\ Hashes(job[j].src, job[j].hash)
      BY <1>1, <1>10 DEF Store, At, FreshJob, JobOK, Cloned
    <3>2. \A r \in Repos : FreshRow(r)'
      BY <1>1, <2>4, <3>1 DEF FreshRow, Hashes
    <3> QED
      BY <1>2, <2>1, <2>2, <3>2
  <2> QED
    BY <1>10, <2>3, <2>4, StoreJob
<1>11. CASE Generation(j)
  <2>1. PICK x \in Job : JobOK(x) /\ job' = [job EXCEPT ![j] = x] /\ x.pc \in {"idle", "list", "drop"}
    BY <1>11, GenerationJob DEF Idle
  <2> QED
    BY <1>3, <1>4, <1>11, <2>1 DEF Generation, documentVars
<1>12. CASE EmbedCode(j)
  <2>1. PICK x \in Job : JobOK(x) /\ job' = [job EXCEPT ![j] = x] /\ x.pc \in {"idle", "hash", "embedCode"}
    BY <1>12, CodeJob DEF Idle
  <2> QED
    BY <1>3, <1>4, <1>12, <2>1 DEF EmbedCode, documentVars
<1>13. CASE Drop(j)
  <2>1. PICK x \in Job : JobOK(x) /\ job' = [job EXCEPT ![j] = x] /\ x.pc = "embedKnowledge"
    BY <1>13, DropJob
  <2> QED
    BY <1>3, <1>4, <1>13, <2>1 DEF Drop
<1>14. CASE List(j)
  <2>1. PICK x \in Job : JobOK(x) /\ job' = [job EXCEPT ![j] = x] /\ x.pc \in {"idle", "clear"}
    BY <1>14, ListJob DEF Idle
  <2> QED
    BY <1>3, <1>4, <1>14, <2>1 DEF List, documentVars
<1>15. CASE Clear(j)
  <2>1. PICK x \in Job : JobOK(x) /\ job' = [job EXCEPT ![j] = x] /\ x.pc = "embedGenerated"
    BY <1>15, ClearJob
  <2> QED
    BY <1>3, <1>4, <1>15, <2>1 DEF Clear
<1>16. CASE EmbedChunk(j)
  <2>1. PICK x \in Job : /\ JobOK(x) /\ job' = [job EXCEPT ![j] = x]
                         /\ x.pc = job[j].pc /\ x.text = job[j].text /\ x.hash = job[j].hash
    BY <1>16, ChunkJob
  <2>2. FreshJob(x)
    BY <1>1, <1>16, <2>1 DEF EmbedChunk, EmbedPc, FreshJob
  <2> QED
    BY <1>3, <1>16, <2>1, <2>2 DEF EmbedChunk
<1>17. CASE Embedded(j)
  <2>1. PICK x \in Job : /\ JobOK(x) /\ job' = [job EXCEPT ![j] = x]
                         /\ \/ x = Idle
                            \/ x.pc \in {"list", "embedCode"}
                            \/ /\ At(j, "embedOne") /\ x.pc = "insert"
                               /\ Keeps(x, job[j]) /\ x.hash = job[j].hash
    BY <1>17, EmbeddedJob
  <2>2. FreshJob(x)
    BY <1>1, <1>5, <2>1 DEF FreshJob, Keeps, At
  <2> QED
    BY <1>3, <1>17, <2>1, <2>2 DEF Embedded
<1>18. CASE Load(j)
  <2>0. PICK d \in DocIds : \E x \in Job :
              /\ job[j].docs = {d}
              /\ JobOK(x) /\ job' = [job EXCEPT ![j] = x]
              /\ \/ x = Idle
                 \/ /\ x.pc = "unvector" /\ x.op = "reindex" /\ x.docs = {d} /\ x.at = None
                    /\ Stored(d) /\ x.hash = row[d].hash /\ x.text = [job[j].text EXCEPT ![d] = row[d].text]
                    /\ x.bundle = job[j].bundle /\ x.lone = job[j].lone /\ x.alone = job[j].alone
    BY <1>18, LoadJob, Zenon
  <2>1. PICK x \in Job :
              /\ JobOK(x) /\ job' = [job EXCEPT ![j] = x]
              /\ \/ x = Idle
                 \/ /\ x.pc = "unvector"
                    /\ x.hash = row[d].hash /\ x.text = [job[j].text EXCEPT ![d] = row[d].text]
    BY <2>0, Zenon
  <2>2. FreshJob(x)
    <3>1. CASE x = Idle
      BY <1>5, <3>1
    <3>2. CASE x # Idle
      <4>1. \A e \in DocIds : job[j].text[e] = 0
        BY <1>1, <1>18 DEF Load, At, FreshJob
      <4>2. ASSUME NEW r \in Repos, x.text[r] # 0 PROVE Hashes(x.text[r], x.hash)
        <5>1. job[j].text \in [DocIds -> Text]
          BY <1>1 DEF Job
        <5>2. r = d /\ x.text[r] = row[r].text /\ x.hash = row[r].hash
          BY <1>1, <2>1, <3>2, <4>1, <4>2, <5>1
        <5>3. Hashes(row[r].text, row[r].hash)
          BY <1>1, <4>2, <5>2 DEF FreshRow
        <5> QED
          BY <5>2, <5>3
      <4> QED
        BY <2>1, <3>2, <4>2 DEF FreshJob
    <3> QED
      BY <3>1, <3>2
  <2> QED
    BY <1>3, <1>18, <2>1, <2>2 DEF Load, documentVars
<1>19. CASE Unvector(j)
  <2>1. PICK x \in Job : /\ JobOK(x) /\ job' = [job EXCEPT ![j] = x] /\ x.pc \in {"remove", "embedOne"}
                         /\ x.text = job[j].text /\ x.hash = job[j].hash
    BY <1>19, UnvectorJob DEF SameDocs
  <2>2. FreshJob(x)
    BY <1>1, <1>19, <2>1 DEF Unvector, At, FreshJob
  <2> QED
    BY <1>3, <1>19, <2>1, <2>2 DEF Unvector
<1>20. CASE Insert(j)
  <2>1. PICK d \in DocIds :
              /\ job[j].text[d] # 0
              /\ \/ row' = [row EXCEPT ![d] = [text |-> job[j].text[d], hash |-> job[j].hash]]
                 \/ UNCHANGED row
    BY <1>20, InsertJob
  <2>2. End(j)
    BY <1>20 DEF Insert
  <2>3. CASE row' = [row EXCEPT ![d] = [text |-> job[j].text[d], hash |-> job[j].hash]]
    <3>1. d \in Repos => Hashes(job[j].text[d], job[j].hash)
      BY <1>1, <1>20, <2>1 DEF Insert, At, FreshJob
    <3>2. \A r \in Repos : FreshRow(r)'
      BY <1>1, <2>3, <3>1 DEF FreshRow, Hashes
    <3> QED
      BY <1>2, <1>5, <2>2, <3>2, IdleJob DEF End
  <2> QED
    BY <1>6, <2>1, <2>2, <2>3
<1>21. CASE Remove(j)
  <2>1. PICK d \in job[j].docs : row' = [row EXCEPT ![d] = NoRow] \/ UNCHANGED row
    BY <1>21 DEF Remove
  <2>2. End(j) /\ d \in DocIds
    BY <1>1, <1>21 DEF Remove, Job
  <2>3. CASE row' = [row EXCEPT ![d] = NoRow]
    <3>1. NoRow.text = 0
      BY DEF NoRow
    <3>2. \A r \in Repos : FreshRow(r)'
      BY <1>1, <2>2, <2>3, <3>1 DEF FreshRow, Hashes
    <3> QED
      BY <1>2, <1>5, <2>2, <3>2, IdleJob DEF End
  <2> QED
    BY <1>6, <2>1, <2>2, <2>3
<1> QED
  BY <1>7, <1>8, <1>9, <1>10, <1>11, <1>12, <1>13, <1>14, <1>15, <1>16, <1>17, <1>18, <1>19, <1>20, <1>21
  DEF DocumentStep
LEMMA FreshStep == ASSUME TypeInv, FreshInv, [Next]_allVars PROVE FreshInv'
<1>1. /\ row \in [DocIds -> Row] /\ tree \in [Repos -> Nat]
      /\ \A r \in Repos : FreshRow(r) /\ tree[r] <= tree[r]
  BY FreshParts, Revisions, Bounds DEF TypeInv, TypeOK, StructureTypeOK, DocumentTypeOK
<1>2. ASSUME NEW j \in Jobs, NEW x \in Job, JobOK(x), Goes(j, x), FreshJob(x), UNCHANGED <<tree, row>>
      PROVE  FreshInv'
  BY <1>1, <1>2, FreshFrame DEF FreshRow, Hashes
<1>3. ASSUME NEW r \in Repos, Commit(r), UNCHANGED documentVars PROVE FreshInv'
  BY <1>3 DEF Commit, FreshInv, Hashes, At, documentVars
<1>4. ASSUME NEW j \in Jobs, Begin(j) PROVE FreshInv'
  <2>1. PICK x \in Job : JobOK(x) /\ Goes(j, x) /\ (First(x) \/ x.pc = "edges")
    BY <1>4, BeginJob DEF Starts, Reloads
  <2>2. FreshJob(x)
    <3>1. CASE x.pc \notin {"load", "unvector", "embedOne"}
      BY <2>1, <3>1 DEF First, FreshJob
    <3>2. CASE x.pc \in {"load", "unvector"}
      <4>1. \A d \in DocIds : x.text[d] = 0
        BY <2>1, <3>2 DEF First
      <4> QED
        BY <3>2, <4>1 DEF FreshJob, DocIds
    <3>3. CASE x.pc = "embedOne"
      <4>1. PICK d \in Uploads : \A e \in DocIds \ {d} : x.text[e] = 0
        BY <2>1, <3>3 DEF First
      <4>2. \A r \in Repos : x.text[r] = 0
        BY <4>1, IdAssumption DEF DocIds
      <4> QED
        BY <3>3, <4>2 DEF FreshJob
    <3> QED
      BY <3>1, <3>2, <3>3
  <2> QED
    BY <1>2, <1>4, <2>1, <2>2, BeginJob DEF documentVars
<1>5. ASSUME NEW j \in Jobs, StructureStep(j), UNCHANGED documentVars PROVE FreshInv'
  <2>1. ASSUME NEW x \in Job, JobOK(x), Goes(j, x), x.pc \in Rebuilding \cup {"idle", "detect", "hash", "drop"},
               UNCHANGED tree
        PROVE  FreshInv'
    <3>1. FreshJob(x)
      BY <2>1 DEF FreshJob, Rebuilding
    <3> QED
      BY <1>2, <1>5, <2>1, <3>1 DEF documentVars
  <2>2. ASSUME End(j), UNCHANGED tree PROVE FreshInv'
    <3>1. PICK x \in Job : JobOK(x) /\ job' = [job EXCEPT ![j] = x] /\ x.pc = "idle"
      BY <2>2, EndJob DEF Idle
    <3> QED
      BY <2>1, <2>2, <3>1, SoleStep
  <2>3. CASE Fetch(j)
    <3>1. PICK x \in Job : JobOK(x) /\ job' = [job EXCEPT ![j] = x] /\ x.pc \in {"idle", "fetch"}
      BY <2>3, FetchJob DEF Idle
    <3>2. PICK r \in job[j].todo : tree' = [tree EXCEPT ![r] = origin[r]] \/ UNCHANGED tree
      BY <2>3, FetchJob
    <3>3. r \in Repos
      BY JobType DEF Job
    <3>4. \A s \in Repos : origin[s] \in Nat /\ tree[s] <= origin[s]
      BY Revisions
    <3>5. tree' \in [Repos -> Nat] /\ \A s \in Repos : tree[s] <= tree'[s]
      BY <1>1, <3>2, <3>3, <3>4
    <3>6. \A s \in Repos : FreshRow(s)'
      BY <1>1, <1>5 DEF FreshRow, Hashes, documentVars
    <3>7. FreshJob(x) /\ Goes(j, x)
      BY <3>1, SoleStep DEF FreshJob
    <3> QED
      BY <3>1, <3>5, <3>6, <3>7, FreshFrame
  <2>4. CASE Fetched(j) \/ Detect(j) \/ Scan(j) \/ Label(j)
    <3>1. PICK x \in Job : JobOK(x) /\ job' = [job EXCEPT ![j] = x] /\ (x = Idle \/ Indexes(x, job[j]))
      BY <2>4, RebuildJob
    <3>2. x.pc \in Rebuilding \cup {"idle", "detect", "hash", "drop"}
      BY <3>1 DEF Idle, Indexes, Rebuilding
    <3>3. Goes(j, x)
      BY <3>1, SoleStep
    <3> QED
      BY <2>1, <2>4, <3>1, <3>2, <3>3 DEF Fetched, Detect, Scan, Label, structureVars
  <2>5. CASE Rename(j)
    <3>1. CASE End(j) /\ UNCHANGED <<file, torn, unplanned>>
      BY <2>2, <2>5, <3>1, RenameJob
    <3>2. CASE ~(End(j) /\ UNCHANGED <<file, torn, unplanned>>)
      <4>1. PICK x \in Job : JobOK(x) /\ Goes(j, x) /\ x.pc = "open"
        BY <2>5, <3>2, RenameJob
      <4> QED
        BY <2>1, <2>5, <4>1, RenameJob DEF Rebuilding
    <3> QED
      BY <3>1, <3>2
  <2>6. CASE Open(j) \/ Swap(j) \/ Edges(j)
    <3>1. CASE Abandon(j)
      BY <2>2, <2>6, <3>1, WindowJob DEF Abandon
    <3>2. CASE ~Abandon(j)
      <4>1. PICK x \in Job : JobOK(x) /\ job' = [job EXCEPT ![j] = x] /\ x.pc \in {"swap", "edges", "graph"}
        BY <2>6, <3>2, WindowJob
      <4> QED
        BY <2>1, <2>6, <4>1, WindowJob, SoleStep DEF Rebuilding
    <3> QED
      BY <3>1, <3>2
  <2>7. CASE RebuildGraph(j)
    <3>1. PICK x \in Job : JobOK(x) /\ job' = [job EXCEPT ![j] = x] /\ x.pc \in {"idle", "hash", "drop"}
      BY <2>7, GraphJob DEF Idle
    <3> QED
      BY <2>1, <2>7, <3>1, GraphJob, SoleStep
  <2> QED
    BY <1>5, <2>3, <2>4, <2>5, <2>6, <2>7 DEF StructureStep
<1>6. CASE Restart
  <2>1. \A r \in Repos : FreshRow(r)
    BY FreshParts
  <2> QED
    BY <1>6, <2>1 DEF Restart, FreshInv, FreshRow, Hashes, At, Idle, documentVars
<1>7. CASE UNCHANGED allVars
  BY <1>7 DEF FreshInv, Hashes, At, allVars, vars, structureVars, documentVars
<1> QED
  BY <1>3, <1>4, <1>5, <1>6, <1>7, FreshDocument DEF Next, Step
-----------------------------------------------------------------------------
(* Code vectors.                                                           *)

Unpublished(r) ==
  /\ file[r].sha # tree[r] /\ served[r].sha # tree[r]
  /\ \A j \in Jobs : At(j, "swap") => job[j].bundle[r].sha # tree[r]

LEMMA PlanParts ==
  PlanInv <=> \A r \in Repos \ unplanned : code[r] # tree[r] /\ ~Planned(r) => Unpublished(r)
BY DEF PlanInv, Unpublished

LEMMA PlanStart == ASSUME Init PROVE PlanInv
BY DEF Init, StructureInit, PlanInv

LEMMA PlanKept ==
  ASSUME TypeInv, NEW j \in Jobs, NEW x, Goes(j, x), NEW r \in Repos,
         Plans(job[j], r) => Plans(x, r), Planned(r)
  PROVE  Planned(r)'
<1>1. PICK k \in Jobs : Plans(job[k], r)
  BY DEF Planned
<1>2. CASE k = j
  <2>1. Plans(job'[j], r)
    BY <1>1, <1>2 DEF Goes
  <2> QED
    BY <2>1 DEF Planned, Plans
<1>3. CASE k # j
  <2>1. /\ job'[k].op = job[k].op /\ job'[k].pc = job[k].pc
        /\ job'[k].todo = job[k].todo /\ job'[k].done = job[k].done
    BY <1>3, Others
  <2> QED
    BY <1>1, <2>1 DEF Planned, Plans
<1> QED
  BY <1>2, <1>3

\* Steps that neither check out nor publish.
LEMMA PlanFrame ==
  ASSUME TypeInv, PlanInv, NEW j \in Jobs, NEW x, Goes(j, x), x.pc # "swap",
         UNCHANGED <<tree, file, served>>,
         \A r \in Repos \ unplanned' : code'[r] # tree[r] =>
           r \notin unplanned /\ code[r] # tree[r] /\ (Plans(job[j], r) => Plans(x, r))
  PROVE  PlanInv'
<1>1. ASSUME NEW r \in Repos \ unplanned', code'[r] # tree[r], ~Planned(r)'
      PROVE  Unpublished(r)'
  <2>1. Unpublished(r)
    BY <1>1, PlanKept, PlanParts
  <2>2. \A k \in Jobs : At(k, "swap")' => At(k, "swap") /\ job'[k].bundle = job[k].bundle
    BY SwapsKept
  <2> QED
    BY <2>1, <2>2 DEF Unpublished
<1> QED
  BY <1>1 DEF PlanInv, Unpublished

LEMMA PlanFetch ==
  ASSUME TypeInv, LabelInv, PlanInv, NEW j \in Jobs, Fetch(j)
  PROVE  PlanInv'
<1>1. PICK s \in job[j].todo : tree' = [tree EXCEPT ![s] = origin[s]] \/ UNCHANGED tree
  BY FetchJob
<1>2. PICK x \in Job : job' = [job EXCEPT ![j] = x] /\ x.pc \in {"idle", "fetch"}
  BY FetchJob DEF Idle
<1>3. /\ job[j] \in Job /\ job[j].pc = "fetch" /\ UNCHANGED <<file, served, code, unplanned>>
      /\ Goes(j, x) /\ file \in Snapshot /\ served \in Snapshot
  BY <1>2, JobType, FetchJob, SoleStep DEF At, TypeInv, TypeOK, StructureTypeOK
<1>4. ASSUME NEW r \in Repos \ unplanned', code'[r] # tree'[r], ~Planned(r)'
      PROVE  Unpublished(r)'
  <2>1. ~Planned(r) /\ r \notin unplanned
    BY <1>3, <1>4, PlanKept DEF Plans, Window
  <2>2. \A k \in Jobs : At(k, "swap")' => At(k, "swap") /\ job'[k].bundle = job[k].bundle
    BY <1>2, <1>3, Others DEF Goes, At
  <2>3. CASE tree'[r] = tree[r]
    <3>1. Unpublished(r)
      BY <1>3, <1>4, <2>1, <2>3, PlanParts
    <3> QED
      BY <1>3, <2>2, <2>3, <3>1 DEF Unpublished
  <2>4. CASE tree'[r] # tree[r]
    <3>1. tree'[r] = origin[r]
      BY <1>1, <2>4 DEF TypeInv, TypeOK, StructureTypeOK
    <3>2. /\ tree[r] \in Nat /\ tree'[r] \in Nat /\ tree[r] < tree'[r]
      BY <2>4, <3>1, Revisions
    <3>3. ASSUME NEW b \in Snapshot, b[r].sha <= tree[r] PROVE b[r].sha # tree'[r]
      BY <3>2, <3>3, SnapshotType
    <3>4. file[r].sha <= tree[r] /\ served[r].sha <= tree[r]
      BY LabelParts DEF HonestIn, Honest
    <3>5. ASSUME NEW k \in Jobs, At(k, "swap") PROVE job[k].bundle[r].sha # tree'[r]
      <4>1. job[k].bundle \in Snapshot /\ LabelOK(job[k])
        BY JobType, LabelParts DEF Job
      <4>2. job[k].bundle[r].sha <= tree[r]
        BY <3>5, <4>1 DEF LabelOK, Honest, At
      <4> QED
        BY <3>3, <4>1, <4>2
    <3> QED
      BY <1>3, <2>2, <3>3, <3>4, <3>5 DEF Unpublished
  <2> QED
    BY <2>3, <2>4
<1> QED
  BY <1>4 DEF PlanInv, Unpublished

LEMMA PlanRename ==
  ASSUME TypeInv, PlanInv, NEW j \in Jobs, Rename(j)
  PROVE  PlanInv'
<1>1. job[j] \in Job /\ job[j].pc = "rename" /\ UNCHANGED <<tree, served, code>>
  BY JobType, RenameJob DEF At
<1>2. \A r \in Repos : ~Plans(job[j], r)
  BY <1>1 DEF Plans, Window
<1>3. CASE End(j) /\ UNCHANGED <<file, torn, unplanned>>
  BY <1>1, <1>2, <1>3, EndGoes, PlanFrame DEF Idle
<1>4. CASE ~(End(j) /\ UNCHANGED <<file, torn, unplanned>>)
  <2>1. PICK x \in Job :
          /\ Goes(j, x) /\ x.op = job[j].op /\ x.pc = "open" /\ x.done = job[j].done
          /\ file' = job[j].bundle
          /\ unplanned' = {r \in Repos :
                           IF file[r].sha = file'[r].sha THEN r \in unplanned
                           ELSE job[j].op # "daily" \/ r \notin job[j].done}
    BY <1>4, RenameJob DEF SameDocs
  <2>2. ASSUME NEW r \in Repos \ unplanned', code'[r] # tree'[r], ~Planned(r)'
        PROVE  Unpublished(r)'
    <3>1. job'[j] = x
      BY <2>1 DEF Goes
    <3>2. ~Plans(x, r)
      BY <2>2, <3>1 DEF Planned, Plans
    <3>3. file'[r].sha = file[r].sha /\ r \notin unplanned
      BY <2>1, <2>2, <3>2 DEF Plans, Window
    <3>4. ~Planned(r)
      BY <1>2, <2>1, <2>2, PlanKept
    <3>5. Unpublished(r)
      BY <1>1, <2>2, <3>3, <3>4, PlanParts
    <3>6. \A k \in Jobs : At(k, "swap")' => At(k, "swap") /\ job'[k].bundle = job[k].bundle
      BY <2>1, SwapsKept
    <3> QED
      BY <1>1, <3>3, <3>5, <3>6 DEF Unpublished
  <2> QED
    BY <2>2 DEF PlanInv, Unpublished
<1> QED
  BY <1>3, <1>4

LEMMA PlanWindow ==
  ASSUME TypeInv, PlanInv, NEW j \in Jobs, Open(j) \/ Swap(j) \/ Edges(j)
  PROVE  PlanInv'
<1>1. /\ UNCHANGED <<tree, file, code>> /\ job[j].pc \in Window
  BY WindowJob DEF InWindow
<1>2. CASE Abandon(j) /\ served' = served
  <2>1. Goes(j, Idle) /\ unplanned' = unplanned \cup Pending(j)
    BY <1>2, EndGoes DEF Abandon
  <2>2. \A r \in Repos : Plans(job[j], r) => r \in Pending(j)
    BY DEF Plans, Pending
  <2>3. \A r \in Repos \ unplanned' : r \notin unplanned /\ ~Plans(job[j], r)
    BY <2>1, <2>2
  <2>4. Idle.pc # "swap"
    BY DEF Idle
  <2> QED
    BY <1>1, <1>2, <2>1, <2>3, <2>4, PlanFrame
<1>3. CASE ~(Abandon(j) /\ served' = served)
  <2>1. PICK x \in Job :
          /\ job' = [job EXCEPT ![j] = x] /\ x.op = job[j].op /\ x.done = job[j].done
          /\ UNCHANGED unplanned
          /\ \/ At(j, "open") /\ x.pc = "swap" /\ x.bundle = file /\ served' = served
             \/ At(j, "swap") /\ x.pc = "edges" /\ served' = job[j].bundle
             \/ x.pc = "graph" /\ served' = served
    BY <1>3, WindowJob DEF SameDocs
  <2>2. Goes(j, x) /\ job'[j] = x /\ x.pc \in Window
    BY <2>1, SoleStep DEF Window, Goes
  <2>3. ASSUME NEW r \in Repos \ unplanned', code'[r] # tree'[r], ~Planned(r)'
        PROVE  Unpublished(r)'
    <3>1. Plans(job[j], r) => Plans(x, r)
      BY <1>1, <2>1, <2>2 DEF Plans, Window
    <3>2. Unpublished(r)
      BY <1>1, <2>1, <2>2, <2>3, <3>1, PlanKept, PlanParts
    <3>3. served'[r].sha # tree[r]
      BY <2>1, <3>2 DEF Unpublished
    <3>4. \A k \in Jobs \ {j} : At(k, "swap")' => At(k, "swap") /\ job'[k].bundle = job[k].bundle
      BY <2>2, Others DEF At
    <3>5. At(j, "swap")' => job'[j].bundle = file
      BY <2>1, <2>2 DEF At
    <3> QED
      BY <1>1, <3>2, <3>3, <3>4, <3>5 DEF Unpublished
  <2> QED
    BY <2>3 DEF PlanInv, Unpublished
<1> QED
  BY <1>2, <1>3
LEMMA PlanGraph ==
  ASSUME TypeInv, PlanInv, NEW j \in Jobs, RebuildGraph(j)
  PROVE  PlanInv'
<1>1. UNCHANGED <<tree, file, served, code, unplanned>> /\ job[j].pc = "graph"
  BY GraphJob DEF At
<1>2. PICK x \in Job :
        /\ job' = [job EXCEPT ![j] = x]
        /\ \/ x = Idle /\ job[j].op # "daily"
           \/ /\ x.pc = "hash" /\ x.op = "daily" /\ x.todo = job[j].done
           \/ x.pc = "drop" /\ x.op = "bootstrap" /\ x.op = job[j].op
  BY GraphJob DEF SameDocs
<1>3. x.pc # "swap" /\ \A r \in Repos : Plans(job[j], r) => Plans(x, r)
  BY <1>1, <1>2 DEF Idle, Plans, Window
<1>4. Goes(j, x)
  BY <1>2, SoleStep
<1> QED
  BY <1>1, <1>3, <1>4, PlanFrame

LEMMA PlanDocument ==
  ASSUME TypeInv, PlanInv, NEW j \in Jobs, DocumentStep(j)
  PROVE  PlanInv'
<1>1. UNCHANGED <<tree, file, served>> /\ job[j] \in Job /\ JobOK(job[j])
  BY JobType, DocumentJob
<1>2. ASSUME NEW x, job' = [job EXCEPT ![j] = x], x.pc # "swap", UNCHANGED <<code, unplanned>>,
             \A r \in Repos : code[r] # tree[r] /\ Plans(job[j], r) => Plans(x, r)
      PROVE  PlanInv'
  BY <1>1, <1>2, SoleStep, PlanFrame
<1>3. CASE Hash(j)
  <2>1. PICK r \in job[j].todo, x \in Job :
              /\ job' = [job EXCEPT ![j] = x] /\ Keeps(x, job[j])
              /\ \/ Dealt(x, job[j], r)
                 \/ x.pc = "read" /\ x.todo = job[j].todo
    BY <1>3, HashJob
  <2>2. job[j].pc = "hash" /\ UNCHANGED <<code, unplanned>>
    BY <1>3 DEF Hash, At, structureVars
  <2>3. x.pc # "swap" /\ \A s \in Repos : Plans(job[j], s) => Plans(x, s)
    BY <2>1, <2>2 DEF Keeps, Dealt, Plans, Window
  <2> QED
    BY <1>2, <2>1, <2>2, <2>3
<1>4. CASE Read(j)
  <2>1. PICK x \in Job : /\ job' = [job EXCEPT ![j] = x] /\ Keeps(x, job[j])
                         /\ x.pc = "store" /\ x.todo = job[j].todo
    BY <1>4, ReadJob
  <2>2. job[j].pc = "read" /\ UNCHANGED <<code, unplanned>>
    BY <1>4 DEF Read, At, structureVars
  <2>3. x.pc # "swap" /\ \A s \in Repos : Plans(job[j], s) => Plans(x, s)
    BY <2>1, <2>2 DEF Keeps, Plans, Window
  <2> QED
    BY <1>2, <2>1, <2>2, <2>3
<1>5. CASE Store(j)
  <2>1. PICK x \in Job : /\ job' = [job EXCEPT ![j] = x] /\ Keeps(x, job[j])
                         /\ Dealt(x, job[j], job[j].repo)
    BY <1>5, StoreJob
  <2>2. job[j].pc = "store" /\ UNCHANGED <<code, unplanned>>
    BY <1>5 DEF Store, At, structureVars
  <2>3. x.pc # "swap" /\ \A s \in Repos : Plans(job[j], s) => Plans(x, s)
    BY <2>1, <2>2 DEF Keeps, Dealt, Plans, Window
  <2> QED
    BY <1>2, <2>1, <2>2, <2>3
<1>6. CASE Generation(j)
  <2>1. PICK x \in Job : job' = [job EXCEPT ![j] = x] /\ x.pc \in {"idle", "list", "drop"}
    BY <1>6, GenerationJob DEF Idle
  <2>2. job[j].pc = "hash" /\ job[j].todo \cap Cloned = {} /\ UNCHANGED <<code, unplanned>>
    BY <1>6 DEF Generation, At, structureVars
  <2>3. ASSUME NEW s \in Repos, Plans(job[j], s) PROVE code[s] = tree[s]
    <3>1. s \notin Cloned
      BY <2>2, <2>3 DEF Plans, Window
    <3> QED
      BY <3>1, Revisions DEF Cloned
  <2> QED
    BY <1>2, <2>1, <2>2, <2>3
<1>7. CASE EmbedCode(j)
  <2>1. PICK r \in Repos, x \in Job :
          /\ job' = [job EXCEPT ![j] = x]
          /\ \/ x.pc = "hash" /\ x.op = "daily" /\ x.todo = job[j].todo \ {r}
             \/ x.pc \in {"idle", "embedCode"} /\ job[j].op # "daily"
          /\ \/ code' = [code EXCEPT ![r] = tree[r]] /\ unplanned' = unplanned \ {r}
             \/ code' = code /\ unplanned' = unplanned \cup {r}
    BY <1>7, CodeJob DEF Keeps, Idle
  <2>2. job[j].pc = "embedCode" /\ code \in [Repos -> Revision]
    BY <1>7 DEF EmbedCode, At, TypeInv, TypeOK, StructureTypeOK
  <2>3. ASSUME NEW s \in Repos \ unplanned', code'[s] # tree[s]
        PROVE  s # r /\ s \notin unplanned /\ code[s] # tree[s]
    BY <2>1, <2>2, <2>3
  <2>4. \A s \in Repos \ {r} : Plans(job[j], s) => Plans(x, s)
    BY <2>1, <2>2 DEF Plans, Window
  <2>5. x.pc # "swap" /\ Goes(j, x)
    BY <2>1, SoleStep
  <2> QED
    BY <1>1, <2>3, <2>4, <2>5, PlanFrame
<1>8. CASE ~(Hash(j) \/ Read(j) \/ Store(j) \/ Generation(j) \/ EmbedCode(j))
  <2>1. PICK x \in Job : job' = [job EXCEPT ![j] = x] /\ x.pc # "swap"
    BY DocumentJob DEF Aside, Rebuilding
  <2>2. /\ job[j].pc \in {"embedCode", "drop", "embedKnowledge", "list", "clear", "embedGenerated",
                          "load", "unvector", "embedOne", "insert", "remove"}
        /\ job[j].pc = "embedCode" => job[j].op # "daily"
        /\ UNCHANGED <<code, unplanned>>
    BY <1>8 DEF DocumentStep, CodeEmbedded, Drop, DropFails, List, Clear, EmbedChunk, EmbedFails, Embedded,
       Load, Unvector, Insert, Remove, EmbedPc, At, structureVars
  <2>3. \A s \in Repos : ~Plans(job[j], s)
    BY <2>2 DEF Plans, Window
  <2> QED
    BY <1>2, <2>1, <2>2, <2>3
<1> QED
  BY <1>3, <1>4, <1>5, <1>6, <1>7, <1>8

LEMMA PlanStep == ASSUME TypeInv, LabelInv, PlanInv, [Next]_allVars PROVE PlanInv'
<1>1. ASSUME NEW r \in Repos, Commit(r) PROVE PlanInv'
  BY <1>1 DEF Commit, PlanInv, Planned, At
<1>2. ASSUME NEW j \in Jobs, Begin(j) PROVE PlanInv'
  <2>1. PICK x \in Job : Goes(j, x) /\ x.pc # "swap"
    BY <1>2, BeginJob DEF Starts, First, Reloads
  <2>2. job[j].pc = "idle" /\ UNCHANGED <<tree, file, served, code, unplanned>>
    BY <1>2, BeginJob
  <2>3. \A r \in Repos : ~Plans(job[j], r)
    BY <2>2 DEF Plans, Window
  <2> QED
    BY <2>1, <2>2, <2>3, PlanFrame
<1>3. ASSUME NEW j \in Jobs, StructureStep(j) PROVE PlanInv'
  <2>1. CASE Fetched(j) \/ Detect(j) \/ Scan(j) \/ Label(j)
    <3>1. PICK x : job' = [job EXCEPT ![j] = x] /\ (x = Idle \/ Indexes(x, job[j]))
      BY <2>1, RebuildJob
    <3>2. x.pc # "swap"
      BY <3>1 DEF Idle, Indexes
    <3>3. \A r \in Repos : ~Plans(job[j], r)
      BY <2>1, RebuildJob DEF Plans, Window
    <3>4. UNCHANGED <<tree, file, served, code, unplanned>>
      BY <2>1 DEF Fetched, Detect, Scan, Label, structureVars
    <3> QED
      BY <3>1, <3>2, <3>3, <3>4, SoleStep, PlanFrame
  <2> QED
    BY <1>3, <2>1, PlanFetch, PlanRename, PlanWindow, PlanGraph DEF StructureStep
<1>4. CASE Restart
  <2>1. /\ \A k \in Jobs : job'[k] = Idle
        /\ UNCHANGED <<tree, file, code>> /\ served' = file
        /\ unplanned' = unplanned \cup UNION {Pending(j) : j \in Jobs}
    BY <1>4 DEF Restart
  <2>2. ASSUME NEW r \in Repos \ unplanned', code'[r] # tree'[r] PROVE Unpublished(r)'
    <3>1. r \notin unplanned /\ \A j \in Jobs : r \notin Pending(j)
      BY <2>1, <2>2
    <3>2. ~Planned(r)
      BY <3>1 DEF Planned, Plans, Pending
    <3>3. Unpublished(r)
      BY <2>1, <2>2, <3>1, <3>2, PlanParts
    <3> QED
      BY <2>1, <3>3 DEF Unpublished, At, Idle
  <2> QED
    BY <2>2 DEF PlanInv, Unpublished
<1>5. CASE UNCHANGED allVars
  BY <1>5 DEF PlanInv, Planned, At, allVars, vars, structureVars
<1> QED
  BY <1>1, <1>2, <1>3, <1>4, <1>5, PlanDocument DEF Next, Step
-----------------------------------------------------------------------------
(* Searchable documents.                                                   *)

Searchable(d) ==
  /\ Unshared(d) => Found(d, filed[d])
  /\ filed[d] # row[d].text => d \in behind

LEMMA SearchParts == CleanIsSearchable <=> \A d \in clean : Searchable(d)
BY DEF CleanIsSearchable, Searchable

LEMMA SearchStart == ASSUME Init PROVE SearchInv
<1>1. CleanIsSearchable
  BY DEF Init, DocumentInit, CleanIsSearchable, Found, NoRow, DocIds, VectorIds
<1>2. \A j \in Jobs : ~OnDocuments(j) /\ Quiet(job[j])
  BY DEF Init, StructureInit, Idle, OnDocuments, DocumentOps, Quiet
<1> QED
  BY <1>1, <1>2 DEF SearchInv

\* What does not change keeps a document searchable.
LEMMA SearchSame ==
  ASSUME NEW d, Searchable(d), row'[d].text = row[d].text, filed'[d] = filed[d],
         d \in behind => d \in behind',
         Unshared(d) => /\ \A v \in Identifiers(d) : vector'[v] = vector[v]
                        /\ vector'[d] = vector[d]
  PROVE  Searchable(d)'
<1>1. ASSUME Unshared(d) PROVE Found(d, filed[d])'
  <2>1. Found(d, filed[d])
    BY <1>1 DEF Searchable
  <2> QED
    BY <1>1, <2>1 DEF Found, Whole
<1> QED
  BY <1>1 DEF Searchable

LEMMA SearchAll ==
  ASSUME TypeInv, CleanIsSearchable, clean' \subseteq clean, filed' = filed, behind' = behind,
         row' = row, vector' = vector
  PROVE  CleanIsSearchable'
<1>1. ASSUME NEW d \in clean' PROVE Searchable(d)'
  BY <1>1, SearchSame, SearchParts
<1> QED
  BY <1>1 DEF CleanIsSearchable, Searchable

LEMMA Identified ==
  ASSUME NEW d \in DocIds
  PROVE  /\ d \in Identifiers(d) /\ Identifiers(d) \subseteq VectorIds
         /\ d \in Flows => FrontId[d] \in Identifiers(d)
<1>1. Flows \subseteq DocIds /\ FrontId \in [Flows -> Flows \cup Aliases]
  BY FlowAssumption DEF DocIds
<1> QED
  BY <1>1 DEF Identifiers, VectorIds

LEMMA Elsewhere ==
  ASSUME NEW d \in DocIds, NEW e \in DocIds \ {d}, Unshared(d) \/ Unshared(e), NEW v \in Identifiers(e)
  PROVE  v \notin Identifiers(d)
BY DEF Unshared

\* A step on one document.
LEMMA CleanKept ==
  ASSUME TypeInv, CleanIsSearchable, NEW e \in DocIds, clean' \subseteq clean \cup {e},
         e \in clean' => Searchable(e)',
         \A d \in DocIds \ {e} :
           row'[d] = row[d] /\ filed'[d] = filed[d] /\ (d \in behind => d \in behind'),
         \A v \in VectorIds \ Identifiers(e) : vector'[v] = vector[v]
  PROVE  CleanIsSearchable'
<1>1. ASSUME NEW d \in clean' PROVE Searchable(d)'
  <2>1. CASE d = e
    BY <1>1, <2>1
  <2>2. CASE d # e
    <3>1. d \in DocIds /\ d \in clean
      BY <1>1, <2>2 DEF TypeInv, TypeOK, DocumentTypeOK
    <3>2. Searchable(d)
      BY <3>1, SearchParts
    <3>3. /\ row'[d] = row[d] /\ filed'[d] = filed[d] /\ (d \in behind => d \in behind')
      BY <2>2, <3>1
    <3>4. Unshared(d) => \A v \in Identifiers(d) : vector'[v] = vector[v]
      BY <2>2, <3>1, Identified, Elsewhere
    <3>5. Unshared(d) => vector'[d] = vector[d]
      BY <3>1, <3>4, Identified
    <3> QED
      BY <3>2, <3>3, <3>4, <3>5, SearchSame
  <2> QED
    BY <2>1, <2>2
<1> QED
  BY <1>1 DEF CleanIsSearchable, Searchable

\* Steps before documents and vectors are touched.
LEMMA Early ==
  ASSUME NEW w, JobOK(w), w.pc \notin EmbedPc \cup {"clear", "insert", "remove"},
         w.pc = "list" => w.op # "embedDocs", w.op = "bootstrap" => w.pc = "embedCode"
  PROVE  Progress(w) /\ Quiet(w)
BY DEF JobOK, EmbedPc, Progress, Quiet

LEMMA EarlyNext ==
  ASSUME NEW w, JobOK(w), w.pc \notin EmbedPc \cup {"clear", "insert", "remove"},
         w.pc = "list" => w.op # "embedDocs", w.op = "bootstrap" => w.pc = "embedCode"
  PROVE  Progress(w)' /\ Quiet(w)'
BY DEF JobOK, EmbedPc, Progress, Quiet

\* Steps that change no document.
LEMMA SearchFrame ==
  ASSUME TypeInv, SearchInv, NEW j \in Jobs, NEW x, Goes(j, x), UNCHANGED documentVars, Quiet(x),
         x.op \in DocumentOps => OnDocuments(j) \/ \A k \in Jobs \ {j} : ~job'[k].alone,
         x.op \in DocumentOps /\ x.alone =>
           Progress(x) /\ ((OnDocuments(j) /\ job[j].alone) \/ \A k \in Jobs : ~OnDocuments(k))
  PROVE  SearchInv'
<1>1. job'[j] = x
  BY DEF Goes
<1>2. ASSUME NEW w PROVE (Progress(w)' <=> Progress(w)) /\ (Quiet(w)' <=> Quiet(w))
  BY DEF documentVars, historyVars, Progress, Quiet, Listed, StoredIn, Stored, KnowledgeIn, NothingElse,
     Dropped, Whole
<1>3. CleanIsSearchable'
  BY SearchAll DEF documentVars, historyVars, SearchInv
<1>4. ASSUME NEW k \in Jobs \ {j}
      PROVE  /\ Quiet(job'[k]) /\ (OnDocuments(k)' <=> OnDocuments(k))
             /\ job'[k].alone => job[k].alone
             /\ Progress(job[k]) => Progress(job'[k])
  <2>1. /\ job'[k].op = job[k].op /\ job'[k].pc = job[k].pc /\ job'[k].docs = job[k].docs
        /\ job'[k].text = job[k].text /\ job'[k].at = job[k].at /\ job'[k].chunk = job[k].chunk
        /\ job'[k].alone => job[k].alone
    BY Others
  <2>2. Quiet(job[k])
    BY DEF SearchInv
  <2> QED
    BY <2>1, <2>2, SMTT(30) DEF Quiet, OnDocuments, Progress, KnowledgeIn, Listed, VectorOf
<1>5. ASSUME NEW k \in Jobs, OnDocuments(k)', job'[k].alone
      PROVE  Progress(job'[k]) /\ \A i \in Jobs \ {k} : ~OnDocuments(i)'
  <2>1. CASE k = j
    BY <1>1, <1>4, <1>5, <2>1 DEF SearchInv, OnDocuments
  <2>2. CASE k # j
    <3>1. OnDocuments(k) /\ job[k].alone
      BY <1>4, <1>5, <2>2
    <3>2. Progress(job[k]) /\ \A i \in Jobs \ {k} : ~OnDocuments(i)
      BY <3>1 DEF SearchInv
    <3>3. ~OnDocuments(j)'
      BY <1>1, <1>5, <2>2, <3>2 DEF OnDocuments
    <3> QED
      BY <1>4, <2>2, <3>2, <3>3
  <2> QED
    BY <2>1, <2>2
<1>6. \A k \in Jobs : Quiet(job'[k])
  BY <1>1, <1>4
<1>7. ASSUME NEW k \in Jobs
      PROVE  Quiet(job[k])' /\ (OnDocuments(k)' /\ job'[k].alone => Progress(job[k])')
  <2>1. PICK w : w = job'[k]
    OBVIOUS
  <2>2. Quiet(w)' /\ (OnDocuments(k)' /\ job'[k].alone => Progress(w)')
    BY <1>2, <1>5, <1>6, <2>1
  <2> QED
    BY <2>1, <2>2
<1> QED
  BY <1>3, <1>5, <1>7 DEF SearchInv

\* Steps on documents: an operation that is alone then is the only one.
LEMMA SearchChange ==
  ASSUME TypeInv, SearchInv, NEW j \in Jobs, OnDocuments(j), NEW x, job' = [job EXCEPT ![j] = x],
         clean' \subseteq clean \/ job[j].alone, CleanIsSearchable', Quiet(x)',
         x.op \in DocumentOps /\ x.alone => job[j].alone /\ Progress(x)'
  PROVE  SearchInv'
<1>1. job'[j] = x /\ \A k \in Jobs \ {j} : job'[k] = job[k]
  BY DEF TypeInv, TypeOK, StructureTypeOK
<1>2. ASSUME NEW k \in Jobs \ {j} PROVE ~(OnDocuments(k) /\ job[k].alone)
  BY DEF SearchInv
<1>3. ASSUME NEW k \in Jobs PROVE Quiet(job[k])'
  <2>1. CASE k = j
    <3>1. PICK w : w = job'[k] /\ w = x
      BY <1>1, <2>1
    <3>2. Quiet(w)'
      BY <3>1
    <3> QED
      BY <3>1, <3>2
  <2>2. CASE k # j
    <3>1. PICK w : w = job[k] /\ w = job'[k]
      BY <1>1, <2>2
    <3>2. Quiet(w) /\ JobOK(w)
      BY <3>1, JobType DEF SearchInv
    <3>3. Quiet(w)'
      <4>1. CASE clean' \subseteq clean
        BY <3>2, <4>1 DEF Quiet
      <4>2. CASE job[j].alone
        <5>1. w.op \notin DocumentOps
          BY <2>2, <3>1, <4>2 DEF SearchInv, OnDocuments
        <5>2. w.pc \notin {"remove", "embedOne", "insert"}
          BY <3>2, <5>1 DEF JobOK, OpsAt, DocumentOps
        <5> QED
          BY <5>2 DEF Quiet
      <4> QED
        BY <4>1, <4>2
    <3> QED
      BY <3>1, <3>3
  <2> QED
    BY <2>1, <2>2
<1>4. ASSUME NEW k \in Jobs, OnDocuments(k)', job'[k].alone
      PROVE  Progress(job[k])' /\ \A i \in Jobs \ {k} : ~OnDocuments(i)'
  <2>1. k = j
    BY <1>1, <1>2, <1>4 DEF OnDocuments
  <2>2. job[j].alone /\ Progress(x)'
    BY <1>1, <1>4, <2>1 DEF OnDocuments
  <2>3. PICK w : w = job'[k] /\ w = x
    BY <1>1, <2>1
  <2>4. Progress(w)'
    BY <2>2, <2>3
  <2>5. \A i \in Jobs \ {k} : ~OnDocuments(i)'
    BY <1>1, <2>1, <2>2 DEF SearchInv, OnDocuments
  <2> QED
    BY <2>3, <2>4, <2>5
<1> QED
  BY <1>3, <1>4 DEF SearchInv
LEMMA SearchIdle ==
  ASSUME TypeInv, SearchInv, NEW j \in Jobs, Goes(j, Idle), UNCHANGED documentVars
  PROVE  SearchInv'
<1>1. Quiet(Idle) /\ Idle.op \notin DocumentOps
  BY DEF Quiet, Idle, DocumentOps
<1> QED
  BY <1>1, SearchFrame

\* Steps that keep the documents of a job.
LEMMA SearchMove ==
  ASSUME TypeInv, SearchInv, NEW j \in Jobs, NEW x \in Job, JobOK(x), Goes(j, x), UNCHANGED documentVars,
         SameDocs(x, job[j]), x.alone => job[j].alone,
         job[j].pc \in Rebuilding \cup {"fetch", "detect"},
         x.pc \in Rebuilding \cup {"fetch", "detect", "hash", "drop"}
  PROVE  SearchInv'
<1>1. Quiet(x)
  BY DEF Quiet, Rebuilding
<1>2. x.op \in DocumentOps => OnDocuments(j)
  BY DEF SameDocs, OnDocuments
<1>3. ASSUME x.op \in DocumentOps, x.alone PROVE Progress(x)
  <2>1. CASE x.op # "bootstrap"
    <3>1. x.pc \notin EmbedPc \cup {"clear", "insert", "remove", "list"}
      BY DEF Rebuilding, EmbedPc
    <3> QED
      BY <2>1, <3>1, Early
  <2>2. CASE x.op = "bootstrap"
    <3>1. Progress(job[j]) /\ job[j].op = "bootstrap"
      BY <1>2, <1>3, <2>2 DEF SearchInv, SameDocs
    <3>2. x.at = None
      BY DEF JobOK, EmbedPc, Rebuilding
    <3>3. x.pc \notin EmbedPc \cup {"embedCode", "clear", "insert", "remove", "list"}
      BY DEF Rebuilding, EmbedPc
    <3>4. job[j].pc \notin {"embedCode", "embedKnowledge"}
      BY DEF Rebuilding
    <3>5. Listed(x, Flows) /\ StoredIn(Flows) \subseteq x.docs
      BY <3>1, <3>4 DEF Progress, Listed, SameDocs
    <3> QED
      BY <2>2, <3>2, <3>3, <3>5 DEF Progress, EmbedPc
  <2> QED
    BY <2>1, <2>2
<1> QED
  BY <1>1, <1>2, <1>3, SearchFrame

LEMMA SearchStructure ==
  ASSUME TypeInv, SearchInv, NEW j \in Jobs, StructureStep(j), UNCHANGED documentVars
  PROVE  SearchInv'
<1>1. ASSUME End(j) PROVE SearchInv'
  BY <1>1, EndGoes, SearchIdle
<1>2. CASE Fetch(j)
  <2>1. PICK x \in Job : /\ JobOK(x) /\ job' = [job EXCEPT ![j] = x]
                         /\ \/ x = Idle
                            \/ x.pc = "fetch" /\ SameDocs(x, job[j]) /\ x.alone = job[j].alone
    BY <1>2, FetchJob
  <2>2. job[j].pc = "fetch" /\ Goes(j, x)
    BY <1>2, <2>1, FetchJob, SoleStep DEF At
  <2> QED
    BY <2>1, <2>2, SearchIdle, SearchMove
<1>3. CASE Fetched(j) \/ Detect(j) \/ Scan(j) \/ Label(j)
  <2>1. PICK x \in Job : JobOK(x) /\ job' = [job EXCEPT ![j] = x] /\ (x = Idle \/ Indexes(x, job[j]))
    BY <1>3, RebuildJob
  <2>2. job[j].pc \in Rebuilding \cup {"fetch", "detect"}
    BY <1>3, RebuildJob DEF Rebuilding
  <2>3. Goes(j, x)
    BY <2>1, SoleStep
  <2>4. Indexes(x, job[j]) => /\ SameDocs(x, job[j]) /\ x.alone = job[j].alone
                              /\ x.pc \in Rebuilding \cup {"fetch", "detect", "hash", "drop"}
    BY DEF Indexes, Rebuilding
  <2> QED
    BY <2>1, <2>2, <2>3, <2>4, SearchIdle, SearchMove
<1>4. CASE Rename(j)
  <2>1. CASE End(j) /\ UNCHANGED <<file, torn, unplanned>>
    BY <1>1, <2>1
  <2>2. CASE ~(End(j) /\ UNCHANGED <<file, torn, unplanned>>)
    <3>1. PICK x \in Job : /\ JobOK(x) /\ SameDocs(x, job[j]) /\ Goes(j, x) /\ x.pc = "open"
                           /\ x.alone = job[j].alone
      BY <1>4, <2>2, RenameJob
    <3>2. job[j].pc \in Rebuilding /\ x.pc \in Rebuilding
      BY <1>4, <3>1, RenameJob DEF At, Rebuilding
    <3> QED
      BY <3>1, <3>2, SearchMove
  <2> QED
    BY <2>1, <2>2
<1>5. CASE Open(j) \/ Swap(j) \/ Edges(j)
  <2>1. CASE Abandon(j)
    BY <1>1, <2>1 DEF Abandon
  <2>2. CASE ~Abandon(j)
    <3>1. PICK x \in Job : /\ JobOK(x) /\ SameDocs(x, job[j]) /\ job' = [job EXCEPT ![j] = x]
                           /\ x.alone = job[j].alone /\ x.pc \in {"swap", "edges", "graph"}
      BY <1>5, <2>2, WindowJob
    <3>2. job[j].pc \in Rebuilding /\ x.pc \in Rebuilding
      BY <1>5, <3>1, WindowJob DEF InWindow, Window, Rebuilding
    <3> QED
      BY <3>1, <3>2, SoleStep, SearchMove
  <2> QED
    BY <2>1, <2>2
<1>6. CASE RebuildGraph(j)
  <2>1. PICK x \in Job : /\ JobOK(x) /\ job' = [job EXCEPT ![j] = x]
                         /\ \/ x = Idle
                            \/ x.pc \in {"hash", "drop"} /\ SameDocs(x, job[j]) /\ x.alone = job[j].alone
    BY <1>6, GraphJob
  <2>2. job[j].pc \in Rebuilding /\ Goes(j, x)
    BY <1>6, <2>1, GraphJob, SoleStep DEF At, Rebuilding
  <2> QED
    BY <2>1, <2>2, SearchIdle, SearchMove
<1> QED
  BY <1>2, <1>3, <1>4, <1>5, <1>6 DEF StructureStep

LEMMA SearchBegin ==
  ASSUME TypeInv, SearchInv, NEW j \in Jobs, Begin(j)
  PROVE  SearchInv'
<1>1. PICK x \in Job : JobOK(x) /\ ((UNCHANGED torn /\ Starts(j, x)) \/ Reloads(j, x))
  BY BeginJob
<1>2. UNCHANGED documentVars /\ Goes(j, x)
  BY <1>1, BeginJob DEF Starts, Reloads
<1>3. CASE Reloads(j, x)
  <2>1. Quiet(x) /\ x.op \notin DocumentOps
    BY <1>3 DEF Reloads, Quiet, DocumentOps
  <2> QED
    BY <1>2, <2>1, SearchFrame
<1>4. CASE Starts(j, x)
  <2>1. First(x) /\ job'[j] = x
    BY <1>2, <1>4 DEF Starts, Goes
  <2>2. Quiet(x)
    <3>1. CASE x.pc = "embedOne"
      <4>1. PICK d \in Uploads : x.docs = {d} /\ \A e \in DocIds \ {d} : x.text[e] = 0
        BY <2>1, <3>1 DEF First
      <4> QED
        BY <3>1, <4>1 DEF Quiet, TypeInv, TypeOK, DocumentTypeOK
    <3>2. CASE x.pc # "embedOne"
      BY <2>1, <3>2 DEF First, Quiet
    <3> QED
      BY <3>1, <3>2
  <2>3. x.op \in DocumentOps => \A k \in Jobs \ {j} : ~job'[k].alone
    BY <1>4, <2>1 DEF Starts, OnDocuments
  <2>4. ASSUME x.op \in DocumentOps, x.alone
        PROVE  Progress(x) /\ \A k \in Jobs : ~OnDocuments(k)
    <3>1. \A k \in Jobs : ~OnDocuments(k)
      BY <1>4, <2>4 DEF Starts
    <3>2. CASE x.op = "bootstrap"
      <4>1. x.docs = StoredIn(Flows) /\ x.text = Texts /\ x.pc \in {"fetch", "scan"} /\ x.at = None
        BY <2>1, <2>4, <3>2 DEF First
      <4>2. Listed(x, Flows)
        BY <4>1, Rows DEF Listed
      <4> QED
        BY <3>1, <3>2, <4>1, <4>2 DEF Progress
    <3>3. CASE x.op # "bootstrap" /\ x.pc = "embedOne"
      <4>1. PICK d \in Uploads : x.docs = {d} /\ \A e \in DocIds \ {d} : x.text[e] = 0
        BY <2>1, <3>3 DEF First
      <4> QED
        BY <2>1, <3>1, <3>3, <4>1 DEF First, Progress
    <3>4. CASE x.op # "bootstrap" /\ x.pc # "embedOne"
      <4>1. x.pc \notin EmbedPc \cup {"clear", "insert", "remove", "list"}
        BY <2>1, <3>4 DEF First, EmbedPc
      <4> QED
        BY <1>1, <3>1, <3>4, <4>1, Early
    <3> QED
      BY <3>2, <3>3, <3>4
  <2> QED
    BY <1>2, <2>2, <2>3, <2>4, SearchFrame
<1> QED
  BY <1>1, <1>3, <1>4
LEMMA SearchCode ==
  ASSUME TypeInv, SearchInv, NEW j \in Jobs,
         Hash(j) \/ Read(j) \/ Generation(j) \/ EmbedCode(j) \/ CodeEmbedded(j) \/ DropFails(j)
  PROVE  SearchInv'
<1>1. UNCHANGED documentVars /\ job[j] \in Job /\ JobOK(job[j])
  BY JobType DEF Hash, Read, Generation, EmbedCode, CodeEmbedded, DropFails, documentVars, historyVars
<1>2. ASSUME NEW x \in Job, JobOK(x), job' = [job EXCEPT ![j] = x], Keeps(x, job[j]),
             x.pc \in {"hash", "read", "store", "embedCode", "list", "drop"},
             x.pc = "list" => x.op # "embedDocs", x.op = "bootstrap" => x.pc = "embedCode"
      PROVE  SearchInv'
  <2>1. Progress(x) /\ Quiet(x)
    BY <1>2, Early DEF EmbedPc
  <2>2. Goes(j, x)
    BY <1>2, SoleStep
  <2>3. x.op = job[j].op /\ (x.op \in DocumentOps => OnDocuments(j)) /\ x.alone = job[j].alone
    BY <1>2 DEF Keeps, OnDocuments
  <2> QED
    BY <1>1, <2>1, <2>2, <2>3, SearchFrame
<1>3. ASSUME End(j) PROVE SearchInv'
  BY <1>1, <1>3, EndGoes, SearchIdle
<1>4. ASSUME NEW x, x = Idle, job' = [job EXCEPT ![j] = x] PROVE SearchInv'
  BY <1>3, <1>4 DEF End
<1>5. CASE Hash(j)
  <2>1. PICK r \in job[j].todo \cap Cloned, x \in Job :
              /\ JobOK(x) /\ job' = [job EXCEPT ![j] = x] /\ Keeps(x, job[j])
              /\ Dealt(x, job[j], r) \/ x.pc = "read"
    BY <1>5, HashJob
  <2>2. job[j].op # "bootstrap"
    BY <1>1, <1>5 DEF Hash, At, JobOK, OpsAt
  <2> QED
    BY <1>2, <2>1, <2>2 DEF Keeps, Dealt
<1>6. CASE Read(j)
  <2>1. PICK x \in Job : JobOK(x) /\ job' = [job EXCEPT ![j] = x] /\ Keeps(x, job[j]) /\ x.pc = "store"
    BY <1>6, ReadJob
  <2>2. job[j].op # "bootstrap"
    BY <1>1, <1>6 DEF Read, At, JobOK, OpsAt
  <2> QED
    BY <1>2, <2>1, <2>2 DEF Keeps
<1>7. CASE Generation(j)
  <2>1. PICK x \in Job : /\ JobOK(x) /\ job' = [job EXCEPT ![j] = x]
                         /\ \/ x = Idle
                            \/ Keeps(x, job[j]) /\ x.pc = "list" /\ x.op = "daily"
                            \/ Keeps(x, job[j]) /\ x.pc = "drop" /\ x.op = "embedDocs"
    BY <1>7, GenerationJob
  <2> QED
    BY <1>2, <1>4, <2>1
<1>8. CASE EmbedCode(j)
  <2>1. PICK r \in Repos, x \in Job :
              /\ JobOK(x) /\ job' = [job EXCEPT ![j] = x]
              /\ \/ x.pc = "hash" /\ x.op = "daily" /\ Keeps(x, job[j])
                 \/ x.pc = "embedCode" /\ Keeps(x, job[j])
                 \/ x = Idle
    BY <1>8, CodeJob
  <2> QED
    BY <1>2, <1>4, <2>1
<1> QED
  BY <1>3, <1>5, <1>6, <1>7, <1>8 DEF CodeEmbedded, DropFails

LEMMA SearchTaken ==
  ASSUME TypeInv, SearchInv, NEW j \in Jobs, List(j) \/ Load(j)
  PROVE  SearchInv'
<1>1. UNCHANGED documentVars /\ job[j] \in Job /\ JobOK(job[j])
  BY JobType DEF List, Load, documentVars, historyVars
<1>2. ASSUME NEW x, x = Idle, job' = [job EXCEPT ![j] = x] PROVE SearchInv'
  BY <1>1, <1>2, SoleStep, SearchIdle
<1>3. CASE List(j)
  <2>1. PICK x \in Job :
          /\ JobOK(x) /\ job' = [job EXCEPT ![j] = x]
          /\ \/ x = Idle
             \/ /\ x.pc = "clear" /\ x.op = job[j].op /\ x.at = None /\ x.alone = job[j].alone
                /\ x.docs = StoredIn(Generated) /\ x.text = Texts
    BY <1>3, ListJob
  <2>2. CASE x # Idle
    <3>1. Quiet(x) /\ Goes(j, x)
      BY <2>1, <2>2, SoleStep DEF Quiet
    <3>2. x.op \in DocumentOps => OnDocuments(j)
      BY <2>1, <2>2 DEF OnDocuments
    <3>3. job[j].pc = "list" /\ x.op # "bootstrap"
      BY <1>1, <1>3, <2>1, <2>2 DEF List, At, JobOK, OpsAt
    <3>4. ASSUME x.op \in DocumentOps, x.alone PROVE Progress(x)
      <4>1. Progress(job[j])
        BY <2>1, <2>2, <3>2, <3>4 DEF SearchInv
      <4>2. Listed(x, Generated)
        BY <2>1, <2>2, Rows DEF Listed
      <4>3. x.op = "embedDocs" => KnowledgeIn(x) /\ NothingElse
        BY <2>1, <2>2, <3>3, <4>1 DEF Progress, KnowledgeIn
      <4> QED
        BY <2>1, <2>2, <3>3, <4>2, <4>3 DEF Progress
    <3> QED
      BY <1>1, <2>1, <2>2, <3>1, <3>2, <3>4, SearchFrame
  <2> QED
    BY <1>2, <2>1, <2>2
<1>4. CASE Load(j)
  <2>1. PICK x \in Job :
          /\ JobOK(x) /\ job' = [job EXCEPT ![j] = x]
          /\ \/ x = Idle
             \/ x.pc = "unvector" /\ x.op = "reindex" /\ x.alone = job[j].alone
    BY <1>4, LoadJob
  <2>2. CASE x # Idle
    <3>1. Progress(x) /\ Quiet(x)
      BY <2>1, <2>2, Early DEF EmbedPc
    <3>2. OnDocuments(j)
      BY <1>1, <1>4 DEF Load, At, JobOK, OpsAt, OnDocuments, DocumentOps
    <3> QED
      BY <1>1, <2>1, <2>2, <3>1, <3>2, SoleStep, SearchFrame
  <2> QED
    BY <1>2, <2>1, <2>2
<1> QED
  BY <1>3, <1>4

LEMMA SearchStore ==
  ASSUME TypeInv, SearchInv, NEW j \in Jobs, Store(j)
  PROVE  SearchInv'
<1>1. /\ job[j] \in Job /\ JobOK(job[j]) /\ job[j].pc = "store" /\ vector' = vector
      /\ job[j].repo \in DocIds /\ clean \subseteq DocIds /\ row \in [DocIds -> Row]
  BY JobType DEF Store, At, JobOK, Cloned, DocIds, TypeInv, TypeOK, DocumentTypeOK
<1>2. PICK x \in Job : /\ JobOK(x) /\ job' = [job EXCEPT ![j] = x] /\ Keeps(x, job[j])
                       /\ Dealt(x, job[j], job[j].repo)
  BY StoreJob
<1>3. OnDocuments(j) /\ job[j].op # "bootstrap"
  BY <1>1 DEF JobOK, OpsAt, OnDocuments, DocumentOps
<1>4. Progress(x)' /\ Quiet(x)'
  <2>1. x.op # "bootstrap" /\ x.pc \in {"hash", "embedCode"}
    BY <1>2, <1>3 DEF Keeps, Dealt
  <2> QED
    BY <1>2, <2>1, EarlyNext DEF EmbedPc
<1>5. CleanIsSearchable' /\ clean' \subseteq clean
  <2>1. CleanIsSearchable
    BY DEF SearchInv
  <2>2. CASE UNCHANGED <<row, historyVars>>
    BY <1>1, <2>1, <2>2, SearchAll DEF historyVars
  <2>3. CASE /\ row' = [row EXCEPT ![job[j].repo] = [text |-> job[j].src, hash |-> job[j].hash]]
             /\ behind' = behind \cup {job[j].repo} /\ UNCHANGED <<clean, filed>>
    <3>1. PICK e \in DocIds : e = job[j].repo
      BY <1>1
    <3>2. /\ clean' \subseteq clean \cup {e}
          /\ \A d \in DocIds \ {e} :
               row'[d] = row[d] /\ filed'[d] = filed[d] /\ (d \in behind => d \in behind')
          /\ \A v \in VectorIds \ Identifiers(e) : vector'[v] = vector[v]
      BY <1>1, <2>3, <3>1
    <3>3. ASSUME e \in clean' PROVE Searchable(e)'
      <4>1. Searchable(e) /\ e \in behind'
        BY <2>1, <2>3, <3>1, <3>3, SearchParts
      <4>2. Unshared(e) => Found(e, filed[e])'
        BY <1>1, <2>3, <4>1 DEF Searchable, Found, Whole
      <4> QED
        BY <4>1, <4>2 DEF Searchable
    <3>4. CleanIsSearchable'
      BY <2>1, <3>2, <3>3, CleanKept
    <3> QED
      BY <2>3, <3>4
  <2> QED
    BY <2>2, <2>3, StoreJob
<1> QED
  BY <1>2, <1>3, <1>4, <1>5, SearchChange DEF Keeps
LEMMA SearchDrop ==
  ASSUME TypeInv, SearchInv, NEW j \in Jobs, Drop(j)
  PROVE  SearchInv'
<1>1. /\ job[j] \in Job /\ JobOK(job[j]) /\ job[j].pc = "drop" /\ row' = row
      /\ clean' = {}
  BY JobType, DropJob DEF At, Touch, TypeInv, TypeOK, DocumentTypeOK
<1>2. PICK dropped \in BOOLEAN, x \in Job :
              /\ vector' = IF dropped THEN [v \in VectorIds |-> NoVectors] ELSE vector
              /\ JobOK(x) /\ job' = [job EXCEPT ![j] = x]
              /\ x.pc = "embedKnowledge" /\ x.op = job[j].op /\ x.at = None
              /\ x.alone => /\ job[j].alone /\ dropped
                            /\ IF job[j].op = "bootstrap"
                               THEN x.docs = job[j].docs /\ x.text = job[j].text
                               ELSE x.docs = StoredIn(Flows) /\ x.text = Texts
  BY DropJob
<1>3. OnDocuments(j) /\ job[j].op \in {"bootstrap", "embedDocs"}
  BY <1>1 DEF JobOK, OpsAt, OnDocuments, DocumentOps
<1>4. CleanIsSearchable' /\ Quiet(x)' /\ clean' \subseteq clean
  BY <1>1, <1>2 DEF CleanIsSearchable, Quiet
<1>5. ASSUME x.alone PROVE Progress(x)'
  <2>1. Listed(x, Flows) /\ StoredIn(Flows) \subseteq x.docs
    <3>1. CASE job[j].op = "bootstrap"
      <4>1. Progress(job[j])
        BY <1>2, <1>3, <1>5 DEF SearchInv
      <4> QED
        BY <1>1, <1>2, <1>5, <3>1, <4>1 DEF Progress, Listed
    <3>2. CASE job[j].op # "bootstrap"
      BY <1>2, <1>5, <3>2, Rows DEF Listed
    <3> QED
      BY <3>1, <3>2
  <2>2. Listed(x, Flows)'
    BY <1>1, <2>1 DEF Listed
  <2>3. KnowledgeIn(x)'
    BY <1>1, <1>2, <2>1 DEF KnowledgeIn, StoredIn, Stored
  <2>4. NothingElse' /\ Dropped'
    BY <1>2, <1>5, Rows DEF NothingElse, Dropped, VectorIds
  <2> QED
    BY <1>2, <1>3, <2>2, <2>3, <2>4 DEF Progress
<1> QED
  BY <1>2, <1>3, <1>4, <1>5, SearchChange

LEMMA SearchClear ==
  ASSUME TypeInv, SearchInv, NEW j \in Jobs, Clear(j)
  PROVE  SearchInv'
<1>1. /\ job[j] \in Job /\ JobOK(job[j]) /\ job[j].pc = "clear" /\ row' = row
      /\ clean' = clean \ job[j].docs /\ UNCHANGED <<filed, behind>> /\ clean \subseteq DocIds
      /\ job[j].docs \subseteq Generated /\ Generated \subseteq DocIds
  BY JobType, ClearJob, Rows DEF At, Touch, JobOK, TypeInv, TypeOK, DocumentTypeOK
<1>2. PICK failed \in SUBSET job[j].docs, x \in Job :
              /\ vector' = [v \in VectorIds |->
                              IF v \in job[j].docs \ failed THEN NoVectors ELSE vector[v]]
              /\ JobOK(x) /\ job' = [job EXCEPT ![j] = x] /\ x.pc = "embedGenerated"
              /\ SameDocs(x, job[j]) /\ x.at = None
              /\ x.alone => job[j].alone /\ failed = {}
  BY ClearJob
<1>3. OnDocuments(j) /\ job[j].op \in {"daily", "embedDocs"}
  BY <1>1 DEF JobOK, OpsAt, OnDocuments, DocumentOps
<1>4. ASSUME NEW d \in DocIds \ job[j].docs, Unshared(d), NEW v \in Identifiers(d)
      PROVE  vector'[v] = vector[v]
  <2>1. v \in VectorIds
    BY <1>4, Identified
  <2>2. v \notin job[j].docs
    <3>1. ASSUME v \in job[j].docs PROVE FALSE
      <4>1. v \in DocIds \ {d}
        BY <1>1, <1>4, <3>1
      <4> QED
        BY <1>4, <4>1, Identified, Elsewhere
    <3> QED
      BY <3>1
  <2> QED
    BY <1>2, <2>1, <2>2
<1>5. CleanIsSearchable'
  <2>1. ASSUME NEW d \in clean' PROVE Searchable(d)'
    <3>1. d \in DocIds \ job[j].docs /\ Searchable(d)
      BY <1>1, <2>1, SearchParts DEF SearchInv
    <3>2. Unshared(d) => /\ \A v \in Identifiers(d) : vector'[v] = vector[v]
                         /\ vector'[d] = vector[d]
      BY <1>4, <3>1, Identified
    <3> QED
      BY <1>1, <3>1, <3>2, SearchSame
  <2> QED
    BY <2>1 DEF CleanIsSearchable, Searchable
<1>6. Quiet(x)' /\ clean' \subseteq clean
  BY <1>1, <1>2 DEF Quiet
<1>7. ASSUME x.alone PROVE Progress(x)'
  <2>1. Progress(job[j])
    BY <1>2, <1>3, <1>7 DEF SearchInv
  <2>2. Listed(x, Generated)'
    BY <1>1, <1>2, <2>1 DEF Progress, Listed, SameDocs
  <2>3. \A d \in Generated \ x.docs : ~Stored(d)'
    BY <1>1, <1>2, <2>1 DEF Progress, SameDocs, StoredIn, Stored
  <2>4. ASSUME job[j].op = "embedDocs" PROVE KnowledgeIn(x)' /\ NothingElse'
    <3>1. KnowledgeIn(job[j]) /\ NothingElse
      BY <1>1, <2>1, <2>4 DEF Progress
    <3>2. ASSUME NEW f \in Flows, Stored(f), Unshared(f) PROVE Whole(FrontId[f], row[f].text)'
      <4>1. f \in DocIds \ job[j].docs
        BY <1>1, Rows DEF Generated
      <4>2. vector'[FrontId[f]] = vector[FrontId[f]]
        BY <1>4, <3>2, <4>1, Identified
      <4>3. Whole(FrontId[f], row[f].text)
        BY <1>1, <3>1, <3>2 DEF KnowledgeIn
      <4> QED
        BY <1>1, <4>2, <4>3 DEF Whole
    <3>3. ASSUME NEW d \in DocIds, ~Stored(d), Unshared(d) PROVE vector'[d] = NoVectors
      BY <1>2, <3>1, <3>3 DEF NothingElse, VectorIds
    <3> QED
      BY <1>1, <3>2, <3>3 DEF KnowledgeIn, NothingElse, Stored
  <2> QED
    BY <1>2, <1>3, <2>2, <2>3, <2>4 DEF Progress, SameDocs
<1> QED
  BY <1>2, <1>3, <1>5, <1>6, <1>7, SearchChange

\* Chunk by chunk.
LEMMA Written ==
  ASSUME TypeInv, NEW j \in Jobs, job[j].pc \in EmbedPc, NEW d \in Current(j), WriteChunk(j, d),
         NEW v, v = VectorId(j, d)
  PROVE  /\ d \in DocIds /\ v \in Identifiers(d) /\ v = VectorOf(job[j], d)
         /\ \A u \in VectorIds \ {v} : vector'[u] = vector[u]
         /\ vector'[v][job[j].chunk] = job[j].text[d]
         /\ \A k \in 1..MaxChunks \ {job[j].chunk} : vector'[v][k] = vector[v][k]
<1>1. /\ d \in DocIds /\ v \in VectorIds /\ job[j].chunk \in 1..MaxChunks
      /\ job[j].text[d] \in Text
      /\ At(j, "embedKnowledge") => d \in Flows
  BY CurrentDocument, JobType DEF Job
<1>2. v \in Identifiers(d) /\ v = VectorOf(job[j], d)
  BY <1>1, Identified DEF VectorId, VectorOf, At
<1>3. vector \in [VectorIds -> [1..MaxChunks -> Text]]
  BY DEF TypeInv, TypeOK, DocumentTypeOK
<1>4. PICK k \in 1..MaxChunks, t \in Text : k = job[j].chunk /\ t = job[j].text[d]
  BY <1>1
<1>5. vector' = [vector EXCEPT ![v][k] = t]
  BY <1>4 DEF WriteChunk
<1>6. /\ \A u \in VectorIds \ {v} : vector'[u] = vector[u]
      /\ vector'[v] = [vector[v] EXCEPT ![k] = t]
  BY <1>1, <1>3, <1>5
<1>7. vector[v] \in [1..MaxChunks -> Text]
  BY <1>1, <1>3
<1> QED
  BY <1>1, <1>2, <1>4, <1>6, <1>7
\* What an embedding has written of the document it is at, with this chunk.
LEMMA Prefix ==
  ASSUME TypeInv, NEW j \in Jobs, job[j].pc \in EmbedPc, NEW d \in Current(j), WriteChunk(j, d),
         Progress(job[j]), NEW v, v = VectorId(j, d), NEW t, t = job[j].text[d]
  PROVE  \A k \in 1..job[j].chunk : vector'[v][k] = t
<1>1. job[j] \in Job /\ JobOK(job[j])
  BY JobType
<1>2. PICK c : c = job[j].chunk
  OBVIOUS
<1>3. c \in 1..Chunks[t] /\ Chunks[t] \in 1..MaxChunks /\ c \in 1..MaxChunks
  BY <1>1, <1>2, CurrentDocument DEF Job
<1>4. ASSUME NEW k \in 1..c PROVE vector'[v][k] = t
  <2>1. CASE k = c
    BY <1>2, <2>1, Written
  <2>2. CASE k # c
    <3>1. k \in 1..(c - 1) /\ k \in 1..MaxChunks /\ c # 1
      BY <1>3, <1>4, <2>2, SizeAssumption
    <3>2. job[j].at # None
      BY <1>1, <1>2, <3>1 DEF JobOK
    <3>3. d = job[j].at
      BY <3>2 DEF Current
    <3>4. vector[v][k] = t
      BY <1>2, <3>1, <3>2, <3>3, Written DEF Progress
    <3>5. k \in 1..MaxChunks \ {c}
      BY <2>2, <3>1
    <3> QED
      BY <1>2, <3>4, <3>5, Written
  <2> QED
    BY <2>1, <2>2
<1> QED
  BY <1>2, <1>4

LEMMA SearchChunk ==
  ASSUME TypeInv, SearchInv, NEW j \in Jobs, EmbedChunk(j)
  PROVE  SearchInv'
<1>1. /\ job[j].pc \in EmbedPc /\ row' = row /\ job[j] \in Job /\ JobOK(job[j])
  BY JobType, ChunkJob
<1>2. PICK d \in Current(j), x \in Job :
        /\ WriteChunk(j, d) /\ Touch({d})
        /\ JobOK(x) /\ job' = [job EXCEPT ![j] = x]
        /\ x.pc = job[j].pc /\ x.op = job[j].op /\ x.text = job[j].text /\ x.alone = job[j].alone
        /\ \/ /\ job[j].chunk = Chunks[job[j].text[d]] /\ x.docs = job[j].docs \ {d}
              /\ x.at = None
           \/ /\ x.docs = job[j].docs
              /\ x.at = d /\ x.chunk = job[j].chunk + 1
  BY ChunkJob
<1>3. PICK v, t : v = VectorId(j, d) /\ t = job[j].text[d]
  OBVIOUS
<1>4. /\ d \in DocIds /\ d \in job[j].docs /\ v \in Identifiers(d) /\ v = VectorOf(job[j], d)
      /\ t \in Text \ {0}
      /\ \A u \in VectorIds \ {v} : vector'[u] = vector[u]
      /\ job[j].pc = "embedKnowledge" => d \in Flows
  BY <1>1, <1>2, <1>3, Written, CurrentDocument DEF At
<1>5. OnDocuments(j)
  BY <1>1 DEF JobOK, OpsAt, EmbedPc, OnDocuments, DocumentOps
<1>6. CleanIsSearchable' /\ clean' \subseteq clean
  <2>1. \A u \in VectorIds \ Identifiers(d) : vector'[u] = vector[u]
    BY <1>4
  <2>2. CleanIsSearchable /\ d \notin clean' /\ clean' \subseteq clean /\ UNCHANGED <<filed, behind>>
    BY <1>2 DEF SearchInv, Touch
  <2> QED
    BY <1>1, <1>4, <2>1, <2>2, CleanKept
<1>7. Quiet(x)'
  <2>1. Quiet(job[j])
    BY DEF SearchInv
  <2>2. x.pc # "remove" /\ x.pc # "insert"
    BY <1>1, <1>2 DEF EmbedPc
  <2> QED
    BY <1>2, <2>1, <2>2 DEF Quiet, Touch
<1>8. ASSUME x.alone PROVE Progress(x)'
  <2>1. Progress(job[j])
    BY <1>2, <1>5, <1>8 DEF SearchInv
  <2>2. \A k \in 1..job[j].chunk : vector'[v][k] = t
    BY <1>1, <1>2, <1>3, <2>1, Prefix
  <2>3. d \notin x.docs => \A k \in 1..Chunks[t] : vector'[v][k] = t
    BY <1>2, <1>3, <1>4, <2>2
  <2>4. \A e \in DocIds \ {d} : /\ e \in x.docs <=> e \in job[j].docs
                                /\ Unshared(e) => \A u \in Identifiers(e) : vector'[u] = vector[u]
    BY <1>2, <1>4, Identified, Elsewhere
  <2>5. \A S \in SUBSET DocIds : Listed(job[j], S) => Listed(x, S)'
    BY <1>1, <1>2 DEF Listed
  <2>6. x.pc = "embedKnowledge" => Listed(job[j], Flows) /\ Listed(x, Flows)'
    BY <1>2, <2>1, <2>5, Rows DEF Progress
  <2>7. x.pc = "embedGenerated" => Listed(job[j], Generated) /\ Listed(x, Generated)' /\ d \in Generated
    BY <1>1, <1>2, <1>4, <2>1, <2>5, Rows DEF Progress, JobOK
  <2>8. x.pc \in {"embedKnowledge", "embedGenerated"} => row[d].text = t
    BY <1>2, <1>3, <1>4, <2>6, <2>7 DEF Listed
  <2>9. ASSUME x.pc \in {"embedKnowledge", "embedGenerated"}, KnowledgeIn(job[j])
        PROVE  KnowledgeIn(x)'
    <3>1. ASSUME NEW f \in Flows, Stored(f), Unshared(f), ~(x.pc = "embedKnowledge" /\ f \in x.docs),
                 NEW k \in 1..Chunks[row[f].text]
          PROVE  vector'[FrontId[f]][k] = row[f].text
      <4>1. f \in DocIds /\ FrontId[f] \in Identifiers(f)
        BY <3>1, Rows, Identified
      <4>2. CASE f = d
        <5>1. x.pc = "embedKnowledge"
          BY <2>7, <2>9, <3>1, <4>2 DEF Generated
        <5>2. v = FrontId[f] /\ row[f].text = t /\ d \notin x.docs
          BY <1>2, <1>4, <2>8, <3>1, <4>2, <5>1 DEF VectorOf
        <5> QED
          BY <2>3, <3>1, <5>2
      <4>3. CASE f # d
        <5>1. vector'[FrontId[f]] = vector[FrontId[f]]
          BY <2>4, <3>1, <4>1, <4>3
        <5>2. Whole(FrontId[f], row[f].text)
          BY <1>2, <2>4, <2>9, <3>1, <4>1, <4>3 DEF KnowledgeIn
        <5> QED
          BY <3>1, <5>1, <5>2 DEF Whole
      <4> QED
        BY <4>2, <4>3
    <3> QED
      BY <1>1, <3>1 DEF KnowledgeIn, Stored, Whole
  <2>10. ASSUME x.pc \in {"embedKnowledge", "embedGenerated"}, NothingElse
         PROVE  NothingElse'
    <3>1. ASSUME NEW e \in DocIds, ~Stored(e), Unshared(e) PROVE vector'[e] = NoVectors
      <4>1. e # d
        BY <1>4, <2>8, <2>10, <3>1, Rows
      <4>2. vector'[e] = vector[e]
        BY <2>4, <3>1, <4>1, Identified
      <4> QED
        BY <2>10, <3>1, <4>2 DEF NothingElse
    <3> QED
      BY <1>1, <3>1 DEF NothingElse, Stored
  <2>11. ASSUME x.pc = "embedGenerated", NEW e \in Generated \ x.docs, Stored(e), Unshared(e),
                NEW k \in 1..Chunks[row[e].text]
         PROVE  vector'[e][k] = row[e].text
    <3>1. CASE e = d
      <4>1. v = e /\ row[e].text = t
        BY <1>2, <1>4, <2>8, <2>11, <3>1 DEF VectorOf
      <4> QED
        BY <2>3, <2>11, <3>1, <4>1
    <3>2. CASE e # d
      <4>1. e \in DocIds /\ e \in Identifiers(e)
        BY <2>11, Rows, Identified
      <4>2. vector'[e] = vector[e]
        BY <2>4, <2>11, <3>2, <4>1
      <4>3. Whole(e, row[e].text)
        BY <1>2, <2>1, <2>4, <2>11, <3>2, <4>1 DEF Progress
      <4> QED
        BY <2>11, <4>2, <4>3 DEF Whole
    <3> QED
      BY <3>1, <3>2
  <2>12. ASSUME x.pc = "embedOne", NEW e \in DocIds \ x.docs, x.text[e] # 0,
                NEW k \in 1..Chunks[x.text[e]]
         PROVE  vector'[e][k] = x.text[e]
    <3>1. v = d
      BY <1>2, <1>4, <2>12 DEF VectorOf
    <3>2. CASE e = d
      BY <1>2, <1>3, <2>3, <2>12, <3>1, <3>2
    <3>3. CASE e # d
      <4>1. vector'[e] = vector[e]
        BY <1>4, <2>12, <3>1, <3>3 DEF VectorIds
      <4>2. Whole(e, x.text[e])
        BY <1>2, <2>1, <2>4, <2>12, <3>3 DEF Progress
      <4> QED
        BY <2>12, <4>1, <4>2 DEF Whole
    <3> QED
      BY <3>2, <3>3
  <2>13. ASSUME x.at # None, NEW k \in 1..(x.chunk - 1)
         PROVE  vector'[VectorOf(x, x.at)][k] = x.text[x.at]
    <3>1. x.at = d /\ x.chunk = job[j].chunk + 1 /\ VectorOf(x, d) = v
      BY <1>2, <1>4, <2>13 DEF VectorOf
    <3>2. job[j].chunk \in 1..MaxChunks
      BY <1>1 DEF Job
    <3>3. k \in 1..job[j].chunk
      BY <2>13, <3>1, <3>2
    <3> QED
      BY <1>2, <1>3, <2>2, <3>1, <3>3
  <2>14. /\ x.pc \in EmbedPc
         /\ x.op = "bootstrap" => x.pc = "embedKnowledge"
    BY <1>1, <1>2 DEF JobOK, OpsAt, EmbedPc
  <2>15. x.pc = "embedKnowledge" => KnowledgeIn(x)' /\ NothingElse' /\ Dropped'
    <3>1. ASSUME x.pc = "embedKnowledge", NEW e \in Generated, Unshared(e)
          PROVE  vector'[e] = NoVectors
      <4>1. e \in DocIds \ {d} /\ vector[e] = NoVectors
        BY <1>2, <1>4, <2>1, <3>1, Rows DEF Progress, Dropped, Generated
      <4> QED
        BY <2>4, <3>1, <4>1, Identified
    <3> QED
      BY <1>2, <2>1, <2>9, <2>10, <3>1 DEF Progress, Dropped
  <2>16. x.op = "embedDocs" /\ x.pc = "embedGenerated" => KnowledgeIn(x)' /\ NothingElse'
    BY <1>2, <2>1, <2>9, <2>10 DEF Progress
  <2>17. x.pc = "embedGenerated" => \A e \in Generated \ x.docs :
           Stored(e)' /\ Unshared(e) => Whole(e, row[e].text)'
    BY <1>1, <2>11 DEF Stored, Whole
  <2>18. x.pc = "embedOne" => \A e \in DocIds \ x.docs : x.text[e] # 0 => Whole(e, x.text[e])'
    BY <2>12 DEF Whole
  <2> QED
    BY <2>6, <2>7, <2>13, <2>14, <2>15, <2>16, <2>17, <2>18 DEF Progress, EmbedPc
<1> QED
  BY <1>2, <1>5, <1>6, <1>7, <1>8, SearchChange
LEMMA SearchFails ==
  ASSUME TypeInv, SearchInv, NEW j \in Jobs, EmbedFails(j)
  PROVE  SearchInv'
<1>1. /\ job[j].pc \in EmbedPc /\ row' = row /\ JobOK(job[j]) /\ job' = [job EXCEPT ![j] = Idle]
  BY JobType DEF EmbedFails, End
<1>2. PICK d \in Current(j) : (WriteChunk(j, d) \/ UNCHANGED vector) /\ Touch({d})
  BY DEF EmbedFails
<1>3. PICK v : v = VectorId(j, d)
  OBVIOUS
<1>4. /\ d \in DocIds
      /\ \A u \in VectorIds \ Identifiers(d) : vector'[u] = vector[u]
  BY <1>1, <1>2, <1>3, Written, CurrentDocument
<1>5. OnDocuments(j)
  BY <1>1 DEF JobOK, OpsAt, EmbedPc, OnDocuments, DocumentOps
<1>6. CleanIsSearchable' /\ clean' \subseteq clean
  <2>1. CleanIsSearchable /\ d \notin clean' /\ clean' \subseteq clean /\ UNCHANGED <<filed, behind>>
    BY <1>2 DEF SearchInv, Touch
  <2> QED
    BY <1>1, <1>4, <2>1, CleanKept
<1>7. Quiet(Idle)' /\ Idle.op \notin DocumentOps
  BY DEF Quiet, Idle, DocumentOps
<1> QED
  BY <1>1, <1>5, <1>6, <1>7, SearchChange

\* An operation that is alone ends: the documents it covers become clean.
LEMMA Covers ==
  ASSUME TypeInv, SearchInv, NEW j \in Jobs, NEW S \in SUBSET DocIds, NEW text, Cover(j, S, text),
         UNCHANGED <<row, vector>>,
         ASSUME job[j].alone, NEW d \in S
         PROVE  text[d] = row[d].text /\ (Unshared(d) => Found(d, text[d]))
  PROVE  CleanIsSearchable' /\ (clean' \subseteq clean \/ job[j].alone)
<1>1. CASE ~job[j].alone
  <2>1. UNCHANGED historyVars
    BY <1>1 DEF Cover
  <2> QED
    BY <2>1, SearchAll DEF SearchInv, historyVars
<1>2. CASE job[j].alone
  <2>1. /\ clean' = clean \cup S /\ behind' = behind \ S
        /\ filed' = [d \in DocIds |-> IF d \in S THEN text[d] ELSE filed[d]]
    BY <1>2 DEF Cover
  <2>2. ASSUME NEW d \in clean' PROVE Searchable(d)'
    <3>1. CASE d \in S
      <4>1. filed'[d] = text[d] /\ text[d] = row'[d].text /\ (Unshared(d) => Found(d, text[d]))
        BY <1>2, <2>1, <3>1
      <4>2. Unshared(d) => Found(d, filed[d])'
        BY <4>1 DEF Found, Whole
      <4> QED
        BY <4>1, <4>2 DEF Searchable
    <3>2. CASE d \notin S
      <4>1. d \in clean /\ d \in DocIds /\ Searchable(d)
        BY <2>1, <2>2, <3>2, SearchParts DEF SearchInv, TypeInv, TypeOK, DocumentTypeOK
      <4>2. filed'[d] = filed[d] /\ (d \in behind => d \in behind')
        BY <2>1, <3>2, <4>1
      <4> QED
        BY <4>1, <4>2, SearchSame
    <3> QED
      BY <3>1, <3>2
  <2>3. CleanIsSearchable'
    BY <2>2 DEF CleanIsSearchable, Searchable
  <2> QED
    BY <1>2, <2>3
<1> QED
  BY <1>1, <1>2

\* ... and so are all when it is Bootstrap, but none of the generated ones is found.
LEMMA CoversBootstrap ==
  ASSUME TypeInv, SearchInv, NEW j \in Jobs, Bootstrapped(j), UNCHANGED <<row, vector>>,
         job[j].alone => /\ \A f \in Flows : Unshared(f) => Found(f, row[f].text)
                         /\ Dropped
  PROVE  CleanIsSearchable' /\ (clean' \subseteq clean \/ job[j].alone)
<1>1. CASE ~job[j].alone
  <2>1. UNCHANGED historyVars
    BY <1>1 DEF Bootstrapped
  <2> QED
    BY <2>1, SearchAll DEF SearchInv, historyVars
<1>2. CASE job[j].alone
  <2>1. /\ clean' = DocIds /\ behind' = StoredIn(Generated)
        /\ filed' = [d \in DocIds |-> IF d \in Flows THEN row[d].text ELSE 0]
    BY <1>2 DEF Bootstrapped
  <2>2. ASSUME NEW d \in DocIds PROVE Searchable(d)'
    <3>1. CASE d \in Flows
      <4>1. filed'[d] = row[d].text /\ (Unshared(d) => Found(d, row[d].text))
        BY <1>2, <2>1, <2>2, <3>1
      <4>2. Unshared(d) => Found(d, filed[d])'
        BY <4>1 DEF Found, Whole
      <4> QED
        BY <4>1, <4>2 DEF Searchable
    <3>2. CASE d \notin Flows
      <4>1. filed'[d] = 0 /\ (Unshared(d) => vector[d] = NoVectors)
        BY <1>2, <2>1, <2>2, <3>2 DEF Dropped, Generated
      <4>2. Unshared(d) => Found(d, filed[d])'
        BY <4>1 DEF Found
      <4>3. row[d].text # 0 => d \in behind'
        BY <2>1, <2>2, <3>2, Rows DEF StoredIn, Generated
      <4> QED
        BY <4>1, <4>2, <4>3 DEF Searchable
    <3> QED
      BY <3>1, <3>2
  <2>3. CleanIsSearchable'
    BY <2>1, <2>2 DEF CleanIsSearchable, Searchable
  <2> QED
    BY <1>2, <2>3
<1> QED
  BY <1>1, <1>2

LEMMA SearchEmbedded ==
  ASSUME TypeInv, SearchInv, NEW j \in Jobs, Embedded(j)
  PROVE  SearchInv'
<1>1. /\ job[j].pc \in EmbedPc /\ UNCHANGED <<row, vector>> /\ job[j].docs = {}
      /\ job[j] \in Job /\ JobOK(job[j])
  BY JobType, EmbeddedJob
<1>2. OnDocuments(j) /\ Quiet(job[j])
  BY <1>1 DEF JobOK, OpsAt, EmbedPc, OnDocuments, DocumentOps, SearchInv
<1>3. job[j].alone => Progress(job[j])
  BY <1>2 DEF SearchInv
<1>4. ASSUME NEW x, job' = [job EXCEPT ![j] = x], Keeps(x, job[j]), x.at = None, UNCHANGED historyVars,
             \/ job[j].pc = "embedOne" /\ x.pc = "insert"
             \/ job[j].pc = "embedKnowledge" /\ job[j].op = "embedDocs" /\ x.pc = "list"
      PROVE  SearchInv'
  <2>1. CleanIsSearchable'
    BY <1>1, <1>4, SearchAll DEF SearchInv, historyVars
  <2>2. Quiet(x)'
    BY <1>2, <1>4 DEF Quiet, Keeps, historyVars
  <2>3. ASSUME x.alone PROVE Progress(x)'
    <3>1. Progress(job[j])
      BY <1>3, <1>4, <2>3 DEF Keeps
    <3>2. x.op # "bootstrap"
      BY <1>1, <1>4 DEF Keeps, JobOK, OpsAt
    <3>3. CASE x.pc = "insert"
      BY <1>1, <1>4, <3>1, <3>2, <3>3 DEF Progress, Keeps, Whole
    <3>4. CASE x.pc = "list"
      BY <1>1, <1>4, <3>1, <3>2, <3>4 DEF Progress, Keeps, KnowledgeIn, NothingElse, Whole, Stored
    <3> QED
      BY <1>4, <3>3, <3>4
  <2>4. x.alone => job[j].alone
    BY <1>4 DEF Keeps
  <2> QED
    BY <1>2, <1>4, <2>1, <2>2, <2>3, <2>4, SearchChange DEF historyVars
<1>5. ASSUME NEW x, job' = [job EXCEPT ![j] = x], ~x.alone, x.pc \in {"idle", "embedCode"},
             CleanIsSearchable', clean' \subseteq clean \/ job[j].alone
      PROVE  SearchInv'
  <2>1. Quiet(x)'
    BY <1>5 DEF Quiet
  <2> QED
    BY <1>2, <1>5, <2>1, SearchChange
<1>6. ASSUME job[j].alone, job[j].pc = "embedKnowledge" \/ job[j].op = "embedDocs", NEW f \in Flows,
             Unshared(f)
      PROVE  Found(f, row[f].text)
  <2>1. KnowledgeIn(job[j]) /\ NothingElse
    BY <1>1, <1>3, <1>6 DEF Progress, JobOK, OpsAt, EmbedPc
  <2>2. f \in DocIds /\ FrontId[f] \in Identifiers(f) /\ (Stored(f) <=> row[f].text # 0)
    BY <1>6, Rows, Identified
  <2> QED
    BY <1>1, <1>6, <2>1, <2>2 DEF KnowledgeIn, NothingElse, Found
<1>7. ASSUME job[j].alone, job[j].pc = "embedGenerated", NEW d \in Generated, Unshared(d),
             row[d].text # 0
      PROVE  Found(d, row[d].text)
  <2>1. Stored(d) /\ d \in Identifiers(d)
    BY <1>7, Rows, Identified
  <2>2. Whole(d, row[d].text)
    BY <1>1, <1>3, <1>7, <2>1 DEF Progress
  <2> QED
    BY <1>7, <2>1, <2>2 DEF Found
<1>8. ASSUME job[j].alone, job[j].pc = "embedGenerated", job[j].op = "embedDocs", NEW d \in DocIds,
             Unshared(d)
      PROVE  Found(d, row[d].text)
  <2>1. CASE d \in Flows
    BY <1>6, <1>8, <2>1
  <2>2. CASE d \notin Flows /\ row[d].text # 0
    BY <1>7, <1>8, <2>2 DEF Generated
  <2>3. CASE row[d].text = 0
    <3>1. ~Stored(d)
      BY <1>8, <2>3, Rows
    <3> QED
      BY <1>3, <1>8, <2>3, <3>1 DEF Progress, NothingElse, Found
  <2> QED
    BY <2>1, <2>2, <2>3
<1>9. ASSUME job[j].alone, job[j].pc = "embedGenerated", NEW d \in Generated, job[j].text[d] # 0,
             Unshared(d)
      PROVE  Found(d, row[d].text)
  <2>1. row[d].text # 0
    BY <1>3, <1>9 DEF Progress, Listed
  <2> QED
    BY <1>7, <1>9, <2>1
<1>10. PICK x \in Job :
              /\ job' = [job EXCEPT ![j] = x]
              /\ \/ /\ At(j, "embedOne") /\ x.pc = "insert" /\ x.at = None
                    /\ Keeps(x, job[j]) /\ UNCHANGED historyVars
                 \/ /\ At(j, "embedKnowledge") /\ job[j].op = "embedDocs" /\ x.pc = "list" /\ x.at = None
                    /\ Keeps(x, job[j]) /\ UNCHANGED historyVars
                 \/ /\ At(j, "embedKnowledge") /\ x.pc = "embedCode" /\ ~x.alone /\ Bootstrapped(j)
                 \/ At(j, "embedKnowledge") /\ x = Idle /\ Bootstrapped(j)
                 \/ /\ At(j, "embedGenerated") /\ x = Idle
                    /\ Cover(j, IF job[j].op = "daily" THEN {d \in Generated : job[j].text[d] # 0}
                                ELSE DocIds, Texts)
  BY EmbeddedJob
<1>11. CASE Keeps(x, job[j]) /\ UNCHANGED historyVars /\ x.pc \in {"insert", "list"}
  <2>1. /\ x.at = None
        /\ \/ job[j].pc = "embedOne" /\ x.pc = "insert"
           \/ job[j].pc = "embedKnowledge" /\ job[j].op = "embedDocs" /\ x.pc = "list"
    BY <1>10, <1>11 DEF At, Idle
  <2> QED
    BY <1>4, <1>10, <1>11, <2>1
<1>12. CASE /\ At(j, "embedKnowledge") /\ Bootstrapped(j)
            /\ x = Idle \/ (x.pc = "embedCode" /\ ~x.alone)
  <2>1. ~x.alone /\ x.pc \in {"idle", "embedCode"} /\ job[j].pc = "embedKnowledge"
    BY <1>12 DEF At, Idle
  <2>2. ASSUME job[j].alone, NEW f \in Flows, Unshared(f) PROVE Found(f, row[f].text)
    BY <1>6, <2>1, <2>2
  <2>3. job[j].alone => Dropped
    BY <1>3, <2>1 DEF Progress
  <2>4. CleanIsSearchable' /\ (clean' \subseteq clean \/ job[j].alone)
    BY <1>1, <1>12, <2>2, <2>3, CoversBootstrap
  <2> QED
    BY <1>5, <1>10, <2>1, <2>4
<1>13. CASE /\ At(j, "embedGenerated") /\ x = Idle
            /\ Cover(j, IF job[j].op = "daily" THEN {d \in Generated : job[j].text[d] # 0} ELSE DocIds, Texts)
  <2>1. ~x.alone /\ x.pc \in {"idle", "embedCode"} /\ job[j].pc = "embedGenerated"
    BY <1>13 DEF At, Idle
  <2>2. job[j].op \in {"daily", "embedDocs"}
    BY <1>1, <2>1 DEF JobOK, OpsAt
  <2>3. PICK S \in SUBSET DocIds : S = IF job[j].op = "daily" THEN {d \in Generated : job[j].text[d] # 0}
                                       ELSE DocIds
    BY Rows
  <2>4. Cover(j, S, Texts)
    BY <1>13, <2>3
  <2>5. ASSUME job[j].alone, NEW d \in S
        PROVE  Texts[d] = row[d].text /\ (Unshared(d) => Found(d, Texts[d]))
    <3>1. d \in DocIds /\ Texts[d] = row[d].text
      BY DEF Texts
    <3>2. Unshared(d) => Found(d, row[d].text)
      BY <1>8, <1>9, <2>1, <2>2, <2>3, <2>5
    <3> QED
      BY <3>1, <3>2
  <2>6. CleanIsSearchable' /\ (clean' \subseteq clean \/ job[j].alone)
    BY <1>1, <2>4, <2>5, Covers
  <2> QED
    BY <1>5, <1>10, <2>1, <2>6
<1> QED
  BY <1>10, <1>11, <1>12, <1>13
\* One document.
LEMMA SearchUnvector ==
  ASSUME TypeInv, SearchInv, NEW j \in Jobs, Unvector(j)
  PROVE  SearchInv'
<1>1. /\ row' = row /\ job[j].pc = "unvector" /\ job[j] \in Job /\ JobOK(job[j])
  BY JobType, UnvectorJob DEF At
<1>2. PICK d \in job[j].docs, failed \in BOOLEAN, x \in Job :
        /\ vector' = IF failed THEN vector ELSE [vector EXCEPT ![d] = NoVectors]
        /\ Touch({d})
        /\ job' = [job EXCEPT ![j] = x]
        /\ x.pc = IF job[j].op = "delete" THEN "remove" ELSE "embedOne"
        /\ SameDocs(x, job[j])
        /\ x.alone => job[j].alone /\ ~failed
  BY UnvectorJob
<1>3. /\ job[j].docs = {d} /\ d \in DocIds /\ \A e \in DocIds \ {d} : job[j].text[e] = 0
      /\ job[j].at = None /\ job[j].op \in {"reindex", "delete"}
  BY <1>1 DEF JobOK, EmbedPc, OpsAt
<1>4. OnDocuments(j)
  BY <1>3 DEF OnDocuments, DocumentOps
<1>5. /\ \A u \in VectorIds \ {d} : vector'[u] = vector[u]
      /\ ~failed => vector'[d] = NoVectors
  BY <1>2, <1>3 DEF TypeInv, TypeOK, DocumentTypeOK, VectorIds
<1>6. CleanIsSearchable' /\ clean' \subseteq clean
  <2>1. CleanIsSearchable /\ d \notin clean' /\ clean' \subseteq clean /\ UNCHANGED <<filed, behind>>
    BY <1>2 DEF SearchInv, Touch
  <2>2. \A u \in VectorIds \ Identifiers(d) : vector'[u] = vector[u]
    BY <1>3, <1>5, Identified
  <2> QED
    BY <1>1, <1>3, <2>1, <2>2, CleanKept
<1>7. clean \subseteq DocIds
  BY DEF TypeInv, TypeOK, DocumentTypeOK
<1>8. Quiet(x)'
  BY <1>2, <1>3, <1>7 DEF Quiet, SameDocs, Touch
<1>9. ASSUME x.alone PROVE Progress(x)'
  BY <1>2, <1>3, <1>5, <1>9 DEF Progress, SameDocs
<1> QED
  BY <1>2, <1>4, <1>6, <1>8, <1>9, SearchChange

\* ... stored or deleted.
LEMMA SearchOne ==
  ASSUME TypeInv, SearchInv, NEW j \in Jobs, OnDocuments(j), job' = [job EXCEPT ![j] = Idle],
         vector' = vector, NEW d \in DocIds, NEW y \in Row, NEW text, text[d] = y.text,
         \/ UNCHANGED <<row, historyVars>>
         \/ row' = [row EXCEPT ![d] = y] /\ Cover(j, {d}, text),
         d \notin clean,
         job[j].alone => IF y.text = 0 THEN vector[d] = NoVectors ELSE Whole(d, y.text)
  PROVE  SearchInv'
<1>1. CleanIsSearchable' /\ (clean' \subseteq clean \/ job[j].alone)
  <2>1. CASE UNCHANGED <<row, historyVars>>
    BY <2>1, SearchAll DEF SearchInv, historyVars
  <2>2. CASE row' = [row EXCEPT ![d] = y] /\ Cover(j, {d}, text)
    <3>1. row'[d] = y /\ \A e \in DocIds \ {d} : row'[e] = row[e]
      BY <2>2 DEF TypeInv, TypeOK, DocumentTypeOK
    <3>2. CASE ~job[j].alone
      <4>1. UNCHANGED historyVars
        BY <2>2, <3>2 DEF Cover
      <4>2. CleanIsSearchable'
        BY <3>1, <4>1, CleanKept DEF SearchInv, historyVars
      <4> QED
        BY <4>1, <4>2 DEF historyVars
    <3>3. CASE job[j].alone
      <4>1. /\ clean' = clean \cup {d} /\ behind' = behind \ {d}
            /\ filed' = [e \in DocIds |-> IF e \in {d} THEN text[e] ELSE filed[e]]
        BY <2>2, <3>3 DEF Cover
      <4>2. filed'[d] = y.text /\ \A e \in DocIds \ {d} : filed'[e] = filed[e]
        BY <4>1
      <4>3. Found(d, filed[d])'
        BY <3>3, <4>2, Identified DEF Found, Whole
      <4>4. Searchable(d)'
        BY <3>1, <4>2, <4>3 DEF Searchable
      <4>5. CleanIsSearchable'
        BY <3>1, <4>1, <4>2, <4>4, CleanKept DEF SearchInv
      <4> QED
        BY <3>3, <4>5
    <3> QED
      BY <3>2, <3>3
  <2> QED
    BY <2>1, <2>2
<1>2. Quiet(Idle)' /\ Idle.op \notin DocumentOps
  BY DEF Quiet, Idle, DocumentOps
<1> QED
  BY <1>1, <1>2, SearchChange

LEMMA SearchInsert ==
  ASSUME TypeInv, SearchInv, NEW j \in Jobs, Insert(j) \/ Remove(j)
  PROVE  SearchInv'
<1>1. /\ job[j] \in Job /\ JobOK(job[j]) /\ job' = [job EXCEPT ![j] = Idle] /\ vector' = vector
      /\ job[j].pc \in {"insert", "remove"} /\ Quiet(job[j])
  BY JobType DEF Insert, Remove, At, End, SearchInv
<1>2. OnDocuments(j)
  BY <1>1 DEF JobOK, OpsAt, OnDocuments, DocumentOps
<1>3. job[j].alone => Progress(job[j])
  BY <1>2 DEF SearchInv
<1>4. CASE Insert(j)
  <2>1. PICK d \in DocIds :
          /\ job[j].text[d] # 0
          /\ \/ /\ row' = [row EXCEPT ![d] = [text |-> job[j].text[d], hash |-> job[j].hash]]
                /\ Cover(j, {d}, job[j].text)
             \/ UNCHANGED <<row, historyVars>>
    BY <1>4, InsertJob
  <2>2. job[j].pc = "insert" /\ job[j].docs = {}
    BY <1>1, <1>4 DEF Insert, At, JobOK
  <2>3. PICK y \in Row : y = [text |-> job[j].text[d], hash |-> job[j].hash]
    BY <1>1 DEF Row, Job
  <2>4. d \notin clean
    BY <1>1, <2>1, <2>2 DEF Quiet
  <2>5. y.text = job[j].text[d] /\ y.text # 0 /\ (job[j].alone => Whole(d, y.text))
    BY <1>3, <2>1, <2>2, <2>3 DEF Progress
  <2>6. PICK text : text = job[j].text
    OBVIOUS
  <2>7. UNCHANGED <<row, historyVars>> \/ (row' = [row EXCEPT ![d] = y] /\ Cover(j, {d}, text))
    BY <2>1, <2>3, <2>6
  <2> QED
    BY <1>1, <1>2, <2>4, <2>5, <2>6, <2>7, SearchOne
<1>5. CASE Remove(j)
  <2>1. PICK d \in job[j].docs : \/ row' = [row EXCEPT ![d] = NoRow] /\ Cover(j, {d}, [e \in {d} |-> 0])
                                 \/ UNCHANGED <<row, historyVars>>
    BY <1>5 DEF Remove
  <2>2. job[j].pc = "remove" /\ d \in DocIds
    BY <1>1, <1>5 DEF Remove, At, Job
  <2>3. d \notin clean /\ (job[j].alone => vector[d] = NoVectors)
    BY <1>1, <1>3, <2>1, <2>2 DEF Quiet, Progress
  <2>4. NoRow \in Row /\ NoRow.text = 0
    BY Bounds DEF NoRow, Row
  <2>5. PICK text : text = [e \in {d} |-> 0]
    OBVIOUS
  <2>6. text[d] = NoRow.text
    BY <2>4, <2>5
  <2>7. UNCHANGED <<row, historyVars>> \/ (row' = [row EXCEPT ![d] = NoRow] /\ Cover(j, {d}, text))
    BY <2>1, <2>5
  <2> QED
    BY <1>1, <1>2, <2>2, <2>3, <2>4, <2>6, <2>7, SearchOne
<1> QED
  BY <1>4, <1>5

LEMMA SearchDocument ==
  ASSUME TypeInv, SearchInv, NEW j \in Jobs, DocumentStep(j)
  PROVE  SearchInv'
BY SearchCode, SearchStore, SearchDrop, SearchTaken, SearchClear, SearchChunk, SearchFails,
   SearchEmbedded, SearchUnvector, SearchInsert DEF DocumentStep

LEMMA SearchStep == ASSUME TypeInv, SearchInv, [Next]_allVars PROVE SearchInv'
<1>1. ASSUME UNCHANGED <<job, documentVars>> PROVE SearchInv'
  <2>1. CleanIsSearchable'
    BY <1>1, SearchAll DEF SearchInv, documentVars, historyVars
  <2> QED
    BY <1>1, <2>1 DEF SearchInv, Stored, Whole, OnDocuments, Progress, Quiet, Listed,
       StoredIn, KnowledgeIn, NothingElse, Dropped, documentVars, historyVars
<1>2. ASSUME NEW r \in Repos, Commit(r), UNCHANGED documentVars PROVE SearchInv'
  BY <1>1, <1>2 DEF Commit
<1>3. CASE Restart
  <2>1. UNCHANGED documentVars /\ \A k \in Jobs : job'[k] = Idle
    BY <1>3 DEF Restart
  <2>2. CleanIsSearchable'
    BY <1>3, <2>1, SearchAll DEF SearchInv, documentVars, historyVars
  <2>3. Idle.op \notin DocumentOps /\ Idle.pc = "idle"
    BY DEF Idle, DocumentOps
  <2> QED
    BY <2>1, <2>2, <2>3 DEF SearchInv, OnDocuments, Quiet
<1>4. CASE UNCHANGED allVars
  BY <1>1, <1>4 DEF allVars, vars
<1> QED
  BY <1>2, <1>3, <1>4, SearchBegin, SearchStructure, SearchDocument DEF Next, Step
-----------------------------------------------------------------------------
(* The theorems.                                                           *)

LEMMA Invariant == Spec => []IInv
<1>1. Init => IInv
  BY TypeStart, LabelStart, ServedStart, PlanStart, FreshStart, SearchStart DEF IInv
<1>2. IInv /\ [Next]_allVars => IInv'
  BY TypeStep, LabelStep, ServedStep, PlanStep, FreshStep, SearchStep DEF IInv
<1> QED
  BY <1>1, <1>2, PTL DEF Spec

\* The checkouts, the snapshots, the documents, their vectors and the state of
\* every operation stay within their types, for any repositories, uploads,
\* texts and operations.
THEOREM TypeCorrect == Spec => []TypeOK
<1>1. IInv => TypeOK
  BY DEF IInv, TypeInv
<1> QED
  BY <1>1, Invariant, PTL

\* Outside publications the served handle, the snapshot file and the graph are
\* the same, unless a publication failed half-way or met another
\* (RebuildSQLIndex, ReplaceAll, reloadDependencyGraph).
THEOREM Published == Spec => []PublishedIsServed
<1>1. IInv => PublishedIsServed
  BY DEF IInv, ServedInv
<1> QED
  BY <1>1, Invariant, PTL

\* The revision a snapshot names is never older than the one it was scanned
\* from, however syncs, webhooks and rebuilds interleave (RebuildSQLIndex, ScanCode).
THEOREM LabelsHonest == Spec => []LabelIsHonest
<1>1. IInv => LabelIsHonest
  BY DEF IInv, LabelInv, Honest, LabelIsHonest
<1> QED
  BY <1>1, Invariant, PTL

\* A generated document that the hash check would skip was written from sources
\* that hash the same as those checked out, or later than such sources were last
\* there: its marker is never newer than its text, whatever the hash tells apart
\* (generateModule, hashModule, reindexStoredDoc).
THEOREM SkippedFresh == Spec => []SkippedIsFresh
<1>1. ASSUME TypeInv, FreshInv PROVE SkippedIsFresh
  <2>1. ASSUME NEW r \in Repos, Stored(r)
        PROVE  Hashes(row[r].text, row[r].hash)
    <3>1. row[r] \in Row /\ (row[r].text = 0 => row[r].hash = 0)
      BY <1>1 DEF TypeInv, TypeOK, DocumentTypeOK, DocIds
    <3>2. row[r].text # 0
      BY <2>1, <3>1 DEF Stored, NoRow, Row
    <3> QED
      BY <1>1, <3>2 DEF FreshInv
  <2> QED
    BY <2>1 DEF SkippedIsFresh, Hashes
<1>2. IInv => SkippedIsFresh
  BY <1>1 DEF IInv
<1> QED
  BY <1>2, Invariant, PTL

\* A repository the daily sync takes for indexed has the code vectors of its
\* revision, or an operation still has them to make, or their making failed or
\* was never planned (DailySync).
THEOREM Indexed == Spec => []IndexedIsEmbedded
<1>1. ASSUME PlanInv PROVE IndexedIsEmbedded
  <2>1. ASSUME NEW r \in Repos \ unplanned, served[r].sha = tree[r], code[r] # tree[r]
        PROVE  \E j \in Jobs : r \in Pending(j)
    <3>1. PICK j \in Jobs : Plans(job[j], r)
      BY <1>1, <2>1 DEF PlanInv, Planned
    <3>2. r \in Pending(j)
      BY <3>1 DEF Plans, Pending
    <3> QED
      BY <3>2
  <2> QED
    BY <2>1 DEF IndexedIsEmbedded
<1>2. IInv => IndexedIsEmbedded
  BY <1>1 DEF IInv
<1> QED
  BY <1>2, Invariant, PTL

\* A document whose last operation succeeded alone is found whole, or not at all
\* once deleted: with the text it was last embedded with if it was generated
\* again since, and not at all if Bootstrap dropped it
\* (EmbedChunksCanonical, reindexStoredDoc, APIDocDelete, APIBootstrap).
THEOREM CleanSearchable == Spec => []CleanIsSearchable
<1>1. IInv => CleanIsSearchable
  BY DEF IInv, SearchInv
<1> QED
  BY <1>1, Invariant, PTL
=============================================================================
