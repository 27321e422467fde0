------------------------------ MODULE Workspace ------------------------------
(***************************************************************************)
(* The indexing service: the operations that keep checkouts, structural     *)
(* index, code vectors, documents and document vectors together, composed   *)
(* of the steps of StructureIndex and DocumentIndex.  Dashboard requests,   *)
(* webhooks, the daily ticker and goroutines start them at any time.        *)
(***************************************************************************)
EXTENDS DocumentIndex

CONSTANT MaxOps   \* bound on the operations started
ASSUME MaxOpsAssumption == MaxOps \in Nat

VARIABLE started  \* number of operations started so far

allVars == <<vars, started>>

TypeOK == StructureTypeOK /\ DocumentTypeOK /\ started \in 0..MaxOps

Init == StructureInit /\ DocumentInit /\ started = 0

-----------------------------------------------------------------------------
(* Operations.                                                             *)

\* An operation starts on an idle job.  One on documents is not alone when
\* another is under way, and takes that from the other.
OnDocuments(k) == job[k].op \in DocumentOps

Start(j, first) ==
  /\ job[j].op = "none"
  /\ started < MaxOps
  /\ started' = started + 1
  /\ LET joins == first.op \in DocumentOps IN
       job' = [k \in Jobs |->
                 IF k = j
                 THEN [first EXCEPT !.alone = @ /\ joins /\ \A i \in Jobs : ~OnDocuments(i)]
                 ELSE [job[k] EXCEPT !.alone = @ /\ ~joins]]

Op(op, pc) == [Idle EXCEPT !.op = op, !.pc = pc, !.alone = TRUE]

\* APIGitlabSync and CheckoutAll; APISyncProject and SyncOne.
Sync(j) == \E S \in {{r} : r \in Repos} \cup {Repos} : Start(j, [Op("sync", "fetch") EXCEPT !.todo = S])

\* VCSHandler after a push to a default branch, SyncProject.
Hook(j) ==
  \E r \in Repos : origin[r] > 1 /\ Start(j, [Op("push", "fetch") EXCEPT !.todo = {r}])

\* startDailySyncTicker runs one DailySync after the other.
Daily(j) ==
  /\ \A k \in Jobs : job[k].op # "daily"
  /\ Start(j, [Op("daily", "fetch") EXCEPT !.todo = Repos])

\* APIRebuildSQLIndex, APIReindexRepo.
RebuildIndex(j) == Start(j, Op("rebuild", "scan"))

\* APIRebuildCodeGraph, after the code graph was rebuilt outside.
ReloadGraph(j) ==
  /\ job[j].op = "none"
  /\ started < MaxOps
  /\ started' = started + 1
  /\ job' = [k \in Jobs |->
               IF k = j THEN [Op("graph", "edges") EXCEPT !.lone = \A i \in Jobs : ~InWindow(i)]
               ELSE [job[k] EXCEPT !.lone = FALSE]]
  /\ torn' = (torn \/ \E k \in Jobs : InWindow(k))

\* APIBootstrap lists the knowledge base, nil on an error, before it scans.
Bootstrap(j) == \E first \in Knowledge(Op("bootstrap", "scan")) : Start(j, first)

\* APIGendocsRepo, in a goroutine.
GenerateDocs(j) == \E r \in Repos : Start(j, [Op("gendocs", "hash") EXCEPT !.todo = {r}])

\* APIEmbedDocs generates the documents of all checkouts first.
EmbedDocs(j) == Start(j, [Op("embedDocs", "hash") EXCEPT !.todo = Cloned])

\* APIEmbedCode, APIEmbedRepo.
EmbedCodeOf(j) ==
  \E S \in {{r} : r \in Cloned} \cup {Cloned} : Start(j, [Op("embedCode", "embedCode") EXCEPT !.todo = S])

\* APIDocUpload and APIKnowledgeCreate, past validation and chunking.
Upload(j) ==
  \E d \in Uploads, t \in 1..MaxText :
    Start(j, [Op("upload", "embedOne") EXCEPT !.docs = {d}, !.text[d] = t])

\* APIDocReindex, APIKnowledgeReindex, each document of APIDocsBatchReindex.
Reindex(j) == \E d \in DocIds : Start(j, [Op("reindex", "load") EXCEPT !.docs = {d}])

\* APIDocDelete, APIKnowledgeDelete.
Delete(j) == \E d \in DocIds : Start(j, [Op("delete", "unvector") EXCEPT !.docs = {d}])

\* The process stops and starts again: Build opens the file and rebuilds the
\* graph from it.
Restart ==
  /\ job # [j \in Jobs |-> Idle]
  /\ job' = [j \in Jobs |-> Idle]
  /\ served' = file /\ graph' = file
  /\ torn' = FALSE
  /\ unplanned' = unplanned \cup UNION {Pending(j) : j \in Jobs}
  /\ UNCHANGED <<origin, tree, file, code, slipped, documentVars, started>>

Begin(j) ==
  \/ /\ \/ Sync(j) \/ Hook(j) \/ Daily(j) \/ RebuildIndex(j) \/ Bootstrap(j)
        \/ GenerateDocs(j) \/ EmbedDocs(j) \/ EmbedCodeOf(j)
        \/ Upload(j) \/ Reindex(j) \/ Delete(j)
     /\ UNCHANGED <<structureVars, documentVars>>
  \/ /\ ReloadGraph(j)
     /\ UNCHANGED <<origin, tree, file, served, graph, code, slipped, unplanned, documentVars>>

Step(j) ==
  \/ StructureStep(j) /\ UNCHANGED <<documentVars, started>>
  \/ DocumentStep(j) /\ UNCHANGED started

Next ==
  \/ \E r \in Repos : Commit(r) /\ UNCHANGED <<documentVars, started>>
  \/ \E j \in Jobs : Begin(j) \/ Step(j)
  \/ Restart

Spec == Init /\ [][Next]_allVars

-----------------------------------------------------------------------------
(* Properties.                                                             *)

\* Outside publications the snapshot readers query, the file a restart opens
\* and the dependency graph are one and the same, unless a publication failed
\* half-way or met another; the next rebuild that runs alone, or a restart,
\* repairs that (ReplaceAll, reloadDependencyGraph, Build).
PublishedIsServed ==
  ~torn /\ (\A j \in Jobs : ~InWindow(j)) => served = file /\ graph = file

\* The revision a snapshot names is never older than the one it was scanned
\* from, so what the daily sync takes for changed was not indexed yet; it is
\* newer only after a checkout between a scan and the reading of HEAD.
LabelIsHonest ==
  \A s \in {file, served, graph}, r \in Repos :
    /\ s[r].src <= s[r].sha
    /\ r \notin slipped => s[r].src = s[r].sha

\* A generated document the hash check would skip was written from sources that
\* hash the same as those checked out now, or later than such sources were last
\* there: however generation, checkouts, reindexing and deletion mix, a document
\* is never taken for fresh because its marker is newer than its text.  It is as
\* far as hashModule looks, which skips files that go into the prompt; and a
\* document is taken for fresh although it is not when the sources changed
\* between the hash and the reading and were changed back since
\* (generateModule, hashModule, reindexStoredDoc).
SkippedIsFresh ==
  \A r \in Repos : Stored(r) /\ row[r].hash = Digest[tree[r]] =>
    \E t \in 1..row[r].text : Digest[t] = Digest[tree[r]]

\* A repository the daily sync will not look at again has code vectors of its
\* revision, or they are being made, or their making failed, or the revision
\* was published by an operation that had no plan to embed it.
IndexedIsEmbedded ==
  \A r \in Repos \ unplanned :
    served[r].sha = tree[r] /\ code[r] # tree[r] => \E j \in Jobs : r \in Pending(j)

\* The identifiers a document's chunks may have, when no other document has them.
Identifiers(d) == {d} \cup {FrontId[f] : f \in Flows \cap {d}}
Unshared(d) == \A e \in DocIds \ {d} : Identifiers(d) \cap Identifiers(e) = {}

\* A document's chunks, all of them, are filed under v.
Whole(v, t) == \A k \in 1..Chunks[t] : vector[v][k] = t

\* The whole text t of d is found; nothing is when t is 0.
Found(d, t) ==
  IF t # 0 THEN \E v \in Identifiers(d) : Whole(v, t) ELSE vector[d] = NoVectors

\* A document whose last upload, reindexing, deletion, bulk embedding or
\* Bootstrap succeeded and met no other operation on documents is found whole
\* when it is stored and not at all when it is deleted, apart from two effects
\* of operations that succeed: a generated document is found with the text of
\* its last embedding after it was generated anew, and Bootstrap, which clears
\* the vectors of all documents and embeds flows and schemas only, leaves the
\* others unfindable until they are embedded again (EmbedChunksCanonical,
\* APIBootstrap, generateModule).
CleanIsSearchable ==
  \A d \in clean :
    /\ Unshared(d) => Found(d, filed[d])
    /\ filed[d] # row[d].text => d \in behind
=============================================================================
