---------------------------- MODULE DocumentIndex ----------------------------
(***************************************************************************)
(* Documents and their vectors.  Rows are in MySQL, the chunks' vectors in  *)
(* the semantic store, and nothing ties the two: every operation deletes,   *)
(* embeds and stores in requests of its own.  Uploaded documents are flows  *)
(* (and schemas) or plain documents; each repository has a generated one.   *)
(* A text is a number, a generated text is the revision it was written from *)
(* with every file the prompt takes; the hash of a repository's sources is    *)
(* that of the files hashModule looks at.                                     *)
(***************************************************************************)
EXTENDS StructureIndex

CONSTANTS
  Flows,      \* uploads of kind "flow" or "schema": the knowledge base
  Aliases,    \* identifiers in the front matter of flows
  FrontId,    \* the identifier EmbedDocs files a flow's chunks under
  Chunks,     \* the number of chunks ChunkMarkdown cuts a text into
  Digest,     \* what hashModule computes of a revision: others may have the same
  IndexCode   \* whether Bootstrap embeds code

ASSUME FlowAssumption ==
  /\ Flows \subseteq Uploads
  /\ FrontId \in [Flows -> Flows \cup Aliases]
ASSUME ChunkAssumption == Chunks \in [1..MaxText -> 1..MaxChunks]
ASSUME DigestAssumption == Digest \in [1..MaxCommits -> 1..MaxCommits]

VARIABLES
  row,    \* documents: text and hash marker of every stored document
  vector, \* per document identifier and chunk: the text embedded, or 0
  clean,  \* history: documents no unfinished, failed or concurrent operation touched
  filed,  \* history: the text whose chunks an operation left under a clean document
  behind  \* history: stored with a text newer than that, or dropped by Bootstrap

historyVars == <<clean, filed, behind>>
documentVars == <<row, vector, historyVars>>
vars == <<structureVars, job, documentVars>>

Generated == DocIds \ Flows      \* kinds "document" and "module"
VectorIds == DocIds \cup Aliases

Row == [text: Text, hash: Revision]
NoRow == [text |-> 0, hash |-> 0]
Stored(d) == row[d] # NoRow
NoVectors == [k \in 1..MaxChunks |-> 0]

DocumentTypeOK ==
  /\ row \in [DocIds -> Row]
  /\ vector \in [VectorIds -> [1..MaxChunks -> Text]]
  /\ clean \subseteq DocIds /\ filed \in [DocIds -> Text] /\ behind \subseteq DocIds
  /\ \A d \in DocIds : row[d].text = 0 => row[d].hash = 0

DocumentInit ==
  /\ row = [d \in DocIds |-> NoRow]
  /\ vector = [v \in VectorIds |-> NoVectors]
  /\ clean = DocIds /\ filed = [d \in DocIds |-> 0] /\ behind = {}

DocumentOps == {"daily", "bootstrap", "gendocs", "embedDocs", "upload", "reindex", "delete"}

\* Job j touches these documents; at its end those it covered are clean and have
\* the chunks of these texts, if it met no other operation on documents and
\* ignored no error.
Touch(S) == clean' = clean \ S /\ UNCHANGED <<filed, behind>>
Cover(j, S, text) ==
  IF job[j].alone
  THEN /\ clean' = clean \cup S
       /\ filed' = [d \in DocIds |-> IF d \in S THEN text[d] ELSE filed[d]]
       /\ behind' = behind \ S
  ELSE UNCHANGED historyVars

-----------------------------------------------------------------------------
(* Generated documents and code vectors, repository by repository.          *)

Skip(next) == [next EXCEPT !.pc = "hash", !.todo = @ \ {next.repo}, !.repo = None]

\* Broken variant: DailySync continues with the next repository.
GeneratedOnly(j, next) == Skip(next)

\* A repository's document is dealt with: DailySync goes on to its code.
AfterGeneration(j, next) ==
  IF job[j].op = "daily" THEN [next EXCEPT !.pc = "embedCode"] ELSE Skip(next)

\* generateModule hashes the sources and skips a document with that hash.
Hash(j) ==
  /\ At(j, "hash")
  /\ \E r \in job[j].todo \cap Cloned :
       LET next == [job[j] EXCEPT !.repo = r, !.hash = 0]
       IN job' = [job EXCEPT ![j] =
                    IF row[r].hash = Digest[tree[r]] THEN AfterGeneration(j, next)
                    ELSE [next EXCEPT !.pc = "read", !.hash = Digest[tree[r]]]]
  /\ UNCHANGED <<structureVars, documentVars>>

\* ... reads the files for the prompt,
Read(j) ==
  /\ At(j, "read")
  /\ job' = [job EXCEPT ![j].pc = "store", ![j].src = tree[job[j].repo]]
  /\ UNCHANGED <<structureVars, documentVars>>

\* Broken variant: the marker is computed when the document is stored.
MarkerWhenStored(j) == Digest[tree[job[j].repo]]

Marker(j) == job[j].hash

\* ... and stores what the model wrote, unless it or the INSERT fails.  The
\* vectors stay those of the text before.
Store(j) ==
  /\ At(j, "store")
  /\ LET r == job[j].repo
         next == [job[j] EXCEPT !.hash = 0, !.src = 0]
     IN \/ /\ row' = [row EXCEPT ![r] = [text |-> job[j].src, hash |-> Marker(j)]]
           /\ behind' = behind \cup {r}
           /\ job' = [job EXCEPT ![j] = AfterGeneration(j, [next EXCEPT !.changed = TRUE])]
        \/ /\ job' = [job EXCEPT ![j] = AfterGeneration(j, next)]
           /\ UNCHANGED <<row, behind>>
  /\ UNCHANGED <<structureVars, vector, clean, filed>>

\* Every repository is done (or not cloned).  DailySync embeds when a document
\* changed.
Generation(j) ==
  /\ At(j, "hash") /\ job[j].todo \cap Cloned = {}
  /\ CASE job[j].op = "daily" /\ job[j].changed ->
            job' = [job EXCEPT ![j].pc = "list", ![j].todo = {}]
       [] job[j].op = "embedDocs" ->
            job' = [job EXCEPT ![j].pc = "drop", ![j].todo = {}]
       [] OTHER -> End(j)
  /\ UNCHANGED <<structureVars, documentVars>>

\* EmbedRepoCode and EmbedCodeChunks, whose inside is CodeIndex: the vectors
\* of a repository are now of what is checked out, or the operation failed.
EmbedCode(j) ==
  /\ At(j, "embedCode")
  /\ \E r \in IF job[j].op = "daily" THEN {job[j].repo} ELSE job[j].todo :
       LET next == IF job[j].op = "daily" THEN Skip(job[j])
                   ELSE [job[j] EXCEPT !.todo = @ \ {r}]
       IN \/ /\ code' = [code EXCEPT ![r] = tree[r]]
             /\ unplanned' = unplanned \ {r}
             /\ job' = [job EXCEPT ![j] = next]
          \/ /\ job' = [job EXCEPT ![j] = IF job[j].op = "daily" THEN next ELSE Idle]
             /\ unplanned' = unplanned \cup {r}
             /\ UNCHANGED code
  /\ UNCHANGED <<origin, tree, file, served, graph, slipped, torn, documentVars>>

CodeEmbedded(j) ==
  /\ At(j, "embedCode") /\ job[j].op # "daily" /\ job[j].todo = {}
  /\ End(j)
  /\ UNCHANGED <<structureVars, documentVars>>

-----------------------------------------------------------------------------
(* All documents at once.                                                  *)

Texts == [d \in DocIds |-> row[d].text]
StoredIn(S) == {d \in S : Stored(d)}

\* IndexKnowledgeBaseFromDocStore: nil, and no error, when the query fails.
Knowledge(start) ==
  {[start EXCEPT !.docs = StoredIn(Flows), !.text = Texts],
   [start EXCEPT !.docs = {}, !.alone = FALSE]}

\* Both Bootstrap and EmbedDocs clear the whole "docs" bucket, logging a
\* failure; Bootstrap has listed the knowledge base before, with the scan.
Drop(j) ==
  /\ At(j, "drop")
  /\ \E dropped \in BOOLEAN :
       LET start == [job[j] EXCEPT !.pc = "embedKnowledge",
                                   !.alone = @ /\ dropped]
       IN /\ vector' = IF dropped THEN [v \in VectorIds |-> NoVectors] ELSE vector
          /\ \E next \in IF job[j].op = "bootstrap" THEN {start} ELSE Knowledge(start) :
               job' = [job EXCEPT ![j] = next]
  /\ Touch(DocIds)
  /\ UNCHANGED <<structureVars, row>>

\* The collection cannot be ensured, or Bootstrap's services not be embedded.
DropFails(j) ==
  /\ At(j, "drop")
  /\ End(j)
  /\ UNCHANGED <<structureVars, documentVars>>

\* EmbedDocuments lists the other kinds, or returns an error,
List(j) ==
  /\ At(j, "list")
  /\ \/ job' = [job EXCEPT ![j] = [job[j] EXCEPT !.pc = "clear", !.text = Texts,
                                                 !.docs = StoredIn(Generated)]]
     \/ End(j)
  /\ UNCHANGED <<structureVars, documentVars>>

\* ... and deletes their vectors, logging failures.
Clear(j) ==
  /\ At(j, "clear")
  /\ \E failed \in SUBSET job[j].docs :
       /\ vector' = [v \in VectorIds |->
                       IF v \in job[j].docs \ failed THEN NoVectors ELSE vector[v]]
       /\ job' = [job EXCEPT ![j] = [job[j] EXCEPT !.pc = "embedGenerated",
                                                   !.alone = @ /\ failed = {}]]
  /\ Touch(job[j].docs)
  /\ UNCHANGED <<structureVars, row>>

-----------------------------------------------------------------------------
(* EmbedDocsCanonical and EmbedChunksCanonical.                            *)

EmbedPc == {"embedKnowledge", "embedGenerated", "embedOne"}

\* The identifier the chunks of d are filed under.
VectorId(j, d) == IF At(j, "embedKnowledge") THEN FrontId[d] ELSE d

\* Broken variant: the last chunk of several is left out.
LastChunkShort(t) == IF Chunks[t] > 1 THEN Chunks[t] - 1 ELSE 1

\* Broken variant: the loop runs one chunk past the last.
LastChunkLate(t) == Chunks[t] + 1

LastChunk(t) == Chunks[t]

Current(j) == IF job[j].at = None THEN job[j].docs ELSE {job[j].at}

\* A batch (of one chunk) is embedded and written over what the point held.
WriteChunk(j, d) ==
  vector' = [vector EXCEPT ![VectorId(j, d)][job[j].chunk] = job[j].text[d]]

EmbedChunk(j) ==
  /\ job[j].pc \in EmbedPc
  /\ \E d \in Current(j) :
       /\ WriteChunk(j, d)
       /\ job' = [job EXCEPT ![j] =
                    IF job[j].chunk = LastChunk(job[j].text[d])
                    THEN [job[j] EXCEPT !.docs = @ \ {d}, !.at = None, !.chunk = 1]
                    ELSE [job[j] EXCEPT !.at = d, !.chunk = @ + 1]]
       /\ Touch({d})
  /\ UNCHANGED <<structureVars, row>>

\* The embedder or the store fails, possibly after the points were written:
\* every operation returns.
EmbedFails(j) ==
  /\ job[j].pc \in EmbedPc
  /\ \E d \in Current(j) : (WriteChunk(j, d) \/ UNCHANGED vector) /\ Touch({d})
  /\ End(j)
  /\ UNCHANGED <<structureVars, row>>

\* Bootstrap has dropped the vectors of all documents and embedded the flows.
Bootstrapped(j) ==
  IF job[j].alone
  THEN /\ clean' = DocIds
       /\ filed' = [d \in DocIds |-> IF d \in Flows THEN row[d].text ELSE 0]
       /\ behind' = StoredIn(Generated)
  ELSE UNCHANGED historyVars

Embedded(j) ==
  /\ job[j].pc \in EmbedPc /\ job[j].docs = {}
  /\ CASE At(j, "embedOne") -> Goto(j, "insert") /\ UNCHANGED historyVars
       [] At(j, "embedKnowledge") /\ job[j].op = "embedDocs" ->
            Goto(j, "list") /\ UNCHANGED historyVars
       [] At(j, "embedKnowledge") /\ job[j].op = "bootstrap" /\ IndexCode ->
            /\ job' = [job EXCEPT ![j] = [Idle EXCEPT !.op = "bootstrap", !.todo = Cloned,
                                                      !.pc = "embedCode"]]
            /\ Bootstrapped(j)
       [] At(j, "embedGenerated") ->
            /\ End(j)
            /\ Cover(j, IF job[j].op = "daily" THEN {d \in Generated : job[j].text[d] # 0}
                        ELSE DocIds, Texts)
       [] OTHER -> End(j) /\ Bootstrapped(j)
  /\ UNCHANGED <<structureVars, row, vector>>

-----------------------------------------------------------------------------
(* One document, from the dashboard.                                       *)

One(j) == CHOOSE d \in DocIds : job[j].text[d] # 0

\* reindexStoredDoc has loaded the row; deleting its vectors may fail.
Load(j) ==
  /\ At(j, "load")
  /\ \E d \in job[j].docs :
       \/ /\ Stored(d)
          /\ job' = [job EXCEPT ![j] = [job[j] EXCEPT !.pc = "unvector", !.hash = row[d].hash,
                                                      !.text[d] = row[d].text]]
       \/ End(j)
  /\ UNCHANGED <<structureVars, documentVars>>

\* Broken variant: only the first chunk is looked up and deleted.
FirstChunkOnly(d) == [vector[d] EXCEPT ![1] = 0]

Unvectored(d) == NoVectors

Unvector(j) ==
  /\ At(j, "unvector")
  /\ \E d \in job[j].docs, failed \in BOOLEAN :
       /\ vector' = IF failed THEN vector ELSE [vector EXCEPT ![d] = Unvectored(d)]
       /\ job' = [job EXCEPT ![j] =
                    [job[j] EXCEPT !.pc = IF job[j].op = "delete" THEN "remove" ELSE "embedOne",
                                   !.alone = @ /\ ~failed]]
       /\ Touch({d})
  /\ UNCHANGED <<structureVars, row>>

\* InsertDoc: INSERT ... ON DUPLICATE KEY UPDATE with the copy the job holds.
Insert(j) ==
  /\ At(j, "insert")
  /\ LET d == One(j) IN
       \/ /\ row' = [row EXCEPT ![d] = [text |-> job[j].text[d], hash |-> job[j].hash]]
          /\ Cover(j, {d}, job[j].text)
       \/ UNCHANGED <<row, historyVars>>
  /\ End(j)
  /\ UNCHANGED <<structureVars, vector>>

Remove(j) ==
  /\ At(j, "remove")
  /\ \E d \in job[j].docs :
       \/ row' = [row EXCEPT ![d] = NoRow] /\ Cover(j, {d}, [e \in {d} |-> 0])
       \/ UNCHANGED <<row, historyVars>>
  /\ End(j)
  /\ UNCHANGED <<structureVars, vector>>

DocumentStep(j) ==
  \/ Hash(j) \/ Read(j) \/ Store(j) \/ Generation(j) \/ EmbedCode(j) \/ CodeEmbedded(j)
  \/ Drop(j) \/ DropFails(j) \/ List(j) \/ Clear(j) \/ EmbedChunk(j) \/ EmbedFails(j) \/ Embedded(j)
  \/ Load(j) \/ Unvector(j) \/ Insert(j) \/ Remove(j)

=============================================================================
