----------------------------- MODULE CodeIndex -----------------------------
(***************************************************************************)
(* The sparse half of code search: the BM25 vocabulary that numbers the    *)
(* tokens of the code, and the vectors whose coordinates are those         *)
(* numbers.                                                                *)
(*                                                                         *)
(* Three copies of the numbering must agree: the vocabulary file, the      *)
(* builder that searches use (svc.bm25), and the coordinates of the        *)
(* vectors in the semantic store.  An indexing operation, EmbedCodeChunks  *)
(* for the workspace or EmbedRepoCode for one repository, changes all      *)
(* three, one after the other, and may stop in between: an error of the    *)
(* disk, the embedder or the store, a cancelled request, the end of the    *)
(* process.  indexMu admits one operation at a time.                       *)
(*                                                                         *)
(* A chunk of code stands for its text's point in the store and for the    *)
(* batch it is embedded in; a text is the set of its tokens, empty for a   *)
(* file that is not indexed sparsely.  Weights are left out.               *)
(***************************************************************************)
EXTENDS Integers, FiniteSets, Functions

CONSTANTS
    Chunks,     \* code chunks (point ids)
    RepoOf,     \* the repository of each chunk
    Tokens,     \* tokens of the tokenizer
    Texts,      \* the texts a chunk may have, as sets of tokens
    Faults      \* the failures that may happen

Repos     == {RepoOf[c] : c \in Chunks}
Workspace == "workspace"
FaultKinds == {"save", "embed", "upsert", "short", "delete",
               "cancel"}

ASSUME IndexAssumption ==
    /\ IsFiniteSet(Tokens)
    /\ Texts \subseteq SUBSET Tokens
    /\ DOMAIN RepoOf = Chunks
    /\ Workspace \notin Repos
    /\ Faults \subseteq FaultKinds

VARIABLES
    format,     \* the vocabulary file: "missing", "legacy" or "v2"
    saved,      \* the vocabulary in it, if "v2"
    published,  \* svc.bm25 is not nil
    vocab,      \* the vocabulary of svc.bm25
    migrate,    \* svc.bm25MigrationRequired
    origin,     \* what last wrote the vector of a chunk, or "absent"
    coords,     \* its coordinates
    written,    \* the text it was computed from
    step,       \* where the operation is, "idle" when there is none
    scope,      \* its repository, or Workspace
    keep,       \* its preserveVocab
    builder,    \* its builder
    docs,       \* its docs
    text,       \* and their texts
    todo,       \* docs whose batch is still to come
    current,    \* vectors that bear the operation's generation
    stored,     \* docs counted as done by embedBatch
    leftOut,    \* docs for which the embedder's answer had no vector
    reported,   \* embedBatch has recorded an error
    cancelled,  \* the operation's context is done
    settled,    \* history: vectors written by an operation that succeeded
    torn        \* history: an operation stopped by an error left vectors

fileVars  == <<format, saved>>
liveVars  == <<published, vocab, migrate>>
pointVars == <<origin, coords, written>>
opVars    == <<scope, keep, builder, docs, text, todo, current, stored,
               leftOut, reported, cancelled>>
pastVars  == <<settled, torn>>
vars == <<fileVars, liveVars, pointVars, step, opVars, pastVars>>

-----------------------------------------------------------------------------
(* BM25Builder *)

NoId == -1      \* a token that is not in the map

NewBM25Builder == [id |-> [t \in Tokens |-> NoId], next |-> 0]

Known(b) == {t \in Tokens : b.id[t] # NoId}

\* Broken variant: the copy of the vocabulary forgets the next id.
CloneWithoutNext(b) == [id |-> b.id, next |-> 0]

\* Clone copies the map and the next id.
Clone(b) == b

\* AddDoc over all documents: each new token takes the next id, in the order
\* in which the scan meets them.
AddDocs(b, tokens) ==
    LET new == tokens \ Known(b)
        n   == Cardinality(new)
    IN  {[id   |-> [t \in Tokens |-> IF t \in new THEN b.next + rank[t]
                                                  ELSE b.id[t]],
          next |-> b.next + n] : rank \in Injection(new, 0 .. (n - 1))}

\* BuildSparse: the coordinates of a text.
BuildSparse(b, tokens) == {b.id[t] : t \in tokens \cap Known(b)}

-----------------------------------------------------------------------------
(* The store before the first start of this version *)

LegacyCoords == {0}     \* whatever the old numbering made of them

Init ==
    /\ format \in {"missing", "legacy"}
    /\ saved = NewBM25Builder
    /\ published = FALSE /\ vocab = NewBM25Builder
    /\ migrate = (format = "legacy")
    /\ origin \in [Chunks -> IF format = "legacy" THEN {"absent", "legacy"}
                                                  ELSE {"absent"}]
    /\ coords = [c \in Chunks |-> LegacyCoords]
    /\ written = [c \in Chunks |-> {}]
    /\ step = "idle" /\ scope = Workspace /\ keep = FALSE
    /\ builder = NewBM25Builder
    /\ docs = {} /\ text = [c \in Chunks |-> {}] /\ todo = {}
    /\ current = {} /\ stored = {} /\ leftOut = {}
    /\ reported = FALSE /\ cancelled = FALSE
    /\ settled = {} /\ torn = FALSE

-----------------------------------------------------------------------------
(* One indexing operation *)

InScope(c) == scope = Workspace \/ RepoOf[c] = scope

\* The operation returns and its locals are gone.
Return ==
    /\ step' = "idle" /\ scope' = Workspace /\ keep' = FALSE
    /\ builder' = NewBM25Builder
    /\ docs' = {} /\ text' = [c \in Chunks |-> {}] /\ todo' = {}
    /\ current' = {} /\ stored' = {} /\ leftOut' = {}
    /\ reported' = FALSE /\ cancelled' = FALSE

\* It returns an error; what it wrote to the store stays there.
ReturnError ==
    /\ Return
    /\ torn' = (torn \/ current # {})
    /\ UNCHANGED <<fileVars, liveVars, settled>>

\* The scan finds some of the chunks in scope, with the text they have now.
Scan(found, base) ==
    /\ docs' = found /\ todo' = found
    /\ text' \in {x \in [Chunks -> Texts \cup {{}}] :
                    /\ \A c \in found : x[c] \in Texts
                    /\ \A c \in Chunks \ found : x[c] = {}}
    /\ builder' \in AddDocs(base, UNION {text'[c] : c \in found})
    /\ current' = {} /\ stored' = {} /\ leftOut' = {}
    /\ reported' = FALSE /\ cancelled' = FALSE
    /\ UNCHANGED <<fileVars, liveVars, pointVars, pastVars>>

\* Broken variant: the refusal is missing.
EmbedRepoCodeUnmigrated(repo) ==
    /\ step = "idle"
    /\ step' = "save" /\ scope' = repo /\ keep' = TRUE
    /\ \E found \in SUBSET {c \in Chunks : RepoOf[c] = repo} :
         Scan(found, IF published THEN Clone(vocab) ELSE NewBM25Builder)

\* Broken variant: the vocabulary is saved after the vectors.
EmbedRepoCodeSavesLate(repo) ==
    /\ step = "idle"
    /\ ~migrate
    /\ step' = "embed" /\ scope' = repo /\ keep' = FALSE
    /\ \E found \in SUBSET {c \in Chunks : RepoOf[c] = repo} :
         Scan(found, IF published THEN Clone(vocab) ELSE NewBM25Builder)

\* EmbedRepoCode, refused until a legacy vocabulary has been migrated.
EmbedRepoCode(repo) ==
    /\ step = "idle"
    /\ ~migrate
    /\ step' = "save" /\ scope' = repo /\ keep' = TRUE
    /\ \E found \in SUBSET {c \in Chunks : RepoOf[c] = repo} :
         Scan(found, IF published THEN Clone(vocab) ELSE NewBM25Builder)

\* Broken variant: the numbering is renewed although there is one to keep.
EmbedCodeChunksAnew ==
    /\ step = "idle"
    /\ scope' = Workspace
    /\ keep' = (published /\ ~migrate)
    /\ step' = IF keep' THEN "save" ELSE "embed"
    /\ \E found \in SUBSET Chunks : Scan(found, NewBM25Builder)

\* EmbedCodeChunks, which starts a new numbering unless there is one to keep.
EmbedCodeChunks ==
    /\ step = "idle"
    /\ scope' = Workspace
    /\ keep' = (published /\ ~migrate)
    /\ step' = IF keep' THEN "save" ELSE "embed"
    /\ \E found \in SUBSET Chunks :
         Scan(found, IF keep' THEN Clone(vocab) ELSE NewBM25Builder)

\* SaveVocab, by rename: before the vectors when the numbering is kept, after
\* them when it is new.
SaveVocab ==
    /\ step \in {"save", "save late"}
    /\ format' = "v2" /\ saved' = builder
    /\ step' = CASE step = "save late" -> "publish"
                 [] step = "save" /\ docs = {} -> "delete"
                 [] OTHER -> "embed"
    /\ UNCHANGED <<liveVars, pointVars, opVars, pastVars>>

SaveFails ==
    /\ step \in {"save", "save late"}
    /\ "save" \in Faults
    /\ ReturnError /\ UNCHANGED pointVars

Writer == IF scope = Workspace THEN "workspace" ELSE "repository"

\* The store applies the upsert of a batch.
Write(c) ==
    /\ origin' = [origin EXCEPT ![c] = Writer]
    /\ coords' = [coords EXCEPT ![c] = BuildSparse(builder, text[c])]
    /\ written' = [written EXCEPT ![c] = text[c]]
    /\ current' = current \cup {c}
    /\ settled' = settled \ {c}

BatchVars == <<fileVars, liveVars, step, scope, keep, builder, docs, text,
               cancelled, torn>>

\* A batch is embedded and stored.
EmbedBatch(c) ==
    /\ step = "embed" /\ c \in todo
    /\ Write(c)
    /\ todo' = todo \ {c} /\ stored' = stored \cup {c}
    /\ UNCHANGED <<BatchVars, leftOut, reported>>

\* A batch fails at the embedder or at the store, or because the context is
\* done; one that is not started any more records no error.
BatchFails(c) ==
    /\ step = "embed" /\ c \in todo
    /\ cancelled \/ "embed" \in Faults \/ "upsert" \in Faults
    /\ todo' = todo \ {c}
    /\ \/ reported' = TRUE
       \/ cancelled /\ UNCHANGED reported
    /\ UNCHANGED <<BatchVars, pointVars, current, stored, leftOut, settled>>

\* The store applies the upsert and the caller is told of an error.
BatchUncertain(c) ==
    /\ step = "embed" /\ c \in todo
    /\ cancelled \/ "upsert" \in Faults
    /\ Write(c)
    /\ todo' = todo \ {c} /\ reported' = TRUE
    /\ UNCHANGED <<BatchVars, stored, leftOut>>

\* The embedder answers with fewer vectors than it was sent texts, which no
\* one checks: the rest of the documents is dropped without an error.
BatchShort(c) ==
    /\ step = "embed" /\ c \in todo
    /\ "short" \in Faults
    /\ todo' = todo \ {c} /\ leftOut' = leftOut \cup {c}
    /\ UNCHANGED <<BatchVars, pointVars, current, stored, reported, settled>>

\* embedBatch returns an error only if there was one and nothing was stored.
EmbedReturns ==
    /\ step = "embed" /\ todo = {}
    /\ \/ /\ stored = {} /\ reported
          /\ ReturnError /\ UNCHANGED pointVars
       \/ /\ ~(stored = {} /\ reported)
          /\ step' = "delete"
          /\ UNCHANGED <<fileVars, liveVars, pointVars, opVars, pastVars>>

\* The vectors in scope that do not bear the operation's generation go.
RemoveStale ==
    LET stale == {c \in Chunks : InScope(c) /\ c \notin current}
    IN  /\ origin' = [c \in Chunks |-> IF c \in stale THEN "absent"
                                                      ELSE origin[c]]
        /\ UNCHANGED <<coords, written>>

\* Broken variant: the store ignores the context.
DeleteStaleAnyway ==
    /\ step = "delete"
    /\ RemoveStale
    /\ step' = IF keep THEN "publish" ELSE "save late"
    /\ UNCHANGED <<fileVars, liveVars, opVars, pastVars>>

\* Semantic.Delete, which fails once the context is done.
DeleteStale ==
    /\ step = "delete"
    /\ ~cancelled
    /\ RemoveStale
    /\ step' = IF keep THEN "publish" ELSE "save late"
    /\ UNCHANGED <<fileVars, liveVars, opVars, pastVars>>

\* It reports an error, and may have been applied all the same.
DeleteFails ==
    /\ step = "delete"
    /\ cancelled \/ "delete" \in Faults
    /\ RemoveStale \/ UNCHANGED pointVars
    /\ ReturnError

\* setBM25: searches use the operation's builder from now on.
SetBM25 ==
    /\ step = "publish"
    /\ published' = TRUE /\ vocab' = builder
    /\ migrate' = (migrate /\ scope # Workspace)
    /\ settled' = settled \cup current
    /\ Return
    /\ UNCHANGED <<fileVars, pointVars, torn>>

-----------------------------------------------------------------------------
(* The environment *)

\* The client of APIEmbedRepo leaves, or the operation's deadline passes.
Cancel ==
    /\ "cancel" \in Faults
    /\ step # "idle" /\ ~cancelled
    /\ cancelled' = TRUE
    /\ UNCHANGED <<fileVars, liveVars, pointVars, step, scope, keep, builder,
                   docs, text, todo, current, stored, leftOut, reported,
                   pastVars>>

\* Broken variant: the next process does not read the file.
RestartForgetful ==
    /\ Return
    /\ published' = FALSE
    /\ vocab' = NewBM25Builder
    /\ migrate' = (format = "legacy")
    /\ UNCHANGED <<fileVars, pointVars, pastVars>>

\* The process ends and loadBM25 runs in the next one.
Restart ==
    /\ Return
    /\ published' = (format = "v2")
    /\ vocab' = IF format = "v2" THEN saved ELSE NewBM25Builder
    /\ migrate' = (format = "legacy")
    /\ UNCHANGED <<fileVars, pointVars, pastVars>>

Next ==
    \/ \E repo \in Repos : EmbedRepoCode(repo)
    \/ EmbedCodeChunks
    \/ SaveVocab \/ SaveFails
    \/ \E c \in Chunks :
         EmbedBatch(c) \/ BatchFails(c) \/ BatchUncertain(c) \/ BatchShort(c)
    \/ EmbedReturns
    \/ DeleteStale \/ DeleteFails
    \/ SetBM25
    \/ Cancel
    \/ Restart

Spec == Init /\ [][Next]_vars

-----------------------------------------------------------------------------
(* Properties *)

Vocabularies == [id : [Tokens -> Nat \cup {NoId}], next : Nat]

\* Numbers are below the next one, and no two tokens share a number.
OneToOne(b) ==
    /\ \A t \in Known(b) : b.id[t] < b.next
    /\ \A t, u \in Known(b) : b.id[t] = b.id[u] => t = u

Steps == {"idle", "save", "embed", "delete", "save late", "publish"}
Origins == {"absent", "legacy", "workspace", "repository"}

\* Every variable has its type, and in each of the three vocabularies no two
\* tokens share a number.
TypeOK ==
    /\ format \in {"missing", "legacy", "v2"}
    /\ saved \in Vocabularies /\ OneToOne(saved)
    /\ published \in BOOLEAN /\ migrate \in BOOLEAN
    /\ vocab \in Vocabularies /\ OneToOne(vocab)
    /\ origin \in [Chunks -> Origins]
    /\ coords \in [Chunks -> SUBSET Nat]
    /\ written \in [Chunks -> SUBSET Tokens]
    /\ step \in Steps /\ scope \in Repos \cup {Workspace} /\ keep \in BOOLEAN
    /\ builder \in Vocabularies /\ OneToOne(builder)
    /\ docs \subseteq Chunks /\ text \in [Chunks -> SUBSET Tokens]
    /\ todo \subseteq docs /\ current \subseteq docs
    /\ stored \subseteq current /\ leftOut \subseteq docs
    /\ reported \in BOOLEAN /\ cancelled \in BOOLEAN
    /\ settled \subseteq Chunks /\ torn \in BOOLEAN

\* b2 numbers every token of b1 as b1 does.
Extends(b2, b1) == \A t \in Known(b1) : b2.id[t] = b1.id[t]

\* The numbering searches use only ever grows: a token keeps its number
\* through operations that fail, crashes and restarts ("existing token IDs
\* remain stable").
IdsAreStable == [][Extends(vocab', vocab)]_vars

\* The vector of chunk c means in b what its text said.
Faithful(c, b) ==
    /\ written[c] \subseteq Known(b)
    /\ coords[c] = BuildSparse(b, written[c])

\* A vector of an operation that succeeded matches exactly the queries its
\* text does, under the vocabulary in use now and under the one a restart
\* would load, whatever failed since.
SettledVectorsMatch ==
    \A c \in settled : origin[c] # "absent" =>
        Faithful(c, vocab) /\ Faithful(c, saved)

\* Once a file of this version exists no vector of the old numbering is left
\* to be matched against the new one: the migration removes them before it
\* saves, and a repository cannot be embedded before it.
NoLegacyVectors ==
    format = "v2" => \A c \in Chunks : origin[c] # "legacy"

\* An operation that gets as far as success has stored every document the
\* embedder answered, or reported an error.  Batches that are not started
\* because the context is done record none: they rely on the call after
\* embedBatch to fail.
SkipsAreReported ==
    /\ step \in {"save late", "publish"}
    /\ docs \ (stored \cup leftOut) # {}
    => reported

RepoVectors == {c \in Chunks : origin[c] = "repository"}

\* As long as no operation was stopped by an error after it had written, every
\* vector a repository embedding wrote can be read with the vocabulary a
\* restart would load, wherever the process died.
UntornVectorsReadBack ==
    ~torn => \A c \in RepoVectors : Faithful(c, saved)

\* "A failed upsert can leave unused IDs, but can never leave vectors with
\* coordinates unknown on restart" (the comment on SaveVocab in
\* EmbedRepoCode).  It can: the operation that is stopped leaves svc.bm25
\* behind the file, and the next one starts from svc.bm25 and replaces it.
KnownOnRestart ==
    \A c \in RepoVectors : coords[c] \subseteq {saved.id[t] : t \in Known(saved)}
=============================================================================
