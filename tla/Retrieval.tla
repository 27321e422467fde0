----------------------------- MODULE Retrieval ------------------------------
(***************************************************************************)
(* Evidence for one question: three searches run at once, five collectors   *)
(* run at once on what they found, and the pool of documents they fill is   *)
(* cut, freed of duplicates, reranked by a service that may fail, thinned   *)
(* out and written into a context of limited size.  Meanwhile a rebuild may *)
(* replace the services that the service search keeps a copy of.            *)
(*                                                                          *)
(* A document is a record: the collector it comes from, its file (or        *)
(* title), the method a code-graph document is about, its layer and         *)
(* service, its recall score, whether that is a fused score, its trust      *)
(* band, how much it says (also its size in the context), and its score in  *)
(* the local ranking.  Scores are percentages.                              *)
(***************************************************************************)
EXTENDS Integers, Sequences, FiniteSets, FiniteSetsExt, SequencesExt, Functions

CONSTANTS
    Documents,          \* what the indexes hold for the question
    Services,           \* the services a search may name
    NoService,          \* of a document whose path belongs to no service
    NoMethod,           \* of a document that is not about one method
    CodeMinScore,       \* PlatformSettings of the same names
    RerankEnabled,
    RerankPool,
    RerankMinScore,
    RerankTopK,
    RerankMaxPerService,
    RerankMaxPerServiceLowBand,
    RemoteScores,       \* the scores a rerank service may give
    EvidenceBudget,
    GeneralSize,        \* size of the list of services and of dependencies
    MaxRebuilds         \* bound: how often the services are replaced

General == {"deps", "services"}
Part(name) == [source |-> name, info |-> GeneralSize]
Searches == {"code", "runbooks", "services"}
Collectors == General \cup {"code", "runbooks", "codegraph"}

ASSUME RetrievalAssumption ==
    /\ IsFiniteSet(Documents)
    /\ \A d \in Documents :
        /\ d.source \in {"code", "runbook", "codegraph"}
        /\ (d.method # NoMethod) <=> (d.source = "codegraph")
        /\ d.service \in Services \cup {NoService}
        /\ d.info \in Nat \ {0} /\ d.score \in 0..100 /\ d.local \in 0..100
        /\ d.band \in 0..4 /\ d.fused \in BOOLEAN
    /\ RerankEnabled \in BOOLEAN
    /\ {CodeMinScore, RerankPool, RerankMinScore, RerankTopK, RerankMaxPerService,
        RerankMaxPerServiceLowBand, MaxRebuilds} \subseteq Nat
    /\ RemoteScores \subseteq 0..100
    /\ {EvidenceBudget, GeneralSize} \subseteq Nat \ {0}

VARIABLES
    stage,          \* where RetrievePlan stands
    running,        \* the searches, then the collectors, that are not done
    codeHits,       \* anchor.codeHits
    runbookHits,    \* anchor.runbooks, of which only those with the text of the
    chunked,        \*   matching chunk become evidence
    services,       \* anchor.services
    pool,           \* the code pool, as the collectors filled it
    cut,            \* the pool cut to size
    kept,           \* the pool without duplicates
    rank,           \* rerankScore of the documents kept
    chosen,         \* the documents to write, in order
    general,        \* the parts that are not evidence
    context,        \* the parts written: which, and whether all of it
    generation,     \* of the services in the structural index
    cached,         \* mergedSvcCache: the generation it holds, 0 for none
    read,           \* what the service search read and has yet to cache, or 0
    replaced,       \* the services were replaced, the cache not yet dropped
    missed          \* a drop of the cache was overtaken, or did not come

cacheVars == <<generation, cached, read, replaced, missed>>
poolVars == <<cut, kept, rank, chosen, context>>
retrievalVars == <<stage, running, codeHits, runbookHits, chunked, services, pool,
                   general, poolVars, cacheVars>>

Stages == {"idle", "discover", "expand", "pool", "rerank", "write", "ready"}

RetrievalTypeOK ==
    /\ stage \in Stages
    /\ running \subseteq Searches \cup Collectors
    /\ codeHits \subseteq Documents /\ runbookHits \subseteq Documents
    /\ chunked \in BOOLEAN
    /\ services \subseteq Services
    /\ pool \subseteq Documents /\ cut \subseteq pool /\ kept \subseteq cut
    /\ DOMAIN rank \subseteq kept /\ \A d \in DOMAIN rank : rank[d] \in 0..100
    /\ ToSet(chosen) \subseteq pool
    /\ general \subseteq General
    /\ \A i \in DOMAIN context : context[i].part \in pool \cup {Part(g) : g \in general}
    /\ generation \in 1..MaxRebuilds + 1
    /\ cached \in 0..generation /\ read \in 0..generation
    /\ replaced \in BOOLEAN /\ missed \in BOOLEAN

RetrievalInit ==
    /\ stage = "idle" /\ running = {}
    /\ codeHits = {} /\ runbookHits = {} /\ chunked = FALSE /\ services = {}
    /\ pool = {} /\ general = {}
    /\ cut = {} /\ kept = {} /\ rank = << >> /\ chosen = << >> /\ context = << >>
    /\ generation = 1 /\ cached = 0 /\ read = 0 /\ replaced = FALSE /\ missed = FALSE

\* RetrievePlan for a plan with internal evidence: the searches are started.
Retrieve ==
    /\ stage = "idle"
    /\ stage' = "discover" /\ running' = Searches
    /\ UNCHANGED <<codeHits, runbookHits, chunked, services, pool, general, poolVars,
                   cacheVars>>

---------------------------------------------------------------------------
(* Discovery *)

Done(s) == s \in running /\ running' = running \ {s}

Of(source) == {d \in Documents : d.source = source}

\* Hits are sorted by score, and the first of a file stands for it.
FindCode ==
    /\ stage = "discover" /\ Done("code")
    /\ \E found \in SUBSET Of("code") :
        /\ \A d, e \in found : d.file = e.file => d = e
        /\ codeHits' = found
        /\ services' = services \cup ({d.service : d \in found} \ {NoService})
    /\ UNCHANGED <<stage, runbookHits, chunked, pool, general, poolVars, cacheVars>>

\* Chunks near the question, one per document and joined with its row; a chunk
\* without a row is passed over.
JoinedRunbooks == SUBSET Of("runbook") \ {{}}

\* Rows whose titles or bodies have the words of the question.
KeywordRunbooks == SUBSET Of("runbook")

\* The semantic search of documents.
FindRunbooks ==
    /\ stage = "discover" /\ Done("runbooks")
    /\ runbookHits' \in JoinedRunbooks
    /\ chunked' = TRUE
    /\ UNCHANGED <<stage, codeHits, services, pool, general, poolVars, cacheVars>>

\* Nothing embedded, found or joined: titles and bodies are searched for
\* keywords, and the hits have no chunk.
FindRunbooksByKeyword ==
    /\ stage = "discover" /\ Done("runbooks")
    /\ runbookHits' \in KeywordRunbooks
    /\ chunked' = FALSE
    /\ UNCHANGED <<stage, codeHits, services, pool, general, poolVars, cacheVars>>

\* The service search finds no copy of the services and reads them.
ReadServices ==
    /\ stage = "discover" /\ "services" \in running
    /\ cached = 0 /\ read = 0
    /\ read' = generation
    /\ UNCHANGED <<stage, running, codeHits, runbookHits, chunked, services, pool, general,
                   poolVars, generation, cached, replaced, missed>>

\* Which services the words of the question name, and which vectors are near.
KeywordMatches == SUBSET Services
SemanticMatches == SUBSET Services

\* A name that is not among the services read any more is passed over.
MergedMatches(words, near) == words \cup near

\* It keeps what it read; what is near is added when it can be searched for.
FindServices ==
    /\ stage = "discover" /\ Done("services")
    /\ read # 0 \/ cached # 0
    /\ cached' = IF read # 0 THEN read ELSE cached
    /\ read' = 0
    /\ \E words \in KeywordMatches, near \in SemanticMatches :
          services' = services \cup MergedMatches(words, near)
    /\ UNCHANGED <<stage, codeHits, runbookHits, chunked, pool, general, poolVars,
                   generation, replaced, missed>>

\* A search that fails leaves its part of the anchor empty.
SearchFails ==
    /\ stage = "discover"
    /\ \E s \in running : Done(s) /\ (s = "services" => read = 0)
    /\ UNCHANGED <<stage, codeHits, runbookHits, chunked, services, pool, general, poolVars,
                   cacheVars>>

\* The collectors are started, the code graph's for a question with symbols.
StartCollectors ==
    /\ stage = "discover" /\ running = {}
    /\ stage' = "expand"
    /\ running' \in {Collectors, Collectors \ {"codegraph"}}
    /\ UNCHANGED <<codeHits, runbookHits, chunked, services, pool, general, poolVars,
                   cacheVars>>

---------------------------------------------------------------------------
(* Expansion *)

Collected(name, docs) ==
    /\ stage = "expand" /\ Done(name)
    /\ pool' = pool \cup docs
    /\ UNCHANGED <<stage, codeHits, runbookHits, chunked, services, general, poolVars,
                   cacheVars>>

\* A dense hit has to reach the floor; a fused score is not comparable with it.
CollectCode ==
    Collected("code", {d \in codeHits : d.fused \/ d.score >= CodeMinScore})

\* The chunks of one document are merged; a hit without a chunk is passed over.
CollectRunbooks == Collected("runbooks", IF chunked THEN runbookHits ELSE {})

\* Symbols whose source can be read; none when the query fails.
CollectCodeGraph == \E found \in SUBSET Of("codegraph") : Collected("codegraph", found)

Formatted(name, worded) ==
    /\ stage = "expand" /\ Done(name)
    /\ general' = IF worded THEN general \cup {name} ELSE general
    /\ UNCHANGED <<stage, codeHits, runbookHits, chunked, services, pool, poolVars, cacheVars>>

CollectServices == Formatted("services", services # {})

\* The dependencies of the first service that has any.
CollectDeps == \E edges \in BOOLEAN : Formatted("deps", edges /\ services # {})

---------------------------------------------------------------------------
(* The pool *)

\* The first n documents by recall; any of those that tie at the edge.
TopByRecall(docs, n) ==
    IF n = 0 \/ Cardinality(docs) <= n
    THEN {docs}
    ELSE {top \in kSubset(n, docs) : \A d \in top, e \in docs \ top : d.score >= e.score}

\* A document is looked up by its file and, when it has one, by its method.
Keys(d) == {<<d.file>>} \cup (IF d.method = NoMethod THEN {} ELSE {<<d.file, d.method>>})

\* Documents come by falling recall, and a later one has to say more.
Winners(docs, key) ==
    LET same == {d \in docs : key \in Keys(d)}
    IN {d \in same : \A e \in same : d.info > e.info \/ (d.info = e.info /\ d.score >= e.score)}

\* Broken variant: one document per file, whatever its source; the first wins.
FirstOfEachFile(docs) ==
    {out \in SUBSET docs :
        /\ \A d \in docs : Cardinality({e \in out : e.file = d.file}) = 1
        /\ \A d \in out, e \in docs : d.file = e.file => d.score >= e.score}

\* One winner per key; the winners are read in any order and the one that says
\* most, the first of those, is kept of each source and file.
Distinct(docs) ==
    LET keys == UNION {Keys(d) : d \in docs}
        Same(d, won) == {e \in won : e.source = d.source /\ e.file = d.file}
        Most(out, won) == \A d \in out : \A e \in Same(d, won) : d.info >= e.info
    IN {out \in SUBSET docs :
          \E winner \in [keys -> docs] :
            LET won == Range(winner) IN
            /\ \A k \in keys : winner[k] \in Winners(docs, k)
            /\ out \subseteq won /\ Most(out, won)
            /\ \A d \in won : Cardinality(Same(d, out)) = 1}

Deduplicate ==
    /\ stage = "expand" /\ running = {}
    /\ pool # {} /\ RerankEnabled
    /\ cut' \in TopByRecall(pool, RerankPool)
    /\ kept' \in Distinct(cut')
    /\ stage' = "rerank"
    /\ UNCHANGED <<running, codeHits, runbookHits, chunked, services, pool, general, rank,
                   chosen, context, cacheVars>>

\* Nothing was found, or reranking is switched off: the pool is used as it is.
UseAsIs ==
    /\ stage = "expand" /\ running = {}
    /\ pool = {} \/ ~RerankEnabled
    /\ chosen' \in SetToSeqs(pool)
    /\ stage' = "write"
    /\ UNCHANGED <<running, codeHits, runbookHits, chunked, services, pool, general, cut, kept,
                   rank, context, cacheVars>>

---------------------------------------------------------------------------
(* Ranking *)

Largest(f) == Max(Range(f) \cup {0})

\* Each value as a percentage of the largest one.
Normalized(f) ==
    [d \in DOMAIN f |-> IF Largest(f) = 0 THEN 0 ELSE (100 * f[d]) \div Largest(f)]

RecallScores == [d \in kept |-> d.score]

\* The remote scores, normalised, weigh 70 and recall 30.
Rerank ==
    /\ stage = "rerank"
    /\ \E scores \in [kept -> RemoteScores] :
        rank' = [d \in kept |->
                   (70 * Normalized(scores)[d] + 30 * Normalized(RecallScores)[d]) \div 100]
    /\ stage' = "pool"
    /\ UNCHANGED <<running, codeHits, runbookHits, chunked, services, pool, general, cut, kept,
                   chosen, context, cacheVars>>

\* No service is configured, recall is too weak to ask it, or it fails.
RerankLocally ==
    /\ stage = "rerank"
    /\ rank' = Normalized([d \in kept |-> d.local])
    /\ stage' = "pool"
    /\ UNCHANGED <<running, codeHits, runbookHits, chunked, services, pool, general, cut, kept,
                   chosen, context, cacheVars>>

\* The documents at or above the threshold, by rank and trust, ties by recall;
\* when there is none, those before it, by recall.
Ordered ==
    LET above == {d \in kept : rank[d] >= RerankMinScore}
        Score(d) == rank[d] + 4 * d.band
        Before(d, e) == \/ above # {} /\ Score(d) > Score(e)
                        \/ (above # {} => Score(d) = Score(e)) /\ d.score >= e.score
    IN {s \in SetToSeqs(IF above = {} THEN kept ELSE above) :
          \A i, j \in DOMAIN s : i < j => Before(s[i], s[j])}

LowBand(d) == d.band <= 2

\* One document of the order: taken unless enough of its layer and service are.
Admit(taken, d) ==
    LET group == {i \in DOMAIN taken : taken[i].layer = d.layer /\ taken[i].service = d.service}
        cap == IF d.service = NoService \/ RerankMaxPerService = 0
               THEN RerankTopK ELSE RerankMaxPerService
    IN IF \/ Len(taken) >= RerankTopK
          \/ Cardinality(group) >= cap
          \/ /\ RerankMaxPerServiceLowBand > 0 /\ LowBand(d)
             /\ Cardinality({i \in group : LowBand(taken[i])}) >= RerankMaxPerServiceLowBand
       THEN taken
       ELSE Append(taken, d)

SelectDiverse(order) ==
    IF RerankTopK = 0 THEN order ELSE FoldLeft(Admit, << >>, order)

Choose ==
    /\ stage = "pool"
    /\ \E order \in Ordered : chosen' = SelectDiverse(order)
    /\ stage' = "write"
    /\ UNCHANGED <<running, codeHits, runbookHits, chunked, services, pool, general, cut, kept,
                   rank, context, cacheVars>>

---------------------------------------------------------------------------
(* The context *)

\* One part: it is cut when it does not fit, and nothing follows it then; a
\* newline follows one that fits when there is room.
Put(written, part) ==
    LET left == written.budget - part.info
    IN IF written.budget = 0
       THEN written
       ELSE [budget |-> IF left > 0 THEN left - 1 ELSE 0,
             text |-> Append(written.text, [part |-> part, whole |-> left >= 0])]

Section(name) == IF name \in general THEN <<Part(name)>> ELSE << >>

Sections == Section("deps") \o Section("services")

\* Broken variant: the parts are written in the order they were collected in.
InArrival == Sections \o chosen

InPriority == chosen \o Sections

Write ==
    /\ stage = "write"
    /\ context' = FoldLeft(Put, [budget |-> EvidenceBudget, text |-> << >>], InPriority).text
    /\ stage' = "ready"
    /\ UNCHANGED <<running, codeHits, runbookHits, chunked, services, pool, general, cut, kept,
                   rank, chosen, cacheVars>>

---------------------------------------------------------------------------
(* The copy of the services *)

\* A rebuild replaces the structural index ...
ReplaceServices ==
    /\ ~replaced /\ generation <= MaxRebuilds
    /\ generation' = generation + 1
    /\ replaced' = TRUE
    /\ UNCHANGED <<stage, running, codeHits, runbookHits, chunked, services, pool, general,
                   poolVars, cached, read, missed>>

\* Broken variant: the rebuild does not drop the copy.
KeepServices ==
    /\ replaced
    /\ replaced' = FALSE
    /\ UNCHANGED <<stage, running, codeHits, runbookHits, chunked, services, pool, general,
                   poolVars, generation, cached, read, missed>>

\* ... and then drops the copy, which a search that has read the old services
\* will still put back.
InvalidateServices ==
    /\ replaced
    /\ cached' = 0 /\ replaced' = FALSE
    /\ missed' = (missed \/ read \notin {0, generation})
    /\ UNCHANGED <<stage, running, codeHits, runbookHits, chunked, services, pool, general,
                   poolVars, generation, read>>

\* The dependencies cannot be read back: the copy is not dropped.
ReloadFails ==
    /\ replaced
    /\ replaced' = FALSE /\ missed' = TRUE
    /\ UNCHANGED <<stage, running, codeHits, runbookHits, chunked, services, pool, general,
                   poolVars, generation, cached, read>>

RetrievalNext ==
    \/ Retrieve \/ FindCode \/ FindRunbooks \/ FindRunbooksByKeyword
    \/ ReadServices \/ FindServices \/ SearchFails
    \/ StartCollectors \/ CollectCode \/ CollectRunbooks \/ CollectCodeGraph
    \/ CollectServices \/ CollectDeps
    \/ Deduplicate \/ UseAsIs \/ Rerank \/ RerankLocally \/ Choose \/ Write
    \/ ReplaceServices \/ InvalidateServices \/ ReloadFails

\* One retrieval by itself.
RetrievalSpec == RetrievalInit /\ [][RetrievalNext]_retrievalVars

---------------------------------------------------------------------------
(* Whatever fails, a question for which anything was found is answered with *)
(* evidence: the context starts with a document, and what is not evidence   *)
(* is written only when every chosen document was written whole.            *)
EvidenceSurvives ==
    stage = "ready" =>
        /\ pool # {} => context # << >> /\ Head(context).part \in pool
        /\ (\E i \in DOMAIN context : context[i].part.source \in General) =>
               \A d \in ToSet(chosen) : [part |-> d, whole |-> TRUE] \in ToSet(context)

\* One document of each source and file is left, and no file lost the document
\* that says most about it, in whatever order duplicates were looked at.
BestOfEachFile ==
    /\ \A d, e \in kept : d.source = e.source /\ d.file = e.file => d = e
    /\ kept # {} => \A d \in cut : \E e \in kept : e.file = d.file /\ e.info >= d.info

\* A copy of services that are no longer indexed is about to be dropped, unless
\* a search put it back after it was dropped or the drop did not come.
CopyIsCurrent == missed \/ replaced \/ cached \in {0, generation}
=============================================================================
