-------------------------- MODULE CodeIndexProofs --------------------------
(***************************************************************************)
(* Proofs about the code index for any chunks, repositories, tokens and    *)
(* texts, and any combination of failures.                                 *)
(*                                                                         *)
(* The argument rests on two facts about vocabularies: adding documents    *)
(* only extends a vocabulary (AddDocsExtends), and a vector that reads     *)
(* right in a vocabulary reads right in every extension of it              *)
(* (FaithfulExtends).  The invariants then say which of the three copies   *)
(* extends which at each step of an operation:                             *)
(*   Numbering   the file and the builder extend what is published;        *)
(*   Batches     what the operation has written reads right in its builder;*)
(*   Retired     where vectors of the old numbering may still be;          *)
(*   Counted     what embedBatch knows of the documents it did not store;  *)
(*   Readable    what repository embeddings wrote reads right in what is   *)
(*               published, except for the operation under way.            *)
(***************************************************************************)
EXTENDS CodeIndex, FiniteSetTheorems, TLAPS

-----------------------------------------------------------------------------
(* Vocabularies *)

LEMMA NewBuilderOK ==
    /\ NewBM25Builder \in Vocabularies
    /\ OneToOne(NewBM25Builder)
    /\ Known(NewBM25Builder) = {}
  BY DEF NewBM25Builder, Vocabularies, OneToOne, Known, NoId

\* Adding documents keeps a vocabulary one-to-one, numbers the new tokens, and
\* leaves the numbers it had.
LEMMA AddDocsExtends ==
    ASSUME NEW b \in Vocabularies, OneToOne(b),
           NEW tokens \in SUBSET Tokens, NEW b2 \in AddDocs(b, tokens)
    PROVE  /\ b2 \in Vocabularies
           /\ OneToOne(b2)
           /\ Extends(b2, b)
           /\ tokens \subseteq Known(b2)
<1> DEFINE new == tokens \ Known(b)
           n == Cardinality(new)
<1>1. n \in Nat
  <2>1. IsFiniteSet(new)
    BY IndexAssumption, FS_Subset
  <2> QED
    BY <2>1, FS_CardinalityType
<1>2. PICK rank \in Injection(new, 0 .. (n - 1)) :
        b2 = [id   |-> [t \in Tokens |-> IF t \in new THEN b.next + rank[t]
                                                      ELSE b.id[t]],
              next |-> b.next + n]
  BY DEF AddDocs
<1>3. /\ b.next \in Nat
      /\ \A t \in Tokens : b.id[t] \in Nat \cup {NoId}
  BY DEF Vocabularies
<1> HIDE DEF n
<1>4. /\ rank \in [new -> 0 .. (n - 1)]
      /\ \A t, u \in new : rank[t] = rank[u] => t = u
  BY <1>2 DEF Injection, IsInjective
<1>5. \A t \in new : rank[t] \in Nat /\ rank[t] < n
  BY <1>1, <1>4
<1>6. /\ b2.next = b.next + n
      /\ \A t \in new : b2.id[t] = b.next + rank[t]
      /\ \A t \in Tokens \ new : b2.id[t] = b.id[t]
  BY <1>2
<1> HIDE DEF new
<1>7. new \cap Known(b) = {} /\ new \subseteq Tokens /\ tokens \subseteq new \cup Known(b)
  BY DEF new
<1>8. b2 \in Vocabularies
  <2>1. \A t \in Tokens : (IF t \in new THEN b.next + rank[t] ELSE b.id[t])
                            \in Nat \cup {NoId}
    BY <1>3, <1>5
  <2>2. b.next + n \in Nat
    BY <1>1, <1>3
  <2> QED
    BY <1>2, <2>1, <2>2 DEF Vocabularies
<1>9. Known(b2) = new \cup Known(b)
  BY <1>3, <1>5, <1>6, <1>7 DEF Known, NoId
<1>10. OneToOne(b2)
  <2>1. \A t \in Known(b) : b2.id[t] = b.id[t] /\ b.id[t] \in Nat /\ b.id[t] < b.next
    BY <1>3, <1>6, <1>7 DEF Known, OneToOne, NoId
  <2>2. \A t \in new : b2.id[t] \in Nat /\ b.next <= b2.id[t] /\ b2.id[t] < b2.next
    BY <1>1, <1>3, <1>5, <1>6
  <2>3. \A t \in Known(b) : b2.id[t] < b2.next
    BY <1>1, <1>3, <1>6, <2>1
  <2>4. \A t, u \in new : b2.id[t] = b2.id[u] => t = u
    BY <1>3, <1>4, <1>5, <1>6
  <2>5. \A t, u \in Known(b) : b2.id[t] = b2.id[u] => t = u
    BY <2>1 DEF OneToOne
  <2>6. \A t \in Known(b), u \in new : b2.id[t] # b2.id[u]
    BY <1>3, <2>1, <2>2
  <2> QED
    BY <1>9, <2>2, <2>3, <2>4, <2>5, <2>6 DEF OneToOne
<1> QED
  BY <1>6, <1>7, <1>8, <1>9, <1>10 DEF Extends, Known

LEMMA ExtendsTransitive ==
    ASSUME NEW a \in Vocabularies, NEW b \in Vocabularies,
           NEW c \in Vocabularies, Extends(b, a), Extends(c, b)
    PROVE  Extends(c, a)
  BY DEF Extends, Known

\* A vector keeps its meaning in every extension of a vocabulary.
LEMMA FaithfulExtends ==
    ASSUME NEW c, NEW a, NEW b, Faithful(c, a), Extends(b, a)
    PROVE  Faithful(c, b)
<1>1. written[c] \subseteq Known(a) /\ coords[c] = {a.id[t] : t \in written[c]}
  BY DEF Faithful, BuildSparse
<1>2. \A t \in written[c] : b.id[t] = a.id[t] /\ t \in Known(b)
  BY <1>1 DEF Extends, Known
<1>3. {b.id[t] : t \in written[c] \cap Known(b)} = {a.id[t] : t \in written[c]}
  BY <1>2
<1> QED
  BY <1>1, <1>2, <1>3 DEF Faithful, BuildSparse

-----------------------------------------------------------------------------
(* Types *)

LEMMA InitTypeOK == Init => TypeOK
<1> SUFFICES ASSUME Init PROVE TypeOK
  OBVIOUS
<1>1. origin \in [Chunks -> Origins]
  BY DEF Init, Origins
<1>2. coords \in [Chunks -> SUBSET Nat]
  BY DEF Init, LegacyCoords
<1> QED
  BY <1>1, <1>2, NewBuilderOK DEF Init, TypeOK, Steps

\* The operation's variables once it has returned.
LEMMA ReturnType ==
    ASSUME Return
    PROVE  /\ step' \in Steps /\ scope' \in Repos \cup {Workspace}
           /\ keep' \in BOOLEAN
           /\ builder' \in Vocabularies /\ OneToOne(builder')
           /\ docs' \subseteq Chunks /\ text' \in [Chunks -> SUBSET Tokens]
           /\ todo' \subseteq docs' /\ current' \subseteq docs'
           /\ stored' \subseteq current' /\ leftOut' \subseteq docs'
           /\ reported' \in BOOLEAN /\ cancelled' \in BOOLEAN
  BY NewBuilderOK DEF Return, Steps

\* What a scan leaves to the operation that made it.
LEMMA ScanFacts ==
    ASSUME NEW base \in Vocabularies, OneToOne(base),
           NEW found \in SUBSET Chunks, Scan(found, base)
    PROVE  /\ docs' = found /\ todo' = found
           /\ text' \in [Chunks -> SUBSET Tokens]
           /\ builder' \in Vocabularies /\ OneToOne(builder')
           /\ Extends(builder', base)
           /\ \A c \in found : text'[c] \subseteq Known(builder')
<1>1. /\ docs' = found /\ todo' = found
      /\ text' \in [Chunks -> Texts \cup {{}}]
      /\ builder' \in AddDocs(base, UNION {text'[c] : c \in found})
  BY DEF Scan
<1>2. text' \in [Chunks -> SUBSET Tokens]
  BY <1>1, IndexAssumption
<1>3. UNION {text'[c] : c \in found} \in SUBSET Tokens
  BY <1>2
<1>4. /\ builder' \in Vocabularies /\ OneToOne(builder')
      /\ Extends(builder', base)
      /\ UNION {text'[c] : c \in found} \subseteq Known(builder')
  BY <1>1, <1>3, AddDocsExtends
<1> QED
  BY <1>1, <1>2, <1>4

\* The coordinates of a text are numbers.
LEMMA BuildSparseType ==
    ASSUME NEW b \in Vocabularies, NEW tokens
    PROVE  BuildSparse(b, tokens) \in SUBSET Nat
  BY DEF BuildSparse, Known, Vocabularies

\* What an applied upsert leaves in the store.
LEMMA WriteFacts ==
    ASSUME TypeOK, NEW c \in docs, Write(c)
    PROVE  /\ origin' \in [Chunks -> Origins]
           /\ coords' \in [Chunks -> SUBSET Nat]
           /\ written' \in [Chunks -> SUBSET Tokens]
           /\ origin'[c] = Writer /\ Writer \in {"workspace", "repository"}
           /\ coords'[c] = BuildSparse(builder, text[c])
           /\ written'[c] = text[c]
           /\ \A d \in Chunks \ {c} : /\ origin'[d] = origin[d]
                                     /\ coords'[d] = coords[d]
                                     /\ written'[d] = written[d]
<1>1. c \in Chunks /\ text[c] \in SUBSET Tokens
  BY DEF TypeOK
<1>2. BuildSparse(builder, text[c]) \in SUBSET Nat
  BY BuildSparseType DEF TypeOK
<1>3. Writer \in {"workspace", "repository"}
  BY DEF Writer
<1>4. origin \in [Chunks -> Origins] /\ coords \in [Chunks -> SUBSET Nat]
      /\ written \in [Chunks -> SUBSET Tokens]
  BY DEF TypeOK
<1>5. /\ origin' = [origin EXCEPT ![c] = Writer]
      /\ coords' = [coords EXCEPT ![c] = BuildSparse(builder, text[c])]
      /\ written' = [written EXCEPT ![c] = text[c]]
  BY DEF Write
<1>6. origin' \in [Chunks -> Origins] /\ origin'[c] = Writer
      /\ \A d \in Chunks \ {c} : origin'[d] = origin[d]
  BY <1>1, <1>3, <1>4, <1>5 DEF Origins
<1>7. coords' \in [Chunks -> SUBSET Nat]
      /\ coords'[c] = BuildSparse(builder, text[c])
      /\ \A d \in Chunks \ {c} : coords'[d] = coords[d]
  BY <1>1, <1>2, <1>4, <1>5
<1>8. written' \in [Chunks -> SUBSET Tokens] /\ written'[c] = text[c]
      /\ \A d \in Chunks \ {c} : written'[d] = written[d]
  BY <1>1, <1>4, <1>5
<1> QED
  BY <1>3, <1>6, <1>7, <1>8

\* What the removal of stale vectors leaves in the store.
LEMMA RemoveFacts ==
    ASSUME TypeOK, RemoveStale
    PROVE  /\ origin' \in [Chunks -> Origins]
           /\ \A c \in Chunks : origin'[c] \in {origin[c], "absent"}
           /\ \A c \in Chunks : InScope(c) /\ c \notin current =>
                                    origin'[c] = "absent"
           /\ coords' = coords /\ written' = written
  BY DEF RemoveStale, TypeOK, Origins

LEMMA NextTypeOK == TypeOK /\ [Next]_vars => TypeOK'
<1> SUFFICES ASSUME TypeOK, [Next]_vars PROVE TypeOK'
  OBVIOUS
<1> DEFINE Base == IF published THEN Clone(vocab) ELSE NewBM25Builder
           Kept == IF keep' THEN Clone(vocab) ELSE NewBM25Builder
<1>1. Base \in Vocabularies /\ OneToOne(Base)
  BY NewBuilderOK DEF TypeOK, Clone
<1>2. Kept \in Vocabularies /\ OneToOne(Kept)
  BY NewBuilderOK DEF TypeOK, Clone
<1> HIDE DEF Base, Kept
<1>3. ASSUME NEW repo \in Repos, EmbedRepoCode(repo) PROVE TypeOK'
  <2>1. PICK found \in SUBSET {c \in Chunks : RepoOf[c] = repo} : Scan(found, Base)
    BY <1>3 DEF EmbedRepoCode, Base
  <2>2. found \in SUBSET Chunks
    OBVIOUS
  <2>3. /\ docs' = found /\ todo' = found
        /\ text' \in [Chunks -> SUBSET Tokens]
        /\ builder' \in Vocabularies /\ OneToOne(builder')
    BY <1>1, <2>1, <2>2, ScanFacts
  <2> QED
    BY <1>3, <2>1, <2>2, <2>3
       DEF TypeOK, EmbedRepoCode, Scan, Steps, fileVars, liveVars, pointVars, pastVars
<1>4. CASE EmbedCodeChunks
  <2>1. PICK found \in SUBSET Chunks : Scan(found, Kept)
    BY <1>4 DEF EmbedCodeChunks, Kept
  <2>2. /\ docs' = found /\ todo' = found
        /\ text' \in [Chunks -> SUBSET Tokens]
        /\ builder' \in Vocabularies /\ OneToOne(builder')
    BY <1>2, <2>1, ScanFacts
  <2> QED
    BY <1>4, <2>1, <2>2
       DEF TypeOK, EmbedCodeChunks, Scan, Steps, fileVars, liveVars, pointVars, pastVars
<1>5. CASE SaveVocab
  BY <1>5 DEF TypeOK, SaveVocab, Steps, liveVars, pointVars, opVars, pastVars
<1>6. ASSUME ReturnError, UNCHANGED pointVars PROVE TypeOK'
  BY <1>6, ReturnType DEF TypeOK, ReturnError, fileVars, liveVars, pointVars
<1>7. CASE SaveFails
  BY <1>6, <1>7 DEF SaveFails
<1>8. ASSUME NEW c \in Chunks, EmbedBatch(c) PROVE TypeOK'
  <2>1. c \in docs /\ Write(c)
    BY <1>8 DEF EmbedBatch, TypeOK
  <2>2. /\ origin' \in [Chunks -> Origins]
        /\ coords' \in [Chunks -> SUBSET Nat]
        /\ written' \in [Chunks -> SUBSET Tokens]
    BY <2>1, WriteFacts
  <2>3. /\ current' = current \cup {c} /\ settled' = settled \ {c}
    BY <2>1 DEF Write
  <2> QED
    BY <1>8, <2>1, <2>2, <2>3 DEF TypeOK, EmbedBatch, BatchVars, fileVars, liveVars
<1>9. ASSUME NEW c \in Chunks, BatchFails(c) PROVE TypeOK'
  BY <1>9 DEF TypeOK, BatchFails, BatchVars, fileVars, liveVars, pointVars
<1>10. ASSUME NEW c \in Chunks, BatchUncertain(c) PROVE TypeOK'
  <2>1. c \in docs /\ Write(c)
    BY <1>10 DEF BatchUncertain, TypeOK
  <2>2. /\ origin' \in [Chunks -> Origins]
        /\ coords' \in [Chunks -> SUBSET Nat]
        /\ written' \in [Chunks -> SUBSET Tokens]
    BY <2>1, WriteFacts
  <2>3. /\ current' = current \cup {c} /\ settled' = settled \ {c}
    BY <2>1 DEF Write
  <2> QED
    BY <1>10, <2>1, <2>2, <2>3 DEF TypeOK, BatchUncertain, BatchVars, fileVars, liveVars
<1>11. ASSUME NEW c \in Chunks, BatchShort(c) PROVE TypeOK'
  BY <1>11 DEF TypeOK, BatchShort, BatchVars, fileVars, liveVars, pointVars
<1>12. CASE EmbedReturns
  <2>1. CASE ReturnError /\ UNCHANGED pointVars
    BY <1>6, <2>1
  <2>2. CASE step' = "delete" /\ UNCHANGED <<fileVars, liveVars, pointVars, opVars, pastVars>>
    BY <2>2 DEF TypeOK, Steps, fileVars, liveVars, pointVars, opVars, pastVars
  <2> QED
    BY <1>12, <2>1, <2>2 DEF EmbedReturns
<1>13. CASE DeleteStale
  <2>1. RemoveStale
    BY <1>13 DEF DeleteStale
  <2> QED
    BY <1>13, <2>1, RemoveFacts
       DEF TypeOK, DeleteStale, Steps, fileVars, liveVars, opVars, pastVars
<1>14. CASE DeleteFails
  <2>1. CASE UNCHANGED pointVars
    BY <1>6, <1>14, <2>1 DEF DeleteFails
  <2>2. CASE RemoveStale
    BY <1>14, <2>2, RemoveFacts, ReturnType
       DEF TypeOK, DeleteFails, ReturnError, fileVars, liveVars
  <2> QED
    BY <1>14, <2>1, <2>2 DEF DeleteFails
<1>15. CASE SetBM25
  <2>1. current \subseteq Chunks
    BY DEF TypeOK
  <2> QED
    BY <1>15, <2>1, ReturnType DEF TypeOK, SetBM25, fileVars, pointVars
<1>16. CASE Cancel
  BY <1>16 DEF TypeOK, Cancel, fileVars, liveVars, pointVars, pastVars
<1>17. CASE Restart
  BY <1>17, ReturnType, NewBuilderOK DEF TypeOK, Restart, fileVars, pointVars, pastVars
<1>18. CASE UNCHANGED vars
  BY <1>18 DEF TypeOK, vars, fileVars, liveVars, pointVars, opVars, pastVars
<1> QED
  BY <1>3, <1>4, <1>5, <1>7, <1>8, <1>9, <1>10, <1>11, <1>12, <1>13, <1>14,
     <1>15, <1>16, <1>17, <1>18 DEF Next

\* Every reachable state is well typed, and the vocabulary of the file, of the
\* searches and of the operation each give two tokens two numbers.
THEOREM TypeCorrect == Spec => []TypeOK
  BY InitTypeOK, NextTypeOK, PTL DEF Spec

-----------------------------------------------------------------------------
(* The three copies of the numbering *)

\* What is published is in the file, and the builder of an operation and the
\* file extend it; the file holds the builder from the moment it is saved.
Numbering ==
    /\ published => format = "v2"
    /\ ~published => Known(vocab) = {}
    /\ migrate => ~published
    /\ migrate /\ step # "idle" => scope = Workspace
    /\ Extends(saved, vocab)
    /\ step # "idle" => Extends(builder, vocab)
    /\ step = "publish" \/ (keep /\ step \in {"embed", "delete"}) =>
         saved = builder /\ format = "v2"

\* Neither the vocabularies nor the course of the operation change.
Quiet == UNCHANGED <<format, saved, published, vocab, migrate, step, scope,
                     keep, builder, docs, text, torn>>

\* The steps inside embedBatch, a cancellation and a stutter are of this kind.
LEMMA QuietSteps ==
    ASSUME (\/ \E c \in Chunks : \/ EmbedBatch(c) \/ BatchFails(c)
                                 \/ BatchUncertain(c) \/ BatchShort(c)
            \/ Cancel \/ UNCHANGED vars)
    PROVE  Quiet
  BY DEF Quiet, EmbedBatch, BatchFails, BatchUncertain, BatchShort, Cancel,
         BatchVars, vars, fileVars, liveVars, opVars, pastVars

\* What is published stays published with the same number for each token, as
\* long as the new vocabulary is one of those that extend it.
LEMMA NothingKnown ==
    ASSUME NEW a, NEW b, Known(a) = {}
    PROVE  Extends(b, a)
  BY DEF Extends

LEMMA InitNumbering == Init => Numbering
  BY NewBuilderOK, NothingKnown DEF Init, Numbering

LEMMA NextNumbering == TypeOK /\ Numbering /\ [Next]_vars => Numbering'
<1> SUFFICES ASSUME TypeOK, Numbering, [Next]_vars PROVE Numbering'
  OBVIOUS
<1>1. CASE Quiet
  BY <1>1 DEF Numbering, Quiet
<1>2. ASSUME NEW repo \in Repos, EmbedRepoCode(repo) PROVE Numbering'
  <2> DEFINE Base == IF published THEN Clone(vocab) ELSE NewBM25Builder
  <2>1. PICK found \in SUBSET {c \in Chunks : RepoOf[c] = repo} : Scan(found, Base)
    BY <1>2 DEF EmbedRepoCode
  <2>2. Base \in Vocabularies /\ OneToOne(Base) /\ found \in SUBSET Chunks
    BY NewBuilderOK DEF TypeOK, Clone
  <2>3. Extends(Base, vocab)
    BY NothingKnown DEF Numbering, Clone, Extends
  <2> HIDE DEF Base
  <2>4. builder' \in Vocabularies /\ Extends(builder', Base)
    BY <2>1, <2>2, ScanFacts
  <2>5. Extends(builder', vocab)
    BY <2>2, <2>3, <2>4, ExtendsTransitive DEF TypeOK
  <2>6. UNCHANGED <<format, saved, published, vocab, migrate>>
    BY <2>1 DEF Scan, fileVars, liveVars
  <2>7. step' = "save" /\ ~migrate
    BY <1>2 DEF EmbedRepoCode
  <2> QED
    BY <2>5, <2>6, <2>7 DEF Numbering
<1>3. CASE EmbedCodeChunks
  <2> DEFINE Base == IF keep' THEN Clone(vocab) ELSE NewBM25Builder
  <2>1. PICK found \in SUBSET Chunks : Scan(found, Base)
    BY <1>3 DEF EmbedCodeChunks
  <2>2. Base \in Vocabularies /\ OneToOne(Base)
    BY NewBuilderOK DEF TypeOK, Clone
  <2>3. Extends(Base, vocab)
    BY <1>3, NothingKnown DEF EmbedCodeChunks, Numbering, Clone, Extends
  <2> HIDE DEF Base
  <2>4. builder' \in Vocabularies /\ Extends(builder', Base)
    BY <2>1, <2>2, ScanFacts
  <2>5. Extends(builder', vocab)
    BY <2>2, <2>3, <2>4, ExtendsTransitive DEF TypeOK
  <2>6. UNCHANGED <<format, saved, published, vocab, migrate>>
    BY <2>1 DEF Scan, fileVars, liveVars
  <2>7. scope' = Workspace /\ step' = IF keep' THEN "save" ELSE "embed"
    BY <1>3 DEF EmbedCodeChunks
  <2> QED
    BY <2>5, <2>6, <2>7 DEF Numbering
<1>4. CASE SaveVocab
  BY <1>4 DEF SaveVocab, Numbering, liveVars, opVars
<1>5. CASE ReturnError
  BY <1>5 DEF ReturnError, Return, Numbering, fileVars, liveVars
<1>6. CASE EmbedReturns
  BY <1>5, <1>6 DEF EmbedReturns, Numbering, fileVars, liveVars, opVars
<1>7. CASE DeleteStale
  BY <1>7 DEF DeleteStale, Numbering, fileVars, liveVars, opVars
<1>8. CASE SetBM25
  BY <1>8 DEF SetBM25, Return, Numbering, fileVars, Extends
<1>9. CASE Restart
  BY <1>9, NothingKnown, NewBuilderOK DEF Restart, Return, Numbering, fileVars, Extends
<1> QED
  BY <1>1, <1>2, <1>3, <1>4, <1>5, <1>6, <1>7, <1>8, <1>9, QuietSteps
     DEF Next, SaveFails, DeleteFails

THEOREM NumberingInvariant == Spec => [](TypeOK /\ Numbering)
  BY InitTypeOK, NextTypeOK, InitNumbering, NextNumbering, PTL DEF Spec

\* In every step the published vocabulary is extended.
LEMMA VocabGrows ==
    ASSUME TypeOK, Numbering, [Next]_vars
    PROVE  Extends(vocab', vocab)
<1>1. CASE UNCHANGED vocab
  BY <1>1 DEF Extends
<1>2. CASE SetBM25
  BY <1>2 DEF SetBM25, Numbering
<1>3. CASE Restart
  BY <1>3, NothingKnown DEF Restart, Numbering
<1>4. CASE UNCHANGED liveVars
  BY <1>1, <1>4 DEF liveVars
<1>5. CASE Quiet
  BY <1>1, <1>5 DEF Quiet
<1>6. \/ UNCHANGED liveVars \/ Quiet \/ SetBM25 \/ Restart
  BY QuietSteps DEF Next, EmbedRepoCode, EmbedCodeChunks, Scan, SaveVocab,
     SaveFails, EmbedReturns, DeleteStale, DeleteFails, ReturnError
<1> QED
  BY <1>2, <1>3, <1>4, <1>5, <1>6

\* The number of a token in the vocabulary searches use never changes, through
\* failed operations, crashes and restarts.
THEOREM IdsNeverChange == Spec => IdsAreStable
<1>1. TypeOK /\ Numbering /\ [Next]_vars => [Extends(vocab', vocab)]_vars
  BY VocabGrows
<1> QED
  BY <1>1, NumberingInvariant, PTL DEF Spec, IdsAreStable

-----------------------------------------------------------------------------
(* What the operation has written *)

\* The operation's texts and the vectors it has stored read right in its
\* builder; only a workspace operation may start a new numbering.
Batches ==
    step # "idle" =>
        /\ \A c \in docs : text[c] \subseteq Known(builder)
        /\ \A c \in current : Faithful(c, builder) /\ origin[c] = Writer
        /\ step = "save" => current = {} /\ todo = docs
        /\ step \in {"delete", "save late", "publish"} => todo = {}
        /\ step \in {"save", "save late"} => (keep <=> step = "save")
        /\ ~keep => scope = Workspace

\* A vector that is not written keeps its meaning.
LEMMA FaithfulFrame ==
    ASSUME NEW c, NEW b, Faithful(c, b),
           written'[c] = written[c], coords'[c] = coords[c]
    PROVE  written'[c] \subseteq Known(b) /\ coords'[c] = BuildSparse(b, written'[c])
  BY DEF Faithful

\* What a scan leaves satisfies Batches.
LEMMA ScanBatches ==
    ASSUME TypeOK, NEW base \in Vocabularies, OneToOne(base),
           NEW found \in SUBSET Chunks, Scan(found, base),
           step' = "save" <=> keep', step' \in {"save", "embed"},
           ~keep' => scope' = Workspace
    PROVE  Batches'
<1>1. /\ docs' = found /\ todo' = found
      /\ \A c \in found : text'[c] \subseteq Known(builder')
  BY ScanFacts
<1>2. current' = {}
  BY DEF Scan
<1> QED
  BY <1>1, <1>2 DEF Batches

\* An applied upsert reads right in the builder.
LEMMA WriteBatches ==
    ASSUME TypeOK, Batches, step = "embed", NEW c \in todo, Write(c), Quiet,
           todo' = todo \ {c}
    PROVE  Batches'
<1>1. c \in docs /\ text[c] \subseteq Known(builder)
  BY DEF TypeOK, Batches
<1>2. /\ origin'[c] = Writer
      /\ coords'[c] = BuildSparse(builder, text[c])
      /\ written'[c] = text[c]
      /\ \A d \in Chunks \ {c} : /\ origin'[d] = origin[d]
                                /\ coords'[d] = coords[d]
                                /\ written'[d] = written[d]
  BY <1>1, WriteFacts
<1>3. UNCHANGED <<step, scope, keep, builder, docs, text>>
  BY DEF Quiet
<1>4. Writer' = Writer
  BY <1>3 DEF Writer
<1>5. current' = current \cup {c}
  BY DEF Write
<1>6. ASSUME NEW d \in current'
      PROVE  Faithful(d, builder)' /\ origin'[d] = Writer
  <2>1. CASE d = c
    BY <1>1, <1>2, <1>3, <2>1 DEF Faithful
  <2>2. CASE d # c
    <3>1. d \in current /\ d \in Chunks \ {c}
      BY <1>5, <2>2 DEF TypeOK
    <3>2. Faithful(d, builder) /\ origin[d] = Writer
      BY <3>1 DEF Batches
    <3> QED
      BY <1>2, <1>3, <3>1, <3>2 DEF Faithful
  <2> QED
    BY <2>1, <2>2
<1> QED
  BY <1>3, <1>4, <1>6 DEF Batches

LEMMA NextBatches ==
    TypeOK /\ Numbering /\ Batches /\ [Next]_vars => Batches'
<1> SUFFICES ASSUME TypeOK, Numbering, Batches, [Next]_vars PROVE Batches'
  OBVIOUS
<1>1. ASSUME UNCHANGED <<pointVars, step, scope, keep, builder, docs, text, todo, current>>
      PROVE  Batches'
  BY <1>1 DEF Batches, Faithful, Writer, pointVars
<1>2. CASE Cancel \/ UNCHANGED vars
  BY <1>1, <1>2 DEF Cancel, vars, opVars
<1>3. ASSUME NEW repo \in Repos, EmbedRepoCode(repo) PROVE Batches'
  <2> DEFINE Base == IF published THEN Clone(vocab) ELSE NewBM25Builder
  <2>1. PICK found \in SUBSET {c \in Chunks : RepoOf[c] = repo} : Scan(found, Base)
    BY <1>3 DEF EmbedRepoCode
  <2>2. Base \in Vocabularies /\ OneToOne(Base) /\ found \in SUBSET Chunks
    BY NewBuilderOK DEF TypeOK, Clone
  <2>3. step' = "save" /\ keep'
    BY <1>3 DEF EmbedRepoCode
  <2> HIDE DEF Base
  <2> QED
    BY <2>1, <2>2, <2>3, ScanBatches
<1>4. CASE EmbedCodeChunks
  <2> DEFINE Base == IF keep' THEN Clone(vocab) ELSE NewBM25Builder
  <2>1. PICK found \in SUBSET Chunks : Scan(found, Base)
    BY <1>4 DEF EmbedCodeChunks
  <2>2. Base \in Vocabularies /\ OneToOne(Base)
    BY NewBuilderOK DEF TypeOK, Clone
  <2>3. scope' = Workspace /\ step' = IF keep' THEN "save" ELSE "embed"
    BY <1>4 DEF EmbedCodeChunks
  <2> HIDE DEF Base
  <2> QED
    BY <2>1, <2>2, <2>3, ScanBatches
<1>5. CASE SaveVocab
  <2>1. UNCHANGED <<pointVars, opVars>>
    BY <1>5 DEF SaveVocab
  <2>2. step' \in {"publish", "delete", "embed"}
        /\ (step' # "embed" => todo = {})
    BY <1>5 DEF SaveVocab, Batches
  <2>3. UNCHANGED <<origin, coords, written, scope, keep, builder, docs, text,
                    todo, current>>
    BY <2>1 DEF pointVars, opVars
  <2>4. step # "idle"
    BY <1>5 DEF SaveVocab
  <2>5. ASSUME NEW c \in current PROVE Faithful(c, builder)' /\ origin'[c] = Writer'
    BY <2>3, <2>4 DEF Batches, Faithful, Writer
  <2> QED
    BY <2>2, <2>3, <2>4, <2>5 DEF Batches
<1>6. CASE Return
  BY <1>6 DEF Return, Batches
<1>7. ASSUME NEW c \in Chunks, EmbedBatch(c) PROVE Batches'
  BY <1>7, WriteBatches, QuietSteps DEF EmbedBatch
<1>8. ASSUME NEW c \in Chunks, BatchUncertain(c) PROVE Batches'
  BY <1>8, WriteBatches, QuietSteps DEF BatchUncertain
<1>9. ASSUME NEW c \in Chunks, BatchFails(c) \/ BatchShort(c) PROVE Batches'
  <2>1. Quiet
    BY <1>9, QuietSteps
  <2>2. UNCHANGED <<pointVars, current>> /\ step = "embed"
    BY <1>9 DEF BatchFails, BatchShort
  <2> QED
    BY <2>1, <2>2 DEF Quiet, Batches, Faithful, Writer, pointVars
<1>10. CASE EmbedReturns
  <2>1. CASE ReturnError
    BY <1>6, <2>1 DEF ReturnError
  <2>2. CASE step' = "delete" /\ UNCHANGED <<fileVars, liveVars, pointVars, opVars, pastVars>>
    BY <1>10, <2>2 DEF EmbedReturns, Batches, Faithful, Writer, pointVars, opVars
  <2> QED
    BY <1>10, <2>1, <2>2 DEF EmbedReturns
<1>11. CASE DeleteStale
  <2>1. /\ RemoveStale /\ UNCHANGED opVars /\ step = "delete"
        /\ step' = IF keep THEN "publish" ELSE "save late"
    BY <1>11 DEF DeleteStale
  <2>2. UNCHANGED <<scope, keep, builder, docs, text, todo, current>>
    BY <2>1 DEF opVars
  <2>3. ASSUME NEW c \in current PROVE origin'[c] = origin[c]
    BY <2>1 DEF RemoveStale, TypeOK
  <2>4. coords' = coords /\ written' = written
    BY <2>1, RemoveFacts
  <2> QED
    BY <2>1, <2>2, <2>3, <2>4 DEF Batches, Faithful, Writer
<1> QED
  BY <1>2, <1>3, <1>4, <1>5, <1>6, <1>7, <1>8, <1>9, <1>10, <1>11
     DEF Next, SaveFails, DeleteFails, ReturnError, SetBM25, Restart

THEOREM BatchesInvariant == Spec => [](TypeOK /\ Numbering /\ Batches)
<1>1. Init => Batches
  BY DEF Init, Batches
<1> QED
  BY <1>1, NumberingInvariant, NextBatches, PTL DEF Spec

-----------------------------------------------------------------------------
(* Vectors of operations that succeeded *)

\* They read right in the published vocabulary.
Settled == \A c \in settled : origin[c] # "absent" => Faithful(c, vocab)

\* A vector that is settled after a step was settled before and is as it was
\* or gone, or has just been settled by the operation that wrote it.
LEMMA SettledStep ==
    ASSUME TypeOK, [Next]_vars, NEW c \in settled', origin'[c] # "absent"
    PROVE  /\ coords'[c] = coords[c] /\ written'[c] = written[c]
           /\ \/ c \in settled /\ origin[c] # "absent"
              \/ SetBM25 /\ c \in current
<1>0. settled \subseteq Chunks /\ current \subseteq Chunks /\ todo \subseteq Chunks
  BY DEF TypeOK
<1>1. CASE UNCHANGED <<pointVars, settled>>
  BY <1>1 DEF pointVars
<1>2. CASE RemoveStale /\ UNCHANGED settled
  BY <1>0, <1>2, RemoveFacts
<1>3. ASSUME NEW d \in todo, Write(d)
      PROVE  /\ coords'[c] = coords[c] /\ written'[c] = written[c]
             /\ c \in settled /\ origin[c] # "absent"
  <2>1. c \in settled /\ c # d /\ c \in Chunks \ {d} /\ d \in docs
    BY <1>0, <1>3 DEF Write, TypeOK
  <2> QED
    BY <1>3, <2>1, WriteFacts
<1>4. CASE \E d \in Chunks : EmbedBatch(d) \/ BatchUncertain(d)
  BY <1>3, <1>4 DEF EmbedBatch, BatchUncertain
<1>5. CASE SetBM25
  BY <1>5 DEF SetBM25, pointVars
<1>6. \/ UNCHANGED <<pointVars, settled>>
      \/ RemoveStale /\ UNCHANGED settled
      \/ \E d \in Chunks : EmbedBatch(d) \/ BatchUncertain(d)
      \/ SetBM25
  BY DEF Next, EmbedRepoCode, EmbedCodeChunks, Scan, SaveVocab, SaveFails,
     BatchFails, BatchShort, EmbedReturns, DeleteStale, DeleteFails,
     ReturnError, Cancel, Restart, vars, pointVars, pastVars
<1> QED
  BY <1>1, <1>2, <1>4, <1>5, <1>6

LEMMA NextSettled ==
    TypeOK /\ Numbering /\ Batches /\ Settled /\ [Next]_vars => Settled'
<1> SUFFICES ASSUME TypeOK, Numbering, Batches, Settled, [Next]_vars,
                    NEW c \in settled', origin'[c] # "absent"
             PROVE  Faithful(c, vocab)'
  BY DEF Settled
<1>1. Extends(vocab', vocab)
  BY VocabGrows
<1>2. coords'[c] = coords[c] /\ written'[c] = written[c]
  BY SettledStep
<1>3. Faithful(c, vocab')
  <2>1. CASE c \in settled /\ origin[c] # "absent"
    BY <1>1, <2>1, FaithfulExtends DEF Settled
  <2>2. CASE SetBM25 /\ c \in current
    BY <2>2 DEF SetBM25, Batches
  <2> QED
    BY <2>1, <2>2, SettledStep
<1> QED
  BY <1>2, <1>3 DEF Faithful

\* A search, and a search after a restart, match a vector of an operation that
\* succeeded exactly on the tokens of its text, whatever has failed since.
THEOREM SettledMatch == Spec => []SettledVectorsMatch
<1>1. Init => Settled
  BY DEF Init, Settled
<1>2. TypeOK /\ Numbering /\ Settled => SettledVectorsMatch
  BY FaithfulExtends DEF Numbering, Settled, SettledVectorsMatch
<1> QED
  BY <1>1, <1>2, BatchesInvariant, NextSettled, PTL DEF Spec

-----------------------------------------------------------------------------
(* Vectors of the old numbering *)

NoneLegacy == \A c \in Chunks : origin[c] # "legacy"

\* They are there only while the legacy file and the refusal are, and are gone
\* before the migration saves its file.
Retired ==
    /\ format # "legacy" \/ ~migrate => NoneLegacy
    /\ step = "save" => ~migrate
    /\ step = "save late" => NoneLegacy

\* No step writes a vector of the old numbering.
LEMMA NoneLegacyStays ==
    ASSUME TypeOK, NoneLegacy, [Next]_vars
    PROVE  NoneLegacy'
<1>1. CASE UNCHANGED pointVars
  BY <1>1 DEF NoneLegacy, pointVars
<1>2. CASE RemoveStale
  BY <1>2, RemoveFacts DEF NoneLegacy
<1>3. CASE \E c \in docs : Write(c)
  BY <1>3, WriteFacts DEF NoneLegacy
<1>4. UNCHANGED pointVars \/ RemoveStale \/ \E c \in docs : Write(c)
  <2>1. todo \subseteq docs
    BY DEF TypeOK
  <2>2. ASSUME NEW c \in Chunks, EmbedBatch(c) \/ BatchUncertain(c)
        PROVE  \E d \in docs : Write(d)
    BY <2>1, <2>2 DEF EmbedBatch, BatchUncertain
  <2>3. ASSUME NEW c \in Chunks, BatchFails(c) \/ BatchShort(c)
        PROVE  UNCHANGED pointVars
    BY <2>3 DEF BatchFails, BatchShort
  <2>4. CASE UNCHANGED vars
    BY <2>4 DEF vars
  <2> QED
    BY <2>2, <2>3, <2>4
       DEF Next, EmbedRepoCode, EmbedCodeChunks, Scan, SaveVocab, SaveFails,
           EmbedReturns, DeleteStale, DeleteFails, SetBM25, Cancel, Restart
<1> QED
  BY <1>1, <1>2, <1>3, <1>4

LEMMA NextRetired ==
    TypeOK /\ Numbering /\ Batches /\ Retired /\ [Next]_vars => Retired'
<1> SUFFICES ASSUME TypeOK, Numbering, Batches, Retired, [Next]_vars
             PROVE  Retired'
  OBVIOUS
<1> USE NoneLegacyStays
<1>1. CASE Quiet
  BY <1>1 DEF Quiet, Retired
<1>2. CASE (\E repo \in Repos : EmbedRepoCode(repo)) \/ EmbedCodeChunks
  <2>1. /\ UNCHANGED <<fileVars, liveVars>>
        /\ step' = "save" => ~migrate
        /\ step' # "save late"
    BY <1>2 DEF EmbedRepoCode, EmbedCodeChunks, Scan
  <2> QED
    BY <2>1 DEF Retired, fileVars, liveVars
<1>3. CASE SaveVocab
  BY <1>3 DEF SaveVocab, Retired, liveVars
<1>4. CASE ReturnError
  BY <1>4 DEF ReturnError, Return, Retired, fileVars, liveVars
<1>5. CASE EmbedReturns
  BY <1>4, <1>5 DEF EmbedReturns, Retired, fileVars, liveVars
<1>6. CASE DeleteStale
  <2>1. /\ step = "delete" /\ RemoveStale /\ UNCHANGED <<fileVars, liveVars>>
        /\ step' = IF keep THEN "publish" ELSE "save late"
    BY <1>6 DEF DeleteStale
  <2>2. ASSUME ~keep, NEW c \in Chunks PROVE origin'[c] # "legacy"
    <3>1. InScope(c)
      BY <2>1, <2>2 DEF Batches, InScope
    <3>2. CASE c \in current
      <4>1. origin[c] # "legacy"
        BY <2>1, <3>2 DEF Batches, Writer
      <4> QED
        BY <2>1, <4>1, RemoveFacts
    <3>3. CASE c \notin current
      BY <2>1, <3>1, <3>3, RemoveFacts
    <3> QED
      BY <3>2, <3>3
  <2> QED
    BY <2>1, <2>2 DEF Retired, NoneLegacy, fileVars, liveVars
<1>7. CASE SetBM25
  BY <1>7 DEF SetBM25, Return, Retired, Numbering, fileVars
<1>8. CASE Restart
  BY <1>8 DEF Restart, Return, Retired, fileVars
<1> QED
  BY <1>1, <1>2, <1>3, <1>4, <1>5, <1>6, <1>7, <1>8, QuietSteps
     DEF Next, SaveFails, DeleteFails

\* No vector of the old numbering is left once a file of this version exists.
THEOREM LegacyIsRetired == Spec => []NoLegacyVectors
<1>1. Init => Retired
  BY DEF Init, Retired, NoneLegacy
<1>2. Retired => NoLegacyVectors
  BY DEF Retired, NoneLegacy, NoLegacyVectors
<1> QED
  BY <1>1, <1>2, BatchesInvariant, NextRetired, PTL DEF Spec

-----------------------------------------------------------------------------
(* Documents that were not stored *)

Unaccounted == docs \ (todo \cup stored \cup leftOut)

\* While the vectors are written a document is unaccounted for only with an
\* error or a context that is done; the removal of the old ones tells them
\* apart.
Counted ==
    /\ step \in {"embed", "delete"} /\ Unaccounted # {} => reported \/ cancelled
    /\ SkipsAreReported

LEMMA NextCounted == TypeOK /\ Batches /\ Counted /\ [Next]_vars => Counted'
<1> SUFFICES ASSUME TypeOK, Batches, Counted, [Next]_vars PROVE Counted'
  OBVIOUS
<1> USE DEF Unaccounted
<1>1. CASE UNCHANGED vars
  BY <1>1 DEF vars, opVars, Counted, SkipsAreReported
<1>2. ASSUME NEW found, NEW base, Scan(found, base), step' \in {"save", "embed"}
      PROVE  Counted'
  BY <1>2 DEF Scan, Counted, SkipsAreReported
<1>3. CASE (\E repo \in Repos : EmbedRepoCode(repo)) \/ EmbedCodeChunks
  BY <1>2, <1>3 DEF EmbedRepoCode, EmbedCodeChunks
<1>4. CASE SaveVocab
  BY <1>4 DEF SaveVocab, Batches, Counted, SkipsAreReported, opVars
<1>5. CASE Return
  BY <1>5 DEF Return, Counted, SkipsAreReported
<1>6. ASSUME NEW c \in Chunks,
             EmbedBatch(c) \/ BatchFails(c) \/ BatchUncertain(c) \/ BatchShort(c)
      PROVE  Counted'
  <2>1. UNCHANGED <<step, docs, cancelled>> /\ step = "embed" /\ todo' = todo \ {c}
    BY <1>6 DEF EmbedBatch, BatchFails, BatchUncertain, BatchShort, BatchVars
  <2>2. CASE EmbedBatch(c) \/ BatchShort(c)
    <3>1. UNCHANGED reported /\ Unaccounted' \subseteq Unaccounted
      BY <2>1, <2>2 DEF EmbedBatch, BatchShort
    <3> QED
      BY <2>1, <3>1 DEF Counted, SkipsAreReported
  <2>3. CASE BatchFails(c) \/ BatchUncertain(c)
    BY <2>1, <2>3 DEF BatchFails, BatchUncertain, Counted, SkipsAreReported
  <2> QED
    BY <1>6, <2>2, <2>3
<1>7. CASE EmbedReturns
  BY <1>5, <1>7 DEF EmbedReturns, ReturnError, opVars, Counted, SkipsAreReported
<1>8. CASE DeleteStale
  <2>1. /\ step = "delete" /\ ~cancelled /\ todo = {}
        /\ UNCHANGED <<docs, todo, stored, leftOut, reported, cancelled>>
        /\ step' \in {"publish", "save late"}
    BY <1>8 DEF DeleteStale, opVars, Batches
  <2> QED
    BY <2>1 DEF Counted, SkipsAreReported
<1>9. CASE Cancel
  BY <1>9 DEF Cancel, Counted, SkipsAreReported
<1> QED
  BY <1>1, <1>3, <1>4, <1>5, <1>6, <1>7, <1>8, <1>9
     DEF Next, SaveFails, DeleteFails, ReturnError, SetBM25, Restart

\* An operation that succeeds has stored every document the embedder answered,
\* or reported an error.
THEOREM SkipsReported == Spec => []SkipsAreReported
<1>1. Init => Counted
  BY DEF Init, Counted, SkipsAreReported
<1>2. Counted => SkipsAreReported
  BY DEF Counted
<1> QED
  BY <1>1, <1>2, BatchesInvariant, NextCounted, PTL DEF Spec

-----------------------------------------------------------------------------
(* Vectors of repository embeddings, as long as no operation was torn *)

\* Those that are not of the operation under way read right in the published
\* vocabulary.
Readable ==
    /\ RepoVectors # {} => format = "v2"
    /\ ~torn => \A c \in RepoVectors :
                  Faithful(c, vocab) \/ (step # "idle" /\ c \in current)

\* So all of them read right in the file: the operation that writes them has
\* saved its builder before.
LEMMA ReadableIsReadBack ==
    ASSUME TypeOK, Numbering, Batches, Readable
    PROVE  UntornVectorsReadBack
<1> SUFFICES ASSUME ~torn, NEW c \in RepoVectors PROVE Faithful(c, saved)
  BY DEF UntornVectorsReadBack
<1>1. CASE Faithful(c, vocab)
  BY <1>1, FaithfulExtends DEF Numbering
<1>2. CASE step # "idle" /\ c \in current
  <2>1. Faithful(c, builder) /\ origin[c] = Writer /\ origin[c] = "repository"
    BY <1>2 DEF Batches, RepoVectors
  <2>2. keep
    BY <1>2, <2>1 DEF Batches, Writer
  <2>3. step \in {"embed", "delete", "publish"}
    BY <1>2, <2>2 DEF Batches, TypeOK, Steps
  <2> QED
    BY <2>1, <2>2, <2>3 DEF Numbering
<1> QED
  BY <1>1, <1>2 DEF Readable

\* A step that writes no vector keeps the meaning of those it keeps.
LEMMA KeptVectors ==
    ASSUME TypeOK, UNCHANGED pointVars \/ RemoveStale
    PROVE  /\ RepoVectors' \subseteq RepoVectors
           /\ UNCHANGED <<coords, written>>
  BY RemoveFacts DEF RepoVectors, pointVars

LEMMA NextReadable ==
    TypeOK /\ Numbering /\ Batches /\ Readable /\ [Next]_vars => Readable'
<1> SUFFICES ASSUME TypeOK, Numbering, Batches, Readable, [Next]_vars
             PROVE  Readable'
  OBVIOUS
<1>1. ASSUME UNCHANGED pointVars \/ RemoveStale,
             UNCHANGED <<format, vocab, torn, current>>,
             step' = "idle" => step = "idle"
      PROVE  Readable'
  BY <1>1, KeptVectors DEF Readable, Faithful
<1>2. ASSUME NEW found, NEW base, Scan(found, base), step = "idle"
      PROVE  Readable'
  <2>1. UNCHANGED <<pointVars, format, vocab, torn>>
    BY <1>2 DEF Scan, fileVars, liveVars, pastVars
  <2> QED
    BY <1>2, <2>1, KeptVectors DEF Readable, Faithful
<1>3. CASE (\E repo \in Repos : EmbedRepoCode(repo)) \/ EmbedCodeChunks
  BY <1>2, <1>3 DEF EmbedRepoCode, EmbedCodeChunks
<1>4. CASE SaveVocab
  <2>1. /\ UNCHANGED <<pointVars, vocab, torn, current>>
        /\ format' = "v2" /\ step' # "idle"
    BY <1>4 DEF SaveVocab, liveVars, opVars, pastVars
  <2> QED
    BY <2>1, KeptVectors DEF Readable, Faithful
<1>5. ASSUME ReturnError, UNCHANGED pointVars \/ RemoveStale PROVE Readable'
  <2>1. /\ torn' = (torn \/ current # {})
        /\ UNCHANGED <<format, vocab>>
    BY <1>5 DEF ReturnError, fileVars, liveVars
  <2>2. RepoVectors' \subseteq RepoVectors /\ UNCHANGED <<coords, written>>
    BY <1>5, KeptVectors
  <2>3. ASSUME ~torn', NEW c \in RepoVectors' PROVE Faithful(c, vocab)'
    BY <2>1, <2>2, <2>3 DEF Readable, Faithful
  <2> QED
    BY <2>1, <2>2, <2>3 DEF Readable
<1>6. ASSUME NEW c \in todo, Write(c), Quiet, step = "embed" PROVE Readable'
  <2>1. c \in docs /\ c \in Chunks
    BY DEF TypeOK
  <2>2. /\ origin'[c] = Writer
        /\ \A d \in Chunks \ {c} : /\ origin'[d] = origin[d]
                                  /\ coords'[d] = coords[d]
                                  /\ written'[d] = written[d]
    BY <1>6, <2>1, WriteFacts
  <2>3. /\ current' = current \cup {c}
        /\ UNCHANGED <<format, vocab, torn, step>>
    BY <1>6 DEF Write, Quiet
  <2>4. RepoVectors' # {} => format = "v2"
    <3>1. CASE origin'[c] = "repository"
      <4>1. keep
        BY <1>6, <2>2, <3>1 DEF Batches, Writer
      <4> QED
        BY <1>6, <4>1 DEF Numbering
    <3>2. CASE origin'[c] # "repository"
      BY <2>2, <3>2 DEF Readable, RepoVectors
    <3> QED
      BY <3>1, <3>2
  <2>5. ASSUME ~torn, NEW d \in RepoVectors', d # c
        PROVE  Faithful(d, vocab)' \/ d \in current
    <3>1. d \in RepoVectors /\ d \in Chunks \ {c}
      BY <2>2, <2>5 DEF RepoVectors
    <3> QED
      BY <2>2, <2>3, <2>5, <3>1 DEF Readable, Faithful
  <2> QED
    BY <1>6, <2>3, <2>4, <2>5 DEF Readable
<1>7. ASSUME NEW c \in Chunks,
             EmbedBatch(c) \/ BatchUncertain(c)
      PROVE  Readable'
  BY <1>6, <1>7, QuietSteps DEF EmbedBatch, BatchUncertain
<1>8. ASSUME NEW c \in Chunks, BatchFails(c) \/ BatchShort(c) PROVE Readable'
  <2>1. Quiet
    BY <1>8, QuietSteps
  <2> QED
    BY <1>1, <1>8, <2>1 DEF BatchFails, BatchShort, Quiet
<1>9. CASE EmbedReturns
  <2>1. CASE ReturnError /\ UNCHANGED pointVars
    BY <1>5, <2>1
  <2>2. CASE step' = "delete" /\ UNCHANGED <<fileVars, liveVars, pointVars, opVars, pastVars>>
    BY <1>1, <2>2 DEF fileVars, liveVars, opVars, pastVars
  <2> QED
    BY <1>9, <2>1, <2>2 DEF EmbedReturns
<1>10. CASE DeleteStale
  BY <1>1, <1>10 DEF DeleteStale, fileVars, liveVars, opVars, pastVars
<1>11. CASE SaveFails \/ DeleteFails
  BY <1>5, <1>11 DEF SaveFails, DeleteFails
<1>12. CASE SetBM25
  <2>1. /\ step = "publish" /\ vocab' = builder
        /\ UNCHANGED <<format, pointVars, torn>>
    BY <1>12 DEF SetBM25, fileVars
  <2>2. ASSUME ~torn, NEW c \in RepoVectors PROVE Faithful(c, builder)
    <3>1. CASE c \in current
      BY <2>1, <3>1 DEF Batches
    <3>2. CASE Faithful(c, vocab)
      BY <2>1, <3>2, FaithfulExtends DEF Numbering
    <3> QED
      BY <2>2, <3>1, <3>2 DEF Readable
  <2>3. RepoVectors' \subseteq RepoVectors /\ UNCHANGED <<coords, written>>
    BY <2>1, KeptVectors
  <2> QED
    BY <2>1, <2>2, <2>3 DEF Readable, Faithful
<1>13. CASE Restart
  <2>1. /\ vocab' = IF format = "v2" THEN saved ELSE NewBM25Builder
        /\ UNCHANGED <<format, pointVars, torn>>
    BY <1>13 DEF Restart, fileVars, pastVars
  <2>2. ASSUME ~torn, NEW c \in RepoVectors PROVE Faithful(c, saved)
    BY <2>2, ReadableIsReadBack DEF UntornVectorsReadBack
  <2>3. RepoVectors' \subseteq RepoVectors /\ UNCHANGED <<coords, written>>
    BY <2>1, KeptVectors
  <2> QED
    BY <2>1, <2>2, <2>3 DEF Readable, Faithful
<1>14. CASE Cancel \/ UNCHANGED vars
  <2>1. UNCHANGED <<pointVars, current>>
    BY <1>14 DEF Cancel, vars, opVars
  <2> QED
    BY <1>1, <1>14, <2>1, QuietSteps DEF Quiet
<1> QED
  BY <1>3, <1>4, <1>7, <1>8, <1>9, <1>10, <1>11, <1>12, <1>13, <1>14 DEF Next

\* As long as no operation was stopped by an error after it had written, what
\* repository embeddings wrote can be read after a restart at any moment.
THEOREM UntornReadBack == Spec => []UntornVectorsReadBack
<1>1. Init => Readable
  BY DEF Init, Readable, RepoVectors
<1>2. TypeOK /\ Numbering /\ Batches /\ Readable => UntornVectorsReadBack
  BY ReadableIsReadBack
<1> QED
  BY <1>1, <1>2, BatchesInvariant, NextReadable, PTL DEF Spec
=============================================================================
