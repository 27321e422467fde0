----------------------------- MODULE ToolOutput -----------------------------
(***************************************************************************)
(* What the model is shown of a tool's answer.  An answer within its budget *)
(* passes unchanged.  A longer one is taken apart (JSON along its values,   *)
(* lines of JSON, or text by paragraphs), the pieces are ranked by the      *)
(* question, and as many as fit go into an envelope that keeps their order, *)
(* the fields around them, and a statement of what is missing.  When not    *)
(* even one fits, its ends do, or the ends of the whole answer.             *)
(*                                                                          *)
(* Sizes are EstimateTokens of a text.  Of a text the model knows its size  *)
(* and which terms of the question are in it.                               *)
(***************************************************************************)
EXTENDS Integers, Sequences, FiniteSets, FiniteSetsExt, SequencesExt

CONSTANTS
    Terms,          \* the terms of the question
    Answers,        \* what tools answer
    Budgets,        \* Request.MaxTokens
    NoticeSizes,    \* the notices that go with an answer
    BaseSize,       \* an envelope without pieces and notices
    FrameSize,      \* what an envelope adds to a piece or a context
    Growths         \* by how much an envelope is larger than the estimate

\* An answer in JSON lists its values in the order of the text: of each, what is
\* its own (its size, the terms in it) and the values it is in, from the outermost.
IsContainer(v) == v.kind \in {"array", "object"}

IsJSON(vs) ==
    /\ vs \in Seq([kind : {"array", "object", "scalar"}, size : Nat, terms : SUBSET Terms,
                   within : Seq(Nat)])
    /\ vs # << >> /\ vs[1].within = << >>
    /\ \A i \in DOMAIN vs : vs[i].within \in Seq(1..(i - 1))
    /\ \A i \in 2..Len(vs) : \E j \in {i - 1} \cup ToSet(vs[i - 1].within) :
            IsContainer(vs[j]) /\ vs[i].within = Append(vs[j].within, j)

IsText(lines) == lines \in Seq([kind : {"json", "text", "blank"}, size : Nat, terms : SUBSET Terms])

ASSUME OutputAssumption ==
    /\ IsFiniteSet(Terms)
    /\ \A a \in Answers : \/ a.form = "json" /\ IsJSON(a.values)
                          \/ a.form = "lines" /\ IsText(a.lines)
    /\ Answers # {} /\ Budgets # {} /\ NoticeSizes # {}
    /\ {BaseSize, FrameSize} \subseteq Nat \ {0}
    /\ NoticeSizes \subseteq Nat /\ Growths \subseteq Nat
    /\ Budgets \subseteq Int

\* What some values or lines take together.
SizeIn(s, indexes) == MapThenSumSet(LAMBDA i : s[i].size, indexes)

\* Some indexes of a sequence, in its order.
InOrder(indexes, s) ==
    FoldLeftDomain(LAMBDA o, i : IF i \in indexes THEN Append(o, i) ELSE o, << >>, s)

\* What a value is made of: itself and the values in it, of which some directly.
Inner(vs, i) == {k \in DOMAIN vs : k = i \/ i \in ToSet(vs[k].within)}
Fields(vs, i) == {k \in DOMAIN vs : vs[k].within # << >> /\ Last(vs[k].within) = i}

Tokens(vs, i) == SizeIn(vs, Inner(vs, i))
TermsIn(vs, i) == UNION {vs[k].terms : k \in Inner(vs, i)}

AnswerSize(a) ==
    IF a.form = "json" THEN Tokens(a.values, 1) ELSE SizeIn(a.lines, DOMAIN a.lines)

VARIABLES
    packing,        \* where Compress stands
    answer, budget, noticed,    \* the request
    chunks,         \* the pieces, in the order of the answer
    untried,        \* those that have not been tried
    selected,       \* those that fit
    spent,          \* the estimated size of the envelope
    message         \* what the model is shown

outputVars == <<packing, answer, budget, noticed, chunks, untried, selected, spent, message>>

Coverages == {"full", "partial", "not_applicable"}

NoMessage ==
    [strategy |-> "none", kept |-> << >>, contexts |-> {}, truncated |-> FALSE, size |-> 0,
     chunk |-> "full", item |-> "not_applicable", field |-> "not_applicable"]

OutputTypeOK ==
    /\ packing \in {"idle", "build", "pack", "fit", "excerpt", "done"}
    /\ answer \in Answers /\ budget \in Budgets /\ noticed \in NoticeSizes
    /\ \A i \in DOMAIN chunks : chunks[i].size \in Nat /\ chunks[i].terms \subseteq Terms
    /\ untried \cup ToSet(selected) \subseteq DOMAIN chunks
    /\ spent \in Nat
    /\ message.strategy \in {"none", "passthrough", "extractive", "fallback"}
    /\ ToSet(message.kept) \subseteq DOMAIN chunks
    /\ {message.chunk, message.item, message.field} \subseteq Coverages

OutputInit ==
    /\ packing = "idle"
    /\ answer = (CHOOSE a \in Answers : TRUE) /\ budget = (CHOOSE b \in Budgets : TRUE)
    /\ noticed = (CHOOSE n \in NoticeSizes : TRUE)
    /\ chunks = << >> /\ untried = {} /\ selected = << >> /\ spent = 0
    /\ message = NoMessage

---------------------------------------------------------------------------
(* Taking the answer apart *)

ChunkTarget(b) == Max({64, Min({600, b \div 3})})

NoItem == 0

Chunk(ref, size, terms, needs, item) ==
    [ref |-> ref, size |-> size, terms |-> terms, needs |-> needs, item |-> item]

\* A container that is too large for one piece is divided.
Divided(vs, target, i) == IsContainer(vs[i]) /\ Tokens(vs, i) > target

\* The plain fields of an object that fit beside its other fields.
AddField(vs, target, i, fits, k) ==
    IF /\ k \in Fields(vs, i) /\ ~IsContainer(vs[k])
       /\ SizeIn(vs, fits) + vs[k].size <= Max({32, target \div 3})
    THEN fits \cup {k} ELSE fits

ContextFields(vs, target, i) ==
    IF vs[i].kind = "object"
    THEN FoldLeftDomain(LAMBDA fits, k : AddField(vs, target, i, fits, k), {}, vs) ELSE {}

\* The values that become pieces: everything around them is divided, and they
\* are not, or are objects of which all fields are context.
IsPiece(vs, target, i) ==
    /\ \A k \in ToSet(vs[i].within) :
            Divided(vs, target, k) /\ i \notin ContextFields(vs, target, k)
    /\ Divided(vs, target, i) =>
            vs[i].kind = "object" /\ Fields(vs, i) \subseteq ContextFields(vs, target, i)

\* The names on the way to a value belong to the text of its piece.  Its item is
\* the innermost element of an array it is in.
PieceOf(vs, target, i) ==
    LET divided == {k \in {i} \cup ToSet(vs[i].within) : Divided(vs, target, k)}
        around == {k \in divided : ContextFields(vs, target, k) # {}}
        elements == {k \in {i} \cup ToSet(vs[i].within) :
                        \E j \in DOMAIN vs : vs[j].kind = "array" /\ k \in Fields(vs, j)}
    IN Chunk(i, IF i \in divided THEN 1 ELSE Tokens(vs, i),
             (UNION {vs[k].terms : k \in divided}) \cup (IF i \in divided THEN {} ELSE TermsIn(vs, i)),
             {[ref |-> k, size |-> SizeIn(vs, ContextFields(vs, target, k))] : k \in around},
             Max({NoItem} \cup elements))

JSONChunks(vs, target) ==
    LET pieces == InOrder({i \in DOMAIN vs : IsPiece(vs, target, i)}, vs)
    IN [k \in DOMAIN pieces |-> PieceOf(vs, target, pieces[k])]

\* Pieces of one line each, when at least two lines and at least half of those
\* that are not blank are JSON.
LinesOfKind(lines, kinds) == {i \in DOMAIN lines : lines[i].kind \in kinds}

IsJSONL(lines) ==
    LET valid == Cardinality(LinesOfKind(lines, {"json"}))
    IN valid >= 2 /\ 2 * valid >= Cardinality(LinesOfKind(lines, {"json", "text"}))

TextChunk(lines, from, to) ==
    Chunk(<<from, to>>, SizeIn(lines, from..to),
          UNION {lines[i].terms : i \in from..to}, {}, NoItem)

JSONLChunks(lines) ==
    LET filled == InOrder(LinesOfKind(lines, {"json", "text"}), lines)
    IN [k \in DOMAIN filled |-> TextChunk(lines, filled[k], filled[k])]

\* Pieces of lines that follow each other, cut at blank lines and, in a paragraph
\* that is too long, where the next line would not fit.
Paragraph(lines, i) ==
    {k \in DOMAIN lines : \A m \in Min({i, k})..Max({i, k}) : lines[m].kind # "blank"}

Joins(lines, target, c, i) ==
    /\ c.ref[2] = i - 1
    /\ \/ SizeIn(lines, Paragraph(lines, i)) <= target
       \/ c.size + lines[i].size <= target

AddLine(lines, target, cs, i) ==
    IF lines[i].kind = "blank" THEN cs
    ELSE IF cs # << >> /\ Joins(lines, target, Last(cs), i)
    THEN Append(Front(cs), TextChunk(lines, Last(cs).ref[1], i))
    ELSE Append(cs, TextChunk(lines, i, i))

TextChunks(lines, target) ==
    FoldLeftDomain(LAMBDA cs, i : AddLine(lines, target, cs, i), << >>, lines)

Format(a) == IF a.form = "json" THEN "json" ELSE IF IsJSONL(a.lines) THEN "jsonl" ELSE "text"

ChunksOf(a, target) ==
    CASE Format(a) = "json"  -> JSONChunks(a.values, target)
      [] Format(a) = "jsonl" -> JSONLChunks(a.lines)
      [] Format(a) = "text"  -> TextChunks(a.lines, target)

---------------------------------------------------------------------------
(* Ranking *)

Score(c) == 10 * Cardinality(c.terms)

\* Without a match: the ends, then the middles of what is between, breadth first.
FallbackOrder(n) ==
    LET Split(s, k) ==
            IF s.queue = << >> THEN s
            ELSE LET at == Head(s.queue)
                     mid == at[1] + (at[2] - at[1]) \div 2
                 IN IF at[1] > at[2] THEN [s EXCEPT !.queue = Tail(@)]
                    ELSE [order |-> Append(s.order, mid),
                          queue |-> Tail(s.queue) \o <<<<at[1], mid - 1>>, <<mid + 1, at[2]>>>>]
        all == FoldLeft(Split, [order |-> <<1, n>>, queue |-> <<<<2, n - 1>>>>],
                        [k \in 1..(2 * n) |-> k])
    IN all.order

\* Whether piece i is ranked before piece j.
RankChunks(cs, i, j) ==
    LET order == FallbackOrder(Len(cs))
    IN IF \A k \in DOMAIN cs : Score(cs[k]) = 0
       THEN \E m \in DOMAIN order : order[m] = i /\ \A k \in 1..m : order[k] # j
       ELSE \/ Score(cs[i]) > Score(cs[j])
            \/ Score(cs[i]) = Score(cs[j]) /\ i < j

IsBest(cs, i, indexes) == i \in indexes /\ \A j \in indexes \ {i} : RankChunks(cs, i, j)

---------------------------------------------------------------------------
(* The envelope *)

Contexts(indexes) == UNION {chunks[i].needs : i \in indexes}

SizeOf(contexts) == MapThenSumSet(LAMBDA c : c.size + FrameSize, contexts)

Cost(i, taken) ==
    chunks[i].size + FrameSize + SizeOf(chunks[i].needs \ Contexts(taken))

EnvelopeSize(taken) ==
    BaseSize + noticed + SizeOf(Contexts(taken))
      + SizeIn(chunks, taken) + FrameSize * Cardinality(taken)

ItemsOf(indexes) == {chunks[i].item : i \in indexes} \ {NoItem}
PiecesOf(item) == {i \in DOMAIN chunks : chunks[i].item = item}

\* Broken variant: an item of which one piece is shown counts as shown.
CoverageOfItems(taken, truncated) ==
    [chunk |-> IF taken = DOMAIN chunks THEN "full" ELSE "partial",
     item  |-> IF Format(answer) # "json" \/ ItemsOf(DOMAIN chunks) = {} THEN "not_applicable"
               ELSE IF ItemsOf(taken) = ItemsOf(DOMAIN chunks) THEN "full" ELSE "partial",
     field |-> IF Format(answer) # "json" THEN "not_applicable"
               ELSE IF \/ truncated
                       \/ \E i \in DOMAIN chunks \ taken : chunks[i].item = NoItem
               THEN "partial" ELSE "full"]

\* What the envelope says is missing: pieces, items of arrays without any piece,
\* and fields that no item accounts for or of an item only partly shown.
Coverage(taken, truncated) ==
    [chunk |-> IF taken = DOMAIN chunks THEN "full" ELSE "partial",
     item  |-> IF Format(answer) # "json" \/ ItemsOf(DOMAIN chunks) = {} THEN "not_applicable"
               ELSE IF ItemsOf(taken) = ItemsOf(DOMAIN chunks) THEN "full" ELSE "partial",
     field |-> IF Format(answer) # "json" THEN "not_applicable"
               ELSE IF \/ truncated
                       \/ \E i \in DOMAIN chunks \ taken : chunks[i].item = NoItem
                       \/ \E x \in ItemsOf(taken) : ~(PiecesOf(x) \subseteq taken)
               THEN "partial" ELSE "full"]

Envelope(taken, truncated, size) ==
    LET said == Coverage(taken, truncated)
    IN [strategy |-> "extractive", kept |-> InOrder(taken, chunks),
        contexts |-> IF truncated THEN {} ELSE Contexts(taken), truncated |-> truncated,
        size |-> size, chunk |-> said.chunk, item |-> said.item, field |-> said.field]

\* Both ends of the whole answer and its notices.
Fallback ==
    /\ packing' = "done"
    /\ message' = [NoMessage EXCEPT
                     !.strategy = "fallback", !.chunk = "partial",
                     !.truncated = AnswerSize(answer') + noticed' > budget',
                     !.size = Max({0, Min({budget', AnswerSize(answer') + noticed'})})]

---------------------------------------------------------------------------
(* Compress *)

Compress ==
    /\ packing = "idle"
    /\ answer' \in Answers /\ budget' \in Budgets /\ noticed' \in NoticeSizes
    /\ LET size == AnswerSize(answer') + noticed'
       IN IF size <= budget' /\ budget' > 0
          THEN /\ packing' = "done"
               /\ message' = [NoMessage EXCEPT !.strategy = "passthrough", !.size = size]
          ELSE IF budget' <= 0 THEN Fallback
          ELSE packing' = "build" /\ UNCHANGED message
    /\ UNCHANGED <<chunks, untried, selected, spent>>

\* The pieces are built and ranked, unless the envelope alone is too large.
BuildChunks ==
    /\ packing = "build"
    /\ chunks' = ChunksOf(answer, ChunkTarget(budget))
    /\ untried' = DOMAIN chunks'
    /\ spent' = BaseSize + noticed
    /\ UNCHANGED <<answer, budget, noticed, selected>>
    /\ IF chunks' = << >> \/ spent' >= budget
       THEN Fallback
       ELSE packing' = "pack" /\ UNCHANGED message

PackTarget == IF budget = 1 THEN 1 ELSE (97 * budget) \div 100

SelectChunk ==
    /\ packing = "pack"
    /\ \E i \in untried :
        /\ IsBest(chunks, i, untried)
        /\ untried' = untried \ {i}
        /\ IF spent + Cost(i, ToSet(selected)) > PackTarget THEN UNCHANGED <<selected, spent>>
           ELSE /\ selected' = Append(selected, i)
                /\ spent' = spent + Cost(i, ToSet(selected))
    /\ UNCHANGED <<packing, answer, budget, noticed, chunks, message>>

Selected ==
    /\ packing = "pack" /\ untried = {}
    /\ packing' = IF selected = << >> THEN "excerpt" ELSE "fit"
    /\ UNCHANGED <<answer, budget, noticed, chunks, untried, selected, spent, message>>

\* The envelope is written; while it is too large the worst piece goes.
FitEnvelope ==
    /\ packing = "fit"
    /\ UNCHANGED <<answer, budget, noticed, chunks, untried, spent>>
    /\ \E g \in Growths :
        LET size == EnvelopeSize(ToSet(selected)) + g
        IN IF size <= budget
           THEN /\ packing' = "done"
                /\ message' = Envelope(ToSet(selected), FALSE, size)
                /\ UNCHANGED selected
           ELSE /\ selected' = Front(selected)
                /\ packing' = IF Len(selected) = 1 THEN "excerpt" ELSE "fit"
                /\ UNCHANGED message

\* The ends of the best piece, if they fit.
PackTruncatedChunk ==
    /\ packing = "excerpt"
    /\ UNCHANGED <<answer, budget, noticed, chunks, untried, selected, spent>>
    /\ \E best \in DOMAIN chunks, g \in Growths :
        LET excerpt == Min({chunks[best].size, Max({16, budget \div 3})})
            size == BaseSize + noticed + excerpt + FrameSize + g
        IN /\ IsBest(chunks, best, DOMAIN chunks)
           /\ IF size > budget THEN Fallback
              ELSE packing' = "done" /\ message' = Envelope({best}, TRUE, size)

OutputNext ==
    Compress \/ BuildChunks \/ SelectChunk \/ Selected \/ FitEnvelope \/ PackTruncatedChunk

OutputSpec == OutputInit /\ [][OutputNext]_outputVars

---------------------------------------------------------------------------
(* What the model is shown keeps to the budget and can be relied on.  The   *)
(* pieces come in the order of the answer, each with the fields around it.  *)
(* Where the envelope says that every field and item is covered, nothing is *)
(* missing; where it only says so of fields, no item is shown in part;      *)
(* where it says so of items, every item is there with some piece.  While   *)
(* items are missing, a field coverage of "full" says nothing of the fields *)
(* that went with them.                                                     *)
OutputIsHonest ==
    LET kept == ToSet(message.kept)
    IN packing = "done" =>
        /\ message.size <= Max({budget, 0})
        /\ message.strategy = "extractive" =>
            /\ \A i, j \in DOMAIN message.kept : i < j => message.kept[i] < message.kept[j]
            /\ message.truncated \/ \A i \in kept : chunks[i].needs \subseteq message.contexts
            /\ message.item # "partial" /\ message.field = "full"
                 => kept = DOMAIN chunks /\ ~message.truncated
            /\ message.field = "full" =>
                 \A i \in kept, j \in DOMAIN chunks :
                    chunks[j].item = chunks[i].item => j \in kept
            /\ message.item = "full" =>
                 \A j \in DOMAIN chunks : chunks[j].item # NoItem =>
                    \E i \in kept : chunks[i].item = chunks[j].item
=============================================================================
