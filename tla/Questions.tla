----------------------------- MODULE Questions ------------------------------
(***************************************************************************)
(* QA.Ask: what is decided and fetched before a run's agent starts.  A      *)
(* helper model plans where evidence is to come from and which of the       *)
(* routed tools are offered; it may fail, and it may be overruled.  Trusted *)
(* tools are called ahead, memory is recalled, evidence is retrieved, and   *)
(* all of it is merged under one budget.                                    *)
(***************************************************************************)
EXTENDS Integers, Sequences, FiniteSets, SequencesExt

CONSTANTS
    Tools,              \* the read tools registered when the question is asked
    Routed,             \* those of them that name a routing intent
    Prefetchable,       \* those of them that may be called ahead
    Temporal,           \* a routed tool asks for a time range
    MemoryEnabled,
    WebEnabled,
    MaxPrefetch,        \* bound: length of a request's prefetch plan
    Sizes,              \* bound: sizes of a tool's result and of the evidence
    ContextBudget,
    PreloadedBudget     \* preloadedContextBudget

Sources == {"memory", "internal", "web"}
Plans == SUBSET Sources
Origins == {"explicit", "rule", "model", "fallback"}

ASSUME QuestionAssumption ==
    /\ IsFiniteSet(Tools)
    /\ Routed \subseteq Tools /\ Prefetchable \subseteq Tools
    /\ {Temporal, MemoryEnabled, WebEnabled} \subseteq BOOLEAN
    /\ MaxPrefetch \in Nat
    /\ Sizes \subseteq Nat \ {0}
    /\ {ContextBudget, PreloadedBudget} \subseteq Nat \ {0}

PrefetchCall == [tool : Tools, required : BOOLEAN]

Request ==
    [fixed : BOOLEAN,           \* EvidencePlan is given:
     plan : Plans,              \*   this one
     meta : BOOLEAN,            \* shouldShortCircuitMeta
     context : BOOLEAN,         \* there is conversation context
     user : BOOLEAN,            \* the user is known
     prefetch : BoundedSeq(PrefetchCall, MaxPrefetch)]

VARIABLES
    phase,          \* where Ask stands
    request,
    sources,        \* the effective plan
    origin,         \* where it comes from
    confident,      \* the model was as sure as routerConfidence asks for
    failed,         \* the helper model gave no plan
    degraded,       \* planningErr
    routed,         \* routedToolIDs
    offered,        \* the tools selected for the run
    blocks,         \* results and notices of the tools called ahead
    recalled,       \* memories are injected
    evidence,       \* size of what retrieval wrote
    text            \* the merged context: sizes of what is preloaded and of the
                    \*   evidence, and a note that there is no web source

questionVars == <<phase, request, sources, origin, confident, failed, degraded, routed,
                  offered, blocks, recalled, evidence, text>>

Phases == {"new", "asked", "planned", "selected", "prefetch", "recall", "retrieve", "merge",
           "running", "failed"}

QuestionTypeOK ==
    /\ phase \in Phases
    /\ request \in Request
    /\ sources \in Plans
    /\ origin \in Origins
    /\ confident \in BOOLEAN /\ failed \in BOOLEAN
    /\ degraded \in BOOLEAN /\ recalled \in BOOLEAN
    /\ routed \subseteq Routed
    /\ offered \subseteq Tools
    /\ \A i \in DOMAIN blocks : blocks[i] \in [tool : Tools, result : BOOLEAN, size : Nat]
    /\ evidence \in Sizes \cup {0}
    /\ text \in [preloaded : Nat, evidence : Nat, noWeb : BOOLEAN]

QuestionInit ==
    /\ phase = "new"
    /\ request = [fixed |-> FALSE, plan |-> {}, meta |-> FALSE, context |-> FALSE,
                  user |-> FALSE, prefetch |-> << >>]
    /\ sources = {"internal"} /\ origin = "fallback"
    /\ confident = FALSE /\ failed = FALSE /\ degraded = FALSE
    /\ routed = {} /\ offered = {} /\ blocks = << >> /\ recalled = FALSE
    /\ evidence = 0 /\ text = [preloaded |-> 0, evidence |-> 0, noWeb |-> FALSE]

\* A question comes in, with or without a plan of its own.
Ask ==
    /\ phase = "new"
    /\ request' \in Request
    /\ request'.fixed \/ request'.plan = {}
    /\ phase' = "asked"
    /\ UNCHANGED <<sources, origin, confident, failed, degraded, routed, offered, blocks,
                   recalled, evidence, text>>

Decide(plan, from, sure, ids) ==
    /\ sources' = plan /\ origin' = from /\ confident' = sure
    /\ routed' = ids
    /\ phase' = "planned"
    /\ UNCHANGED <<request, offered, blocks, recalled, evidence, text>>

---------------------------------------------------------------------------
(* Planning *)

\* The caller's plan stands; the helper only routes tools and reads terms, and
\* is not asked at all when nothing can be routed.
PlanExplicitly ==
    /\ phase = "asked" /\ request.fixed
    /\ \E ids \in SUBSET Routed : Decide(request.plan, "explicit", TRUE, ids)
    /\ UNCHANGED <<failed, degraded>>

\* A question about the assistant itself needs no evidence.
PlanByRule ==
    /\ phase = "asked" /\ ~request.fixed /\ request.meta
    /\ Decide({}, "rule", TRUE, {})
    /\ UNCHANGED <<failed, degraded>>

\* The helper's answer is valid: sources it knows, tools it was given.
PlanByModel ==
    /\ phase = "asked" /\ ~request.fixed /\ ~request.meta
    /\ \E plan \in Plans, sure \in BOOLEAN, ids \in SUBSET Routed :
          Decide(plan, "model", sure, ids)
    /\ UNCHANGED <<failed, degraded>>

\* There is no helper, it does not answer in time, or not in the form asked for.
PlanningFails ==
    /\ phase = "asked"
    /\ request.fixed => Routed # {}
    /\ request.fixed \/ ~request.meta
    /\ IF request.fixed
       THEN Decide(request.plan, "explicit", TRUE, {})
       ELSE Decide({"internal"}, "fallback", TRUE, {})
    /\ failed' = TRUE /\ degraded' = TRUE

\* The time range that the helper read out of the question makes no sense.
TimeFails ==
    /\ phase = "planned" /\ ~degraded
    /\ Temporal /\ origin # "rule"
    /\ degraded' = TRUE
    /\ UNCHANGED <<phase, request, sources, origin, confident, failed, routed, offered,
                   blocks, recalled, evidence, text>>

\* Broken variant: the plan that was proposed is followed.
AsProposed == sources

\* A plan without sources that the helper is not sure of is not followed.
Effective == IF origin = "model" /\ sources = {} /\ ~confident THEN {"internal"} ELSE sources

\* Planning that failed offers every routed tool; a follow-up question for
\* which none was chosen keeps them all.
RoutedTools ==
    LET chosen == IF degraded THEN Routed ELSE routed
    IN IF chosen = {} /\ request.context /\ "internal" \in Effective THEN Routed ELSE chosen

\* The tools without a routing intent are always offered.
SelectTools ==
    /\ phase = "planned"
    /\ sources' = Effective
    /\ origin' = IF Effective # sources THEN "fallback" ELSE origin
    /\ routed' = RoutedTools
    /\ offered' = (Tools \ Routed) \cup RoutedTools
    /\ phase' = "prefetch"
    /\ UNCHANGED <<request, confident, failed, degraded, blocks, recalled, evidence, text>>

---------------------------------------------------------------------------
(* Fetching *)

NextCall == request.prefetch[Len(blocks) + 1]

\* The call cannot be made, or fails, and the caller can do without it: a
\* notice takes its place.
PrefetchSkipped ==
    /\ phase = "prefetch" /\ Len(blocks) < Len(request.prefetch)
    /\ NextCall.tool \notin offered \/ NextCall.tool \in Prefetchable
    /\ ~NextCall.required
    /\ blocks' = Append(blocks, [tool |-> NextCall.tool, result |-> FALSE, size |-> 1])
    /\ UNCHANGED <<phase, request, sources, origin, confident, failed, degraded, routed,
                   offered, recalled, evidence, text>>

PrefetchDone ==
    /\ phase = "prefetch" /\ Len(blocks) < Len(request.prefetch)
    /\ NextCall.tool \in offered \cap Prefetchable
    /\ \E n \in Sizes :
         blocks' = Append(blocks, [tool |-> NextCall.tool, result |-> TRUE, size |-> n])
    /\ UNCHANGED <<phase, request, sources, origin, confident, failed, degraded, routed,
                   offered, recalled, evidence, text>>

\* A required call cannot be made or fails, or a tool is not meant to be called
\* ahead: the run fails.
PrefetchFails ==
    /\ phase = "prefetch" /\ Len(blocks) < Len(request.prefetch)
    /\ NextCall.required \/ NextCall.tool \in offered \ Prefetchable
    /\ phase' = "failed"
    /\ UNCHANGED <<request, sources, origin, confident, failed, degraded, routed, offered,
                   blocks, recalled, evidence, text>>

\* Recall may fail; without a user or a store there is none.
RecallMemories ==
    /\ phase = "prefetch" /\ Len(blocks) = Len(request.prefetch)
    /\ \/ "memory" \in sources /\ MemoryEnabled /\ request.user /\ recalled' \in BOOLEAN
       \/ ~("memory" \in sources /\ MemoryEnabled /\ request.user) /\ UNCHANGED recalled
    /\ phase' = IF "internal" \in sources THEN "retrieve" ELSE "merge"
    /\ UNCHANGED <<request, sources, origin, confident, failed, degraded, routed, offered,
                   blocks, evidence, text>>

\* Nothing is found, or retrieval fails, or it writes some evidence.
Retrieved ==
    /\ phase = "retrieve"
    /\ evidence' \in {n \in Sizes \cup {0} : n <= ContextBudget}
    /\ phase' = "merge"
    /\ UNCHANGED <<request, sources, origin, confident, failed, degraded, routed, offered,
                   blocks, recalled, text>>

---------------------------------------------------------------------------
(* Merging *)

Smaller(a, b) == IF a < b THEN a ELSE b

\* All blocks share one limit; the one that does not fit is cut.
Preloaded ==
    FoldLeft(LAMBDA used, b : Smaller(used + b.size, Smaller(PreloadedBudget, ContextBudget)),
             0, blocks)

\* Broken variant: evidence gets what is left of the preloaded limit.
RoomUnderLimit == IF PreloadedBudget > Preloaded THEN PreloadedBudget - Preloaded - 1 ELSE 0

\* Behind them, and a newline, evidence gets what is left.
Room == IF ContextBudget > Preloaded THEN ContextBudget - Preloaded - 1 ELSE 0

EvidenceKept == IF Preloaded = 0 THEN evidence ELSE Smaller(evidence, Room)

\* The run starts; a web source that is not configured is named at the end.
Merge ==
    /\ phase = "merge"
    /\ text' = [preloaded |-> Preloaded, evidence |-> EvidenceKept,
                noWeb |-> "web" \in sources /\ ~WebEnabled]
    /\ phase' = "running"
    /\ UNCHANGED <<request, sources, origin, confident, failed, degraded, routed, offered,
                   blocks, recalled, evidence>>

QuestionNext ==
    \/ Ask \/ PlanExplicitly \/ PlanByRule \/ PlanByModel \/ PlanningFails \/ TimeFails
    \/ SelectTools \/ PrefetchSkipped \/ PrefetchDone \/ PrefetchFails
    \/ RecallMemories \/ Retrieved \/ Merge

\* One question by itself.
QuestionSpec == QuestionInit /\ [][QuestionNext]_questionVars

---------------------------------------------------------------------------
(* A helper that fails or is unsure withholds nothing: a run whose planning  *)
(* was degraded is offered every tool, one that the helper gave no plan for  *)
(* searches the index unless the caller said otherwise, and nobody but the   *)
(* caller, the rule or a sure helper may leave every source out.             *)
NothingIsWithheld ==
    phase = "running" =>
        /\ degraded => offered = Tools
        /\ failed /\ ~request.fixed => "internal" \in sources
        /\ sources = {} => \/ request.fixed \/ request.meta
                           \/ confident /\ ~failed
        /\ request.fixed => sources = request.plan

\* What a run starts with: every required call's result is in its blocks, the
\* preloaded text is within its limit and, where the whole budget is larger,
\* some of the evidence follows it.
StartsComplete ==
    phase = "running" =>
        /\ \A i \in DOMAIN request.prefetch : request.prefetch[i].required => blocks[i].result
        /\ text.preloaded <= PreloadedBudget
        /\ text.preloaded + text.evidence <= ContextBudget
        /\ evidence > 0 /\ ContextBudget > PreloadedBudget + 1 => text.evidence > 0
=============================================================================
