--------------------------- MODULE ToolUseProofs ----------------------------
(* The catalog, the MCP endpoint and the agent run, for any number of tools,  *)
(* extensions, clients and publications, and any limits of the loop.          *)
EXTENDS ToolUse, TLAPS, SequenceTheorems

-----------------------------------------------------------------------------
(* The catalog.                                                            *)

LEMMA RegistryStart == ASSUME RegistryInit PROVE RegistryTypeOK
<1>1. \A i \in BuiltIn : [owner |-> None, since |-> 0, form |-> "open"] \in Tool
  BY RevisionAssumption DEF Tool, Forms
<1> QED
  BY <1>1, IdsAssumption, RevisionAssumption DEF RegistryInit, RegistryTypeOK, Catalog

LEMMA ReconcileType ==
  ASSUME RegistryTypeOK, NEW o \in Owners, Reconcile(o)
  PROVE  RegistryTypeOK' /\ revision' = revision + 1
<1>1. revision' = revision + 1 /\ revision' \in 0..MaxRevision
  BY RevisionAssumption DEF Reconcile, RegistryTypeOK
<1>2. PICK ids \in SUBSET Ids : \E wanted \in [ids -> Forms] : tools' = Reconciled(o, wanted)
  BY DEF Reconcile
<1>3. PICK wanted \in [ids -> Forms] : tools' = Reconciled(o, wanted)
  BY <1>2
<1>4. \A i \in DOMAIN wanted : [owner |-> o, since |-> revision + 1, form |-> wanted[i]] \in Tool
  BY <1>1 DEF Tool
<1>5. Reconciled(o, wanted) \in Catalog
  BY <1>4 DEF Reconciled, Catalog, RegistryTypeOK
<1> QED
  BY <1>1, <1>3, <1>5 DEF RegistryTypeOK

-----------------------------------------------------------------------------
(* The MCP endpoint.                                                       *)

\* The label never runs ahead of the snapshot, nor the snapshot of the catalog;
\* a request that is about to be served found a server new enough for it.
McpInv ==
  /\ surface.label <= surface.since /\ surface.since <= revision
  /\ \A c \in Clients :
       /\ request[c].arrived <= request[c].noted /\ request[c].noted <= revision
       /\ request[c].pc = "serve" => request[c].stuck \/ surface.since >= request[c].arrived
       /\ request[c].pc = "served" => request[c].stuck \/ request[c].got >= request[c].arrived

LEMMA McpStart == ASSUME RegistryInit, McpInit PROVE McpTypeOK /\ McpInv
<1>1. 0 \in Revisions
  BY RevisionAssumption DEF Revisions
<1>2. NoRequest \in Request
  BY <1>1 DEF NoRequest, Request, RequestPc
<1>3. McpTypeOK
  BY <1>1, <1>2 DEF McpInit, McpTypeOK
<1>4. McpInv
  BY DEF McpInit, McpInv, RegistryInit, NoRequest
<1> QED
  BY <1>3, <1>4

\* A publication leaves the endpoint as it is.
LEMMA McpPublication ==
  ASSUME RegistryTypeOK, McpTypeOK, McpInv, revision' = revision + 1, UNCHANGED mcpVars
  PROVE  McpTypeOK' /\ McpInv'
<1>1. /\ surface.label \in Nat /\ surface.since \in Nat /\ revision \in Nat
      /\ \A c \in Clients : request[c].arrived \in Nat /\ request[c].noted \in Nat
  BY RevisionAssumption DEF McpTypeOK, Request, Revisions, RegistryTypeOK
<1> QED
  BY <1>1 DEF McpTypeOK, McpInv, mcpVars

\* A request's step, from what it does to that request and to the surface.
LEMMA McpStep ==
  ASSUME RegistryTypeOK, McpTypeOK, McpInv, UNCHANGED registryVars,
         NEW c \in Clients, NEW x \in Request, request' = [request EXCEPT ![c] = x],
         surface' \in [label: Revisions, since: Revisions], lock' \in Clients \cup {None},
         surface'.label <= surface'.since, surface'.since <= revision,
         surface.since <= surface'.since,
         x.arrived <= x.noted, x.noted <= revision,
         x.pc = "serve" => x.stuck \/ surface'.since >= x.arrived,
         x.pc = "served" => x.stuck \/ x.got >= x.arrived
  PROVE  McpTypeOK' /\ McpInv'
<1>1. request' \in [Clients -> Request] /\ request'[c] = x
  BY DEF McpTypeOK
<1>2. McpTypeOK'
  BY <1>1 DEF McpTypeOK, Revisions
<1>3. ASSUME NEW d \in Clients
      PROVE  /\ request'[d].arrived <= request'[d].noted /\ request'[d].noted <= revision
             /\ request'[d].pc = "serve" =>
                  request'[d].stuck \/ surface'.since >= request'[d].arrived
             /\ request'[d].pc = "served" =>
                  request'[d].stuck \/ request'[d].got >= request'[d].arrived
  <2>1. CASE d = c
    BY <1>1, <2>1
  <2>2. CASE d # c
    <3>1. request'[d] = request[d]
      BY <2>2 DEF McpTypeOK
    <3>2. /\ surface.since \in Nat /\ surface'.since \in Nat
          /\ request[d].arrived \in Nat
      BY RevisionAssumption DEF McpTypeOK, Request, Revisions
    <3> QED
      BY <3>1, <3>2 DEF McpInv
  <2> QED
    BY <2>1, <2>2
<1>4. McpInv'
  BY <1>3 DEF McpInv, registryVars
<1> QED
  BY <1>2, <1>4

LEMMA McpNextInv ==
  ASSUME RegistryTypeOK, McpTypeOK, McpInv, McpNext, UNCHANGED registryVars
  PROVE  McpTypeOK' /\ McpInv'
<1> PICK c \in Clients : Arrive(c) \/ Compare(c) \/ Rebuild(c) \/ Build(c) \/ Serve(c)
  BY DEF McpNext
<1> DEFINE x == request[c]
<1>1. /\ x \in Request /\ request \in [Clients -> Request]
      /\ surface \in [label: Revisions, since: Revisions] /\ lock \in Clients \cup {None}
  BY DEF McpTypeOK
<1>2. /\ surface.label \in Nat /\ surface.since \in Nat /\ revision \in Nat
      /\ x.arrived \in Nat /\ x.noted \in Nat /\ x.got \in Nat /\ revision \in Revisions
  BY <1>1, RevisionAssumption DEF Request, Revisions, RegistryTypeOK
<1>3. /\ surface.label <= surface.since /\ surface.since <= revision
      /\ x.arrived <= x.noted /\ x.noted <= revision
      /\ x.pc = "serve" => x.stuck \/ surface.since >= x.arrived
      /\ x.pc = "served" => x.stuck \/ x.got >= x.arrived
  BY DEF McpInv
<1>s. UNCHANGED <<surface, lock>> =>
         /\ surface' \in [label: Revisions, since: Revisions] /\ lock' \in Clients \cup {None}
         /\ surface'.label <= surface'.since /\ surface'.since <= revision
         /\ surface.since <= surface'.since /\ surface'.since = surface.since
  BY <1>1, <1>2, <1>3
<1>4. CASE Arrive(c)
  <2> DEFINE y == [pc |-> "compare", arrived |-> revision, noted |-> revision, stuck |-> FALSE,
                   got |-> 0]
  <2>1. /\ y \in Request /\ y.pc = "compare" /\ y.arrived = revision /\ y.noted = revision
    BY <1>2, RevisionAssumption DEF Request, RequestPc, Revisions
  <2>2. request' = [request EXCEPT ![c] = y] /\ UNCHANGED <<surface, lock>>
    BY <1>4 DEF Arrive
  <2> HIDE DEF y
  <2>3. /\ y.arrived <= y.noted /\ y.noted <= revision
        /\ y.pc \notin {"serve", "served"}
    BY <1>2, <2>1
  <2> QED
    BY <1>s, <2>1, <2>2, <2>3, McpStep
<1>5. CASE Compare(c)
  <2> DEFINE y == [x EXCEPT !.pc = IF x.noted = surface.label THEN "serve" ELSE "lock"]
  <2>1. /\ y \in Request /\ y.arrived = x.arrived /\ y.noted = x.noted
        /\ y.pc = (IF x.noted = surface.label THEN "serve" ELSE "lock")
    BY <1>1 DEF Request, RequestPc
  <2>2. request' = [request EXCEPT ![c] = y] /\ UNCHANGED <<surface, lock>>
    BY <1>5 DEF Compare, To
  <2> HIDE DEF y
  <2>3. /\ y.arrived <= y.noted /\ y.noted <= revision
        /\ y.pc = "serve" => surface.since >= y.arrived
        /\ y.pc # "served"
    BY <1>2, <1>3, <2>1
  <2> QED
    BY <1>s, <2>1, <2>2, <2>3, McpStep
<1>6. CASE Rebuild(c) /\ revision = surface.label
  <2> DEFINE y == [x EXCEPT !.pc = "serve"]
  <2>1. /\ y \in Request /\ y.arrived = x.arrived /\ y.noted = x.noted /\ y.pc = "serve"
    BY <1>1 DEF Request, RequestPc
  <2>2. request' = [request EXCEPT ![c] = y] /\ UNCHANGED <<surface, lock>>
    BY <1>6 DEF Rebuild, To
  <2> HIDE DEF y
  <2>3. /\ y.arrived <= y.noted /\ y.noted <= revision
        /\ surface.since >= y.arrived /\ y.pc # "served"
    BY <1>2, <1>3, <1>6, <2>1
  <2> QED
    BY <1>s, <2>1, <2>2, <2>3, McpStep
<1>7. CASE Rebuild(c) /\ revision # surface.label
  <2> DEFINE y == [x EXCEPT !.pc = "build", !.noted = revision]
  <2>1. /\ y \in Request /\ y.arrived = x.arrived /\ y.noted = revision /\ y.pc = "build"
    BY <1>1, <1>2 DEF Request, RequestPc
  <2>2. request' = [request EXCEPT ![c] = y] /\ lock' = c /\ UNCHANGED surface
    BY <1>7 DEF Rebuild
  <2> HIDE DEF y
  <2>3. /\ y.arrived <= y.noted /\ y.noted <= revision
        /\ y.pc \notin {"serve", "served"}
    BY <1>2, <1>3, <2>1
  <2>4. /\ surface' \in [label: Revisions, since: Revisions] /\ lock' \in Clients \cup {None}
        /\ surface'.label <= surface'.since /\ surface'.since <= revision
        /\ surface.since <= surface'.since
    BY <1>1, <1>2, <1>3, <2>2
  <2> QED
    BY <2>1, <2>2, <2>3, <2>4, McpStep
<1>8. CASE Build(c) /\ Servable
  <2> DEFINE y == [x EXCEPT !.pc = "serve", !.stuck = FALSE]
             u == [label |-> x.noted, since |-> revision]
  <2>1. /\ y \in Request /\ y.arrived = x.arrived /\ y.noted = x.noted /\ y.pc = "serve"
        /\ u \in [label: Revisions, since: Revisions]
        /\ u.label = x.noted /\ u.since = revision
    BY <1>1, <1>2 DEF Request, RequestPc
  <2>2. request' = [request EXCEPT ![c] = y] /\ lock' = None /\ surface' = u
    BY <1>8 DEF Build, Labelled
  <2> HIDE DEF y, u
  <2>3. /\ y.arrived <= y.noted /\ y.noted <= revision
        /\ u.label <= u.since /\ u.since <= revision /\ surface.since <= u.since
        /\ u.since >= y.arrived /\ y.pc # "served"
    BY <1>2, <1>3, <2>1
  <2>4. /\ surface' \in [label: Revisions, since: Revisions] /\ lock' \in Clients \cup {None}
        /\ surface'.label <= surface'.since /\ surface'.since <= revision
        /\ surface.since <= surface'.since /\ surface'.since >= y.arrived
    BY <2>1, <2>2, <2>3
  <2>5. y.pc # "served" /\ request' = [request EXCEPT ![c] = y]
    BY <2>2, <2>3
  <2> QED
    BY <2>1, <2>3, <2>4, <2>5, McpStep
<1>9. CASE Build(c) /\ ~Servable
  <2> DEFINE y == [x EXCEPT !.pc = "serve", !.stuck = TRUE]
  <2>1. /\ y \in Request /\ y.arrived = x.arrived /\ y.noted = x.noted /\ y.pc = "serve"
        /\ y.stuck
    BY <1>1 DEF Request, RequestPc
  <2>2. request' = [request EXCEPT ![c] = y] /\ lock' = None /\ surface' = surface
    BY <1>9 DEF Build
  <2> HIDE DEF y
  <2>3. /\ y.arrived <= y.noted /\ y.noted <= revision /\ y.pc # "served"
    BY <1>3, <2>1
  <2>4. /\ surface' \in [label: Revisions, since: Revisions] /\ lock' \in Clients \cup {None}
        /\ surface'.label <= surface'.since /\ surface'.since <= revision
        /\ surface.since <= surface'.since
    BY <1>1, <1>2, <1>3, <2>2
  <2> QED
    BY <2>1, <2>2, <2>3, <2>4, McpStep
<1>10. CASE Serve(c)
  <2> DEFINE y == [x EXCEPT !.pc = "served", !.got = surface.since]
  <2>1. /\ y \in Request /\ y.arrived = x.arrived /\ y.noted = x.noted /\ y.pc = "served"
        /\ y.stuck = x.stuck /\ y.got = surface.since /\ x.pc = "serve"
    BY <1>1, <1>10 DEF Request, RequestPc, Serve, At
  <2>2. request' = [request EXCEPT ![c] = y] /\ UNCHANGED <<surface, lock>>
    BY <1>10 DEF Serve
  <2> HIDE DEF y
  <2>3. /\ y.arrived <= y.noted /\ y.noted <= revision /\ y.pc # "serve"
        /\ y.stuck \/ y.got >= y.arrived
    BY <1>3, <2>1
  <2> QED
    BY <1>s, <2>1, <2>2, <2>3, McpStep
<1> QED
  BY <1>4, <1>5, <1>6, <1>7, <1>8, <1>9, <1>10

-----------------------------------------------------------------------------
(* The agent run: types.                                                   *)

\* A step is taken within the limit.
StepInv ==
  /\ at = "tools" => step <= limit
  /\ at \in {"open", "stream"} /\ purpose = "turn" => step <= limit

LEMMA AgentStart == ASSUME AgentInit PROVE AgentTypeOK /\ StepInv
<1>1. PlanTypeOK /\ ToolTypeOK
  BY EmptySeq DEF AgentInit, PlanTypeOK, ToolTypeOK, Catalog, Quiet
<1>2. 1 \in 1..(MaxSteps + 1) /\ 0 \in 0..MaxSteps /\ 1 \in 1..MaxAttempts /\ 0 \in 0..MaxContinue
  BY LimitsAssumption
<1>3. StepTypeOK
  BY <1>2 DEF AgentInit, StepTypeOK
<1>4. <<>> \in Tokens /\ "turn" \in Purposes
  BY EmptySeq DEF Tokens, Purposes
<1>5. /\ purpose \in Purposes /\ attempt \in 1..MaxAttempts /\ rounds \in 0..MaxContinue
      /\ content \in Tokens /\ shown \in Tokens /\ hidden \in Tokens /\ cut \in Tokens
      /\ answer \in Tokens
  BY <1>2, <1>4 DEF AgentInit
<1>6. piece \in Nat /\ next \in Nat \ {0}
  BY DEF AgentInit
<1>a. leaked \in BOOLEAN /\ discarding \in BOOLEAN
  BY DEF AgentInit
<1>7. CallTypeOK /\ ViewTypeOK
  BY <1>5, <1>6, <1>a DEF CallTypeOK, ViewTypeOK
<1> QED
  BY <1>1, <1>3, <1>7 DEF AgentInit, AgentTypeOK, StepInv

\* What a step leaves alone keeps its type.
LEMMA Untouched ==
  ASSUME AgentTypeOK
  PROVE  /\ UNCHANGED planVars => PlanTypeOK'
         /\ UNCHANGED stepVars => StepTypeOK'
         /\ UNCHANGED callVars => CallTypeOK'
         /\ UNCHANGED toolVars => ToolTypeOK'
         /\ UNCHANGED viewVars => ViewTypeOK'
<1>1. UNCHANGED planVars => PlanTypeOK'
  BY DEF AgentTypeOK, PlanTypeOK, planVars, Catalog, Tool
<1>2. UNCHANGED stepVars => StepTypeOK'
  BY DEF AgentTypeOK, StepTypeOK, stepVars
<1>3. UNCHANGED callVars => CallTypeOK'
  BY DEF AgentTypeOK, CallTypeOK, callVars, Purposes, Tokens
<1>4. UNCHANGED toolVars => ToolTypeOK'
  BY DEF AgentTypeOK, ToolTypeOK, toolVars, Reply
<1>5. UNCHANGED viewVars => ViewTypeOK'
  BY DEF AgentTypeOK, ViewTypeOK, viewVars, Tokens
<1> QED
  BY <1>1, <1>2, <1>3, <1>4, <1>5

\* MaxStepsForPlan stays within the configured maximum.
LEMMA StepsWithinLimit ==
  ASSUME NEW steps \in StepsFor, NEW b \in BOOLEAN
  PROVE  StepsForPlan(steps, b) \in 0..MaxSteps
BY LimitsAssumption DEF StepsFor, StepsForPlan, AtMost, AtLeast

LEMMA TextType == ASSUME AgentTypeOK PROVE Text \in Tokens
BY AppendProperties DEF AgentTypeOK, CallTypeOK, Text, Tokens

LEMMA StartType ==
  ASSUME RegistryTypeOK, AgentTypeOK, StepInv, Start PROVE AgentTypeOK' /\ StepInv'
<1>1. PlanTypeOK' /\ limit' \in 0..MaxSteps
  <2>1. PICK writes \in BOOLEAN, web \in BOOLEAN, selected \in SUBSET Routed, steps \in StepsFor :
          /\ policy' = [writes |-> writes, web |-> web]
          /\ pinned' = Snapshot(Allowed(writes) \ (Routed \ selected))
          /\ limit' = StepsForPlan(steps, web)
    BY DEF Start
  <2> QED
    BY <2>1, StepsWithinLimit DEF PlanTypeOK, Snapshot, Catalog, RegistryTypeOK
<1>2. StepTypeOK'
  BY <1>1 DEF Start, AgentTypeOK, StepTypeOK
<1>3. CallTypeOK' /\ ToolTypeOK' /\ ViewTypeOK'
  BY Untouched DEF Start
<1> QED
  BY <1>1, <1>2, <1>3 DEF Start, AgentTypeOK, StepInv

\* A call that begins.
LEMMA CallStarts ==
  ASSUME AgentTypeOK, NEW p \in Purposes, Call(p),
         /\ content' \in Tokens /\ rounds' \in 0..MaxContinue /\ leaked' \in BOOLEAN
         /\ discarding' \in BOOLEAN /\ next' = next
  PROVE  CallTypeOK' /\ at' = "open" /\ purpose' = p
BY LimitsAssumption DEF AgentTypeOK, CallTypeOK, Call, Tokens, Purposes

LEMMA ConclusionStarts ==
  ASSUME AgentTypeOK, NEW p \in Purposes, Conclude(p), next' = next
  PROVE  CallTypeOK' /\ at' = "open" /\ purpose' = p
<1>1. <<>> \in Tokens /\ 0 \in 0..MaxContinue
  BY EmptySeq, LimitsAssumption DEF Tokens
<1> QED
  BY <1>1, CallStarts DEF Conclude, NewCall

\* Deadlines, control and the calls that begin.
LEMMA CallType ==
  ASSUME AgentTypeOK, StepInv,
         Expire \/ Abort \/ Turn \/ LimitReached \/ Retry \/ Open \/ ToolCallDelta
  PROVE  AgentTypeOK' /\ StepInv'
<1>1. CASE Expire
  BY <1>1, Untouched DEF Expire, AgentTypeOK, StepInv, stepVars, callVars, Ends
<1>2. CASE Abort
  BY <1>2, Untouched DEF Abort, AgentTypeOK, StepInv, Ends
<1>3. CASE Turn
  <2>1. CallTypeOK' /\ at' = "open" /\ purpose' = "turn"
    BY <1>3, ConclusionStarts DEF Turn, Conclude, Purposes
  <2> QED
    BY <1>3, <2>1, Untouched DEF Turn, AgentTypeOK, StepInv, stepVars
<1>4. CASE LimitReached
  <2>1. CallTypeOK' /\ at' = "open" /\ purpose' = "conclude"
    BY <1>4, ConclusionStarts DEF LimitReached, Purposes, Tries
  <2> QED
    BY <1>4, <2>1, Untouched DEF LimitReached, AgentTypeOK, StepInv
<1>5. CASE Retry
  <2>a. attempt' \in 1..MaxAttempts /\ piece' \in Nat
    BY <1>5, LimitsAssumption DEF Retry, AgentTypeOK, CallTypeOK
  <2>1. CallTypeOK'
    BY <1>5, <2>a DEF Retry, AgentTypeOK, CallTypeOK
  <2> QED
    BY <1>5, <2>1, Untouched DEF Retry, Retriable, AgentTypeOK, StepInv, stepVars
<1>6. CASE Open
  <2>a. attempt' \in 1..MaxAttempts
    BY <1>6, LimitsAssumption DEF Open
  <2>1. CallTypeOK'
    BY <1>6, <2>a DEF Open, AgentTypeOK, CallTypeOK
  <2> QED
    BY <1>6, <2>1, Untouched DEF Open, AgentTypeOK, StepInv, stepVars
<1>7. CASE ToolCallDelta
  <2>1. CallTypeOK'
    BY <1>7 DEF ToolCallDelta, AgentTypeOK, CallTypeOK
  <2> QED
    BY <1>7, <2>1, Untouched DEF ToolCallDelta, AgentTypeOK, StepInv, stepVars
<1> QED
  BY <1>1, <1>2, <1>3, <1>4, <1>5, <1>6, <1>7

\* The text of a call, its failure, and what follows it.
LEMMA TextStepType ==
  ASSUME AgentTypeOK, StepInv,
         Token \/ Fail \/ AskTools \/ Continue \/ NoText \/ AnswerTurn \/ Refuse \/ Publish
  PROVE  AgentTypeOK' /\ StepInv'
<1>0. /\ Text \in Tokens /\ <<>> \in Tokens /\ content \in Tokens
      /\ shown \in Tokens /\ hidden \in Tokens /\ cut \in Tokens /\ answer \in Tokens
      /\ \A s \in Tokens : \A n \in Nat \ {0} : Append(s, n) \in Tokens
      /\ \A s, t \in Tokens : s \o t \in Tokens
      /\ piece \in Nat /\ next \in Nat \ {0}
  BY TextType, EmptySeq, AppendProperties, ConcatProperties
     DEF AgentTypeOK, CallTypeOK, ViewTypeOK, Tokens
<1>1. CASE Token
  <2>1. piece' \in Nat /\ next' \in Nat \ {0}
    BY <1>0, <1>1 DEF Token
  <2>2. CallTypeOK'
    BY <1>1, <2>1 DEF Token, AgentTypeOK, CallTypeOK
  <2>3. ViewTypeOK'
    BY <1>0, <1>1 DEF Token, ViewTypeOK
  <2> QED
    BY <1>1, <2>2, <2>3, Untouched DEF Token, AgentTypeOK, StepInv, stepVars
<1>2. CASE Fail
  <2>1. CallTypeOK' /\ (at' = "open" => purpose' = "conclude")
    <3>1. CASE purpose = "turn" /\ late # "no"
      BY <1>2, <3>1, ConclusionStarts DEF Fail, Purposes, Tries
    <3>2. CASE ~(purpose = "turn" /\ late # "no")
      BY <1>2, <3>2 DEF Fail, AgentTypeOK, CallTypeOK
    <3> QED
      BY <3>1, <3>2
  <2>2. at' \in {"open", "failed", "error"}
    BY <1>2 DEF Fail, Conclude, NewCall, Call
  <2>3. cut' \in Tokens /\ answer' \in Tokens /\ shown' \in Tokens /\ hidden' \in Tokens
    BY <1>0, <1>2 DEF Fail
  <2> QED
    BY <1>2, <2>1, <2>2, <2>3, Untouched DEF Fail, AgentTypeOK, ViewTypeOK, StepInv, Ends
<1>3. CASE AskTools
  <2>1. CallTypeOK'
    BY <1>3 DEF AskTools, AgentTypeOK, CallTypeOK
  <2>2. ToolTypeOK'
    <3>1. asked' \in Seq(Calls)
      BY <1>3 DEF AskTools
    <3> QED
      BY <1>3, <3>1 DEF AskTools, AgentTypeOK, ToolTypeOK, Quiet, Reply
  <2>3. ViewTypeOK'
    BY <1>0, <1>3 DEF AskTools, ViewTypeOK
  <2> QED
    BY <1>3, <2>1, <2>2, <2>3, Untouched DEF AskTools, AgentTypeOK, StepInv, stepVars
<1>4. CASE Continue
  <2>1. /\ attempt' \in 1..MaxAttempts /\ piece' \in Nat /\ rounds' \in 0..MaxContinue
        /\ purpose' \in Purposes
    BY <1>4, LimitsAssumption DEF Continue, AgentTypeOK, CallTypeOK, Purposes
  <2>2. leaked' \in BOOLEAN
    BY <1>4 DEF Continue
  <2>3. CallTypeOK'
    BY <1>0, <1>4, <2>1, <2>2 DEF Continue, AgentTypeOK, CallTypeOK
  <2> QED
    BY <1>4, <2>3, Untouched DEF Continue, AgentTypeOK, StepInv
<1>5. CASE NoText
  <2>1. CallTypeOK' /\ (at' = "open" => purpose' = "no reasoning") /\ at' \in {"open", "error"}
    <3>1. CASE purpose = "conclude"
      BY <1>5, <3>1, ConclusionStarts DEF NoText, Purposes, Tries
    <3>2. CASE purpose # "conclude"
      BY <1>5, <3>2 DEF NoText, AgentTypeOK, CallTypeOK
    <3> QED
      BY <3>1, <3>2
  <2> QED
    BY <1>5, <2>1, Untouched DEF NoText, AgentTypeOK, StepInv, Ends
<1>6. CASE AnswerTurn
  BY <1>0, <1>6, Untouched DEF AnswerTurn, AgentTypeOK, ViewTypeOK, StepInv, Ends
<1>7. CASE Refuse
  <2>1. CallTypeOK' /\ (at' = "open" => purpose' = "repair") /\ at' \in {"open", "error"}
    <3>1. CASE purpose # "repair"
      BY <1>7, <3>1, ConclusionStarts DEF Refuse, Purposes, Tries
    <3>2. CASE purpose = "repair"
      BY <1>7, <3>2 DEF Refuse, AgentTypeOK, CallTypeOK
    <3> QED
      BY <3>1, <3>2
  <2> QED
    BY <1>7, <2>1, Untouched DEF Refuse, AgentTypeOK, StepInv, Ends
<1>8. CASE Publish
  BY <1>0, <1>8, Untouched DEF Publish, AgentTypeOK, ViewTypeOK, StepInv, Ends
<1> QED
  BY <1>1, <1>2, <1>3, <1>4, <1>5, <1>6, <1>7, <1>8

LEMMA ObservedType ==
  ASSUME AgentTypeOK, NEW c \in Calls, NEW found \in BOOLEAN
  PROVE  /\ Observed(c, found) \in [evidence: BOOLEAN, tried: BOOLEAN, found: BOOLEAN]
         /\ [Observed(c, found) EXCEPT !.evidence = TRUE]
              \in [evidence: BOOLEAN, tried: BOOLEAN, found: BOOLEAN]
BY DEF AgentTypeOK, ToolTypeOK, Observed

\* The tool calls of a step.
LEMMA ToolStepType ==
  ASSUME AgentTypeOK, StepInv, NEW c \in Calls, ToolError(c) \/ Repeat(c) \/ RunTool(c)
  PROVE  AgentTypeOK' /\ StepInv'
<1>1. /\ at = "tools" /\ at' = at /\ UNCHANGED <<planVars, stepVars, callVars, viewVars, late>>
      /\ asked # <<>> /\ asked' = Tail(asked)
  BY DEF ToolError, Repeat, RunTool, Answered, Ready
<1>2. asked' \in Seq(Calls)
  BY <1>1, HeadTailProperties DEF AgentTypeOK, ToolTypeOK
<1>3. turn' \in [evidence: BOOLEAN, tried: BOOLEAN, found: BOOLEAN]
  <2>1. turn \in [evidence: BOOLEAN, tried: BOOLEAN, found: BOOLEAN]
    BY DEF AgentTypeOK, ToolTypeOK
  <2>2. \A found \in BOOLEAN :
          /\ Observed(c, found) \in [evidence: BOOLEAN, tried: BOOLEAN, found: BOOLEAN]
          /\ [Observed(c, found) EXCEPT !.evidence = TRUE]
               \in [evidence: BOOLEAN, tried: BOOLEAN, found: BOOLEAN]
    BY ObservedType
  <2>3. ASSUME ToolError(c) \/ Repeat(c)
        PROVE  turn' \in [evidence: BOOLEAN, tried: BOOLEAN, found: BOOLEAN]
    <3>1. \E found \in BOOLEAN : turn' = Observed(c, found)
      <4>1. ASSUME ToolError(c)
            PROVE  turn' = Observed(c, FALSE)
        BY <4>1, Zenon DEF ToolError
      <4>2. ASSUME Repeat(c)
            PROVE  \E found \in BOOLEAN : turn' = Observed(c, found)
        BY <4>2, Zenon DEF Repeat
      <4> QED
        BY <2>3, <4>1, <4>2
    <3> QED
      BY <2>2, <3>1, Zenon
  <2>4. ASSUME RunTool(c)
        PROVE  turn' \in [evidence: BOOLEAN, tried: BOOLEAN, found: BOOLEAN]
    <3>1. \E found \in BOOLEAN : turn' = [Observed(c, found) EXCEPT !.evidence = TRUE]
      BY <2>4, Zenon DEF RunTool
    <3> QED
      BY <2>2, <3>1
  <2> QED
    BY <2>3, <2>4
<1>4. seen' \subseteq Calls
  BY DEF ToolError, Repeat, RunTool, Remembered, AgentTypeOK, ToolTypeOK
<1>5. replies' \subseteq Reply
  <2>1. CASE ToolError(c)
    BY <2>1 DEF ToolError, Answered, AgentTypeOK, ToolTypeOK
  <2>2. CASE Repeat(c)
    <3>1. [call |-> c, kind |-> "repeat", since |-> 0] \in Reply
      BY RevisionAssumption DEF Reply
    <3> QED
      BY <2>2, <3>1 DEF Repeat, Answered, AgentTypeOK, ToolTypeOK
  <2>3. CASE RunTool(c)
    <3>1. pinned[c.tool] \in Tool
      BY <2>3, CallsAssumption DEF RunTool, Known, Handler, AgentTypeOK, PlanTypeOK, Catalog
    <3>2. [call |-> c, kind |-> "result", since |-> Handler(c).since] \in Reply
      BY <3>1 DEF Reply, Handler, Tool
    <3> QED
      BY <2>3, <3>2 DEF RunTool, Answered, AgentTypeOK, ToolTypeOK
  <2> QED
    BY <2>1, <2>2, <2>3
<1> QED
  BY <1>1, <1>2, <1>3, <1>4, <1>5, Untouched
     DEF AgentTypeOK, ToolTypeOK, StepInv, stepVars

LEMMA EndStepType ==
  ASSUME AgentTypeOK, StepInv, EndStep PROVE AgentTypeOK' /\ StepInv'
<1>1. EvidenceLimit \in 0..MaxSteps /\ WebLimit(EvidenceLimit) \in 0..MaxSteps
  BY LimitsAssumption DEF EvidenceLimit, WebLimit, AgentTypeOK, StepTypeOK
<1>2. step' \in 1..(MaxSteps + 1) /\ limit' \in 0..MaxSteps
  BY <1>1, LimitsAssumption DEF EndStep, AgentTypeOK, StepTypeOK, StepInv
<1>3. extended' \in BOOLEAN
  BY DEF EndStep
<1> QED
  BY <1>2, <1>3, Untouched DEF EndStep, AgentTypeOK, StepTypeOK, StepInv

LEMMA AgentTypes ==
  ASSUME RegistryTypeOK, AgentTypeOK, StepInv, AgentNext
  PROVE  AgentTypeOK' /\ StepInv'
BY StartType, CallType, TextStepType, ToolStepType, EndStepType DEF AgentNext

-----------------------------------------------------------------------------
(* The agent run: what its user was shown.                                 *)

\* While a turn or its continuation runs, the user has seen exactly its text so
\* far up to what was discarded; while the run concludes, only what a failed turn
\* left behind.
ShownInv ==
  /\ at \in {"start", "control", "tools"} =>
       shown = <<>> /\ hidden = <<>> /\ cut = <<>> /\ answer = <<>>
  /\ at = "open" => piece = 0
  /\ at \in {"open", "stream"} =>
       /\ answer = <<>>
       /\ InLoop => cut = <<>> /\ shown \o hidden = Text
       /\ purpose = "turn" => content = <<>>
       /\ ~InLoop => shown = cut /\ hidden = <<>>
  /\ ShownIsRecorded

LEMMA TokenSequences ==
  /\ \A s \in Tokens : s \o <<>> = s /\ <<>> \o s = s
  /\ \A s \in Tokens : \A n \in Nat \ {0} : Append(s, n) = s \o Append(<<>>, n)
  /\ <<>> \in Tokens
  /\ \A s, t \in Tokens : s \o t \in Tokens
  /\ \A s, t \in Tokens : \A n \in Nat \ {0} : s \o Append(t, n) = Append(s \o t, n)
<1>1. \A s \in Tokens : s \o <<>> = s /\ <<>> \o s = s
  BY ConcatEmptySeq DEF Tokens
<1>2. ASSUME NEW s \in Tokens, NEW n \in Nat \ {0} PROVE Append(s, n) = s \o Append(<<>>, n)
  <2>1. Append(s, n) = s \o <<n>>
    BY AppendIsConcat DEF Tokens
  <2>2. Append(<<>>, n) = <<>> \o <<n>> /\ <<n>> \in Tokens
    BY AppendIsConcat, EmptySeq DEF Tokens
  <2> QED
    BY <1>1, <2>1, <2>2
<1>3. <<>> \in Tokens
  BY EmptySeq DEF Tokens
<1>4. \A s, t \in Tokens : s \o t \in Tokens
  BY ConcatProperties DEF Tokens
<1>5. ASSUME NEW s \in Tokens, NEW t \in Tokens, NEW n \in Nat \ {0}
      PROVE  s \o Append(t, n) = Append(s \o t, n)
  <2> DEFINE u == Append(<<>>, n)
  <2>1. u \in Tokens
    BY <1>3, AppendProperties DEF Tokens
  <2>2. Append(t, n) = t \o u /\ Append(s \o t, n) = (s \o t) \o u
    BY <1>2, <1>4
  <2> HIDE DEF u
  <2>3. (s \o t) \o u = s \o (t \o u)
    BY <2>1, ConcatAssociative DEF Tokens
  <2> QED
    BY <2>2, <2>3
<1> QED
  BY <1>1, <1>2, <1>3, <1>4, <1>5

LEMMA ShownStart == ASSUME AgentInit PROVE ShownInv
BY DEF AgentInit, ShownInv, ShownIsRecorded, Ends

\* The steps that show nothing and end no call.
LEMMA ShownKept ==
  ASSUME AgentTypeOK, ShownInv, Start \/ Expire \/ Retry \/ Open \/ ToolCallDelta \/ EndStep
  PROVE  ShownInv'
<1>1. CASE Start
  BY <1>1 DEF Start, ShownInv, ShownIsRecorded, viewVars, callVars, Ends
<1>2. CASE Expire
  BY <1>2 DEF Expire, ShownInv, ShownIsRecorded, viewVars, callVars, Text, InLoop, Ends
<1>3. CASE Retry
  BY <1>3 DEF Retry, Retriable, ShownInv, ShownIsRecorded, viewVars, Text, InLoop, Ends
<1>4. CASE Open
  BY <1>4 DEF Open, ShownInv, ShownIsRecorded, viewVars, Text, InLoop, Ends
<1>5. CASE EndStep
  BY <1>5 DEF EndStep, ShownInv, ShownIsRecorded, viewVars, callVars, Ends
<1>6. CASE ToolCallDelta
  BY <1>6 DEF ToolCallDelta, ShownInv, ShownIsRecorded, viewVars, Text, InLoop, Ends
<1> QED
  BY <1>1, <1>2, <1>3, <1>4, <1>5, <1>6

\* Calls that begin, and the abort before one.
LEMMA ShownCalls ==
  ASSUME AgentTypeOK, ShownInv, Turn \/ LimitReached \/ Abort \/ AskTools
  PROVE  ShownInv'
<1>1. CASE Turn
  BY <1>1, TokenSequences
     DEF Turn, NewCall, Call, ShownInv, ShownIsRecorded, viewVars, Text, InLoop, Ends
<1>2. CASE LimitReached
  BY <1>2 DEF LimitReached, Conclude, NewCall, Call, ShownInv, ShownIsRecorded, viewVars, Text,
              InLoop, Ends
<1>3. CASE Abort
  BY <1>3, TokenSequences DEF Abort, ShownInv, ShownIsRecorded, viewVars, callVars, Ends
<1>4. CASE AskTools
  BY <1>4 DEF AskTools, ShownInv, ShownIsRecorded, InLoop, Ends
<1> QED
  BY <1>1, <1>2, <1>3, <1>4

\* The text of a call, and its continuation.
LEMMA ShownText ==
  ASSUME AgentTypeOK, ShownInv, Token \/ Continue PROVE ShownInv'
<1>1. CASE Token
  <2>1. /\ next \in Nat \ {0} /\ shown \in Tokens /\ hidden \in Tokens
        /\ at = "stream" /\ piece = 0 /\ piece' = next
        /\ UNCHANGED <<at, purpose, content, discarding, cut, answer>>
    BY <1>1 DEF Token, AgentTypeOK, CallTypeOK, ViewTypeOK
  <2>2. CASE ~InLoop
    BY <1>1, <2>1, <2>2 DEF Token, Forwarded, ShownInv, ShownIsRecorded, InLoop, Ends
  <2>3. CASE InLoop
    <3>1. shown \o hidden = content /\ Text' = Append(content, next)
      BY <2>1, <2>3 DEF ShownInv, Text
    <3>2. CASE discarding
      <4>1. shown' = shown /\ hidden' = Append(hidden, next)
        BY <1>1, <2>3, <3>2 DEF Token, Forwarded
      <4>2. shown' \o hidden' = Text'
        BY <2>1, <3>1, <4>1, TokenSequences
      <4> QED
        BY <2>1, <2>3, <3>2, <4>2 DEF ShownInv, ShownIsRecorded, InLoop, Ends
    <3>3. CASE ~discarding
      <4>1. shown' = Append(shown, next) /\ hidden' = <<>> /\ hidden = <<>>
        BY <1>1, <2>3, <3>3 DEF Token, Forwarded, ShownInv, ShownIsRecorded
      <4>2. Append(shown, next) \in Tokens /\ shown = content
        BY <2>1, <3>1, <4>1, TokenSequences, AppendProperties DEF Tokens
      <4>3. shown' \o hidden' = Text'
        BY <3>1, <4>1, <4>2, TokenSequences
      <4> QED
        BY <2>1, <2>3, <4>1, <4>3 DEF ShownInv, ShownIsRecorded, InLoop, Ends
    <3> QED
      BY <3>2, <3>3
  <2> QED
    BY <2>2, <2>3
<1>2. CASE Continue
  <2>1. Text' = Text
    BY <1>2 DEF Continue, Text
  <2>2. InLoop' = InLoop /\ purpose' # "turn"
    BY <1>2 DEF Continue, InLoop
  <2> QED
    BY <1>2, <2>1, <2>2 DEF Continue, ShownInv, ShownIsRecorded, viewVars, Ends
<1> QED
  BY <1>1, <1>2

\* A failed call: its text stays with the user, and is no part of the answer.
LEMMA ShownFail == ASSUME AgentTypeOK, ShownInv, Fail PROVE ShownInv'
<1>0. /\ content \in Tokens /\ cut \in Tokens /\ answer \in Tokens /\ piece \in Nat
      /\ shown \in Tokens /\ hidden \in Tokens
      /\ shown' = shown /\ at \in {"open", "stream"} /\ answer = <<>>
  BY DEF Fail, AgentTypeOK, CallTypeOK, ViewTypeOK, ShownInv
<1>1. CASE purpose = "turn" /\ late # "no"
  <2>1. /\ at' = "open" /\ purpose' = "conclude" /\ piece' = 0 /\ answer' = <<>>
        /\ shown = cut' /\ hidden' = <<>>
    BY <1>0, <1>1 DEF Fail, Conclude, NewCall, Call
  <2> QED
    BY <1>0, <2>1 DEF ShownInv, ShownIsRecorded, InLoop, Ends
<1>2. CASE ~(purpose = "turn" /\ late # "no")
  <2>1. at' \in {"failed", "error"} /\ hidden' = hidden /\ discarding' = discarding
    BY <1>2 DEF Fail
  <2>2. /\ answer' = IF purpose = "more" THEN content ELSE <<>>
        /\ cut' = IF piece # 0 /\ InLoop THEN Append(cut, piece) ELSE cut
    BY <1>0, <1>2 DEF Fail
  <2>3. shown \o hidden = answer' \o cut'
    <3>1. CASE ~InLoop
      BY <1>0, <2>2, <3>1, TokenSequences DEF ShownInv, InLoop
    <3>2. CASE InLoop /\ piece = 0
      BY <1>0, <2>2, <3>2, TokenSequences DEF ShownInv, InLoop, Text
    <3>3. CASE InLoop /\ piece # 0
      <4>1. shown \o hidden = content \o Append(<<>>, piece) /\ cut' = Append(<<>>, piece)
        BY <1>0, <2>2, <3>3, TokenSequences DEF ShownInv, Text
      <4>2. answer' = content
        BY <1>0, <2>2, <3>3 DEF ShownInv, InLoop
      <4> QED
        BY <4>1, <4>2
    <3> QED
      BY <3>1, <3>2, <3>3
  <2> QED
    BY <1>0, <2>1, <2>3 DEF ShownInv, ShownIsRecorded, Ends
<1> QED
  BY <1>1, <1>2

\* What a finished call that asks for no tool leads to.
LEMMA ShownEnds ==
  ASSUME AgentTypeOK, ShownInv, NoText \/ AnswerTurn \/ Refuse \/ Publish PROVE ShownInv'
<1>0. /\ shown \in Tokens /\ hidden \in Tokens /\ cut \in Tokens /\ Text \in Tokens
      /\ answer = <<>> /\ at = "stream"
  BY TextType DEF AgentTypeOK, ViewTypeOK, NoText, AnswerTurn, Refuse, Publish, ShownInv
<1>1. ASSUME at' = "open", purpose' \in Tries, piece' = 0, ~InLoop, UNCHANGED viewVars
      PROVE  ShownInv'
  BY <1>0, <1>1 DEF ShownInv, ShownIsRecorded, viewVars, InLoop, Tries, Ends
<1>2. ASSUME at' = "error", shown \o hidden = cut, UNCHANGED <<discarding, viewVars>>
      PROVE  ShownInv'
  <2>1. shown \o hidden = answer \o cut
    BY <1>0, <1>2, TokenSequences
  <2> QED
    BY <1>2, <2>1 DEF ShownInv, ShownIsRecorded, viewVars, Ends
<1>3. CASE NoText
  <2>1. shown \o hidden = cut
    BY <1>0, <1>3, TokenSequences DEF NoText, Truncated, ShownInv
  <2> QED
    BY <1>1, <1>2, <1>3, <2>1 DEF NoText, Conclude, NewCall, Call, InLoop, Tries
<1>4. CASE AnswerTurn
  <2>1. shown \o hidden = cut \o Text /\ Text # <<>>
    BY <1>0, <1>4, TokenSequences DEF AnswerTurn, Truncated, ShownInv
  <2> QED
    BY <1>4, <2>1 DEF AnswerTurn, ShownInv, ShownIsRecorded, callVars, Ends
<1>5. CASE Refuse
  <2>1. shown \o hidden = cut
    BY <1>0, <1>5, TokenSequences DEF Refuse, ShownInv
  <2> QED
    BY <1>1, <1>2, <1>5, <2>1 DEF Refuse, Conclude, NewCall, Call, Tries
<1>6. CASE Publish
  <2>1. shown = cut /\ hidden = <<>> /\ Text # <<>>
    BY <1>0, <1>6 DEF Publish, Truncated, ShownInv
  <2>2. shown' \o hidden' = cut \o Text /\ (hidden' # <<>> => discarding)
    <3>1. CASE discarding
      BY <1>6, <2>1, <3>1 DEF Publish
    <3>2. CASE ~discarding
      BY <1>0, <1>6, <2>1, <3>2, TokenSequences DEF Publish
    <3> QED
      BY <3>1, <3>2
  <2> QED
    BY <1>6, <2>1, <2>2 DEF Publish, ShownInv, ShownIsRecorded, callVars, Ends
<1> QED
  BY <1>3, <1>4, <1>5, <1>6

\* Tool calls show nothing.
LEMMA ShownTools ==
  ASSUME AgentTypeOK, ShownInv, NEW c \in Calls, ToolError(c) \/ Repeat(c) \/ RunTool(c)
  PROVE  ShownInv'
BY DEF ToolError, Repeat, RunTool, Answered, Ready, ShownInv, ShownIsRecorded, viewVars, callVars,
       Text, InLoop, Ends

LEMMA ShownNext == ASSUME AgentTypeOK, ShownInv, AgentNext PROVE ShownInv'
BY ShownKept, ShownCalls, ShownText, ShownFail, ShownEnds, ShownTools DEF AgentNext

-----------------------------------------------------------------------------
(* The agent run: what the model may conclude from its replies.            *)

\* Every remembered call has its result in the conversation; the snapshot has
\* write tools only for a run that may propose writes.
RepliesInv ==
  /\ RepliesAreBacked
  /\ \A c \in seen : \E q \in replies : q.call = c /\ q.kind = "result"
  /\ at = "start" => replies = {}
  /\ at # "start" => \A i \in WriteIds : pinned[i] # None => policy.writes

LEMMA RepliesStart == ASSUME AgentInit PROVE RepliesInv
BY DEF AgentInit, RepliesInv, RepliesAreBacked

LEMMA RepliesOfStart == ASSUME AgentTypeOK, RepliesInv, Start PROVE RepliesInv'
<1>1. PICK writes \in BOOLEAN, web \in BOOLEAN, selected \in SUBSET Routed, steps \in StepsFor :
        /\ policy' = [writes |-> writes, web |-> web]
        /\ pinned' = Snapshot(Allowed(writes) \ (Routed \ selected))
  BY DEF Start
<1>2. \A i \in WriteIds : pinned'[i] # None => policy'.writes
  BY <1>1, IdsAssumption DEF Snapshot, Allowed
<1> QED
  BY <1>2 DEF Start, RepliesInv, RepliesAreBacked, toolVars

\* Steps that neither change the snapshot nor reply to a call.
LEMMA RepliesKept ==
  ASSUME RepliesInv, at # "start", at' # "start", UNCHANGED <<planVars, seen, replies>>
  PROVE  RepliesInv'
BY DEF RepliesInv, RepliesAreBacked, planVars

LEMMA RepliesOfTools ==
  ASSUME AgentTypeOK, RepliesInv, NEW c \in Calls, ToolError(c) \/ Repeat(c) \/ RunTool(c)
  PROVE  RepliesInv'
<1>1. at # "start" /\ at' # "start" /\ UNCHANGED <<planVars>>
  BY DEF ToolError, Repeat, RunTool, Answered, Ready
<1>2. CASE ToolError(c)
  BY <1>1, <1>2, RepliesKept DEF ToolError, Answered
<1>3. CASE Repeat(c)
  <2> DEFINE r == [call |-> c, kind |-> "repeat", since |-> 0]
  <2>1. replies' = replies \cup {r} /\ seen' = seen /\ c \in seen
    BY <1>3 DEF Repeat, Answered
  <2>2. r.call = c /\ r.kind = "repeat"
    OBVIOUS
  <2> HIDE DEF r
  <2> QED
    BY <1>1, <2>1, <2>2 DEF RepliesInv, RepliesAreBacked, planVars
<1>4. CASE RunTool(c)
  <2> DEFINE r == [call |-> c, kind |-> "result", since |-> pinned[c.tool].since]
  <2>1. replies' = replies \cup {r} /\ seen' = seen \cup {c} /\ pinned[c.tool] # None
    BY <1>4 DEF RunTool, Answered, Remembered, Handler, Known
  <2>2. r.call = c /\ r.kind = "result" /\ r.since = pinned[c.tool].since
    OBVIOUS
  <2> HIDE DEF r
  <2> QED
    BY <1>1, <2>1, <2>2 DEF RepliesInv, RepliesAreBacked, planVars
<1> QED
  BY <1>2, <1>3, <1>4

LEMMA RepliesNext == ASSUME AgentTypeOK, RepliesInv, AgentNext PROVE RepliesInv'
<1>1. CASE Start
  BY <1>1, RepliesOfStart
<1>2. ASSUME NEW c \in Calls, ToolError(c) \/ Repeat(c) \/ RunTool(c) PROVE RepliesInv'
  BY <1>2, RepliesOfTools
<1>3. CASE \/ Expire \/ Abort \/ Turn \/ LimitReached \/ EndStep \/ Retry \/ Open
           \/ ToolCallDelta \/ Token \/ Fail
  <2>1. at # "start" /\ at' # "start" /\ UNCHANGED <<planVars, seen, replies>>
    BY <1>3 DEF Expire, Abort, Turn, LimitReached, EndStep, Retry, Retriable, Open,
                ToolCallDelta, Token, Fail, Conclude, NewCall, Call, toolVars
  <2> QED
    BY <2>1, RepliesKept
<1>4. CASE AskTools \/ Continue \/ NoText \/ AnswerTurn \/ Refuse \/ Publish
  <2>1. at # "start" /\ at' # "start" /\ UNCHANGED <<planVars, seen, replies>>
    BY <1>4 DEF AskTools, Continue, NoText, AnswerTurn, Refuse, Publish, Conclude, NewCall, Call,
                toolVars
  <2> QED
    BY <2>1, RepliesKept
<1> QED
  BY <1>1, <1>2, <1>3, <1>4 DEF AgentNext

-----------------------------------------------------------------------------
(* The system.                                                             *)

IInv == TypeOK /\ McpInv /\ StepInv /\ ShownInv /\ RepliesInv

LEMMA InitInv == Init => IInv
BY RegistryStart, McpStart, AgentStart, ShownStart, RepliesStart DEF Init, IInv, TypeOK

\* A step of the run leaves the catalog and the endpoint alone.
LEMMA RunStep ==
  ASSUME IInv, AgentNext, UNCHANGED <<registryVars, mcpVars>> PROVE IInv'
<1>1. RegistryTypeOK' /\ McpTypeOK' /\ McpInv'
  BY DEF IInv, TypeOK, RegistryTypeOK, McpTypeOK, McpInv, registryVars, mcpVars, Catalog, Tool,
         Request, Revisions
<1> QED
  BY <1>1, AgentTypes, ShownNext, RepliesNext DEF IInv, TypeOK

\* The run is left alone by the others.
LEMMA RunUntouched ==
  ASSUME IInv, UNCHANGED agentVars
  PROVE  AgentTypeOK' /\ StepInv' /\ ShownInv' /\ RepliesInv'
<1>1. UNCHANGED <<at, late, planVars, stepVars, callVars, toolVars, viewVars>>
  BY DEF agentVars
<1>2. AgentTypeOK'
  BY <1>1, Untouched DEF IInv, TypeOK, AgentTypeOK
<1>3. StepInv'
  BY <1>1 DEF IInv, StepInv, stepVars, callVars
<1>4. ShownInv'
  BY <1>1 DEF IInv, ShownInv, ShownIsRecorded, viewVars, callVars, Text, InLoop
<1>5. RepliesInv'
  BY <1>1 DEF IInv, RepliesInv, RepliesAreBacked, planVars, toolVars
<1> QED
  BY <1>2, <1>3, <1>4, <1>5

LEMMA StepInvariant == IInv /\ [Next]_vars => IInv'
<1> SUFFICES ASSUME IInv, [Next]_vars PROVE IInv'
  OBVIOUS
<1>1. CASE Publication
  <2>1. PICK o \in Owners : Reconcile(o)
    BY <1>1 DEF Publication
  <2>2. RegistryTypeOK' /\ revision' = revision + 1
    BY <2>1, ReconcileType DEF IInv, TypeOK
  <2>3. McpTypeOK' /\ McpInv'
    BY <1>1, <2>2, McpPublication DEF Publication, IInv, TypeOK
  <2> QED
    BY <1>1, <2>2, <2>3, RunUntouched DEF Publication, IInv, TypeOK
<1>2. CASE McpNext /\ UNCHANGED <<registryVars, agentVars>>
  <2>1. RegistryTypeOK'
    BY <1>2 DEF IInv, TypeOK, RegistryTypeOK, registryVars, Catalog, Tool
  <2>2. McpTypeOK' /\ McpInv'
    BY <1>2, McpNextInv DEF IInv, TypeOK
  <2> QED
    BY <1>2, <2>1, <2>2, RunUntouched DEF IInv, TypeOK
<1>3. CASE AgentNext /\ UNCHANGED <<registryVars, mcpVars>>
  BY <1>3, RunStep
<1>4. CASE UNCHANGED vars
  <2>1. RegistryTypeOK' /\ McpTypeOK' /\ McpInv'
    BY <1>4 DEF vars, IInv, TypeOK, RegistryTypeOK, McpTypeOK, McpInv, registryVars, mcpVars,
                Catalog, Tool, Request, Revisions
  <2> QED
    BY <1>4, <2>1, RunUntouched DEF vars, IInv, TypeOK
<1> QED
  BY <1>1, <1>2, <1>3, <1>4 DEF Next

LEMMA Inductive == Spec => []IInv
<1> QED
  BY InitInv, StepInvariant, PTL DEF Spec

\* Type correctness of the catalog, the endpoint and the run, for any limits.
THEOREM TypeCorrect == Spec => []TypeOK
BY Inductive, PTL DEF IInv

\* No client of the MCP endpoint works with a catalog older than the one that was
\* published when its request came in, however publications and rebuilds of
\* other requests are interleaved with it.
THEOREM SurfaceCorrect == Spec => []SurfaceIsCurrent
<1>1. IInv => SurfaceIsCurrent
  BY DEF IInv, McpInv, SurfaceIsCurrent, At
<1> QED
  BY <1>1, Inductive, PTL

\* The replies of a run's conversation are backed by results of the handlers it
\* was shown, for any catalog and any calls of the model.
THEOREM RepliesCorrect == Spec => []RepliesAreBacked
<1>1. IInv => RepliesAreBacked
  BY DEF IInv, RepliesInv
<1> QED
  BY <1>1, Inductive, PTL

\* What the user was shown is what is recorded, apart from what the pipe discarded
\* once the model began a tool call, for any number of steps, of attempts and of
\* continuations.
THEOREM ShownCorrect == Spec => []ShownIsRecorded
<1>1. IInv => ShownIsRecorded
  BY DEF IInv, ShownInv
<1> QED
  BY <1>1, Inductive, PTL
-----------------------------------------------------------------------------
(* The agent run implements the abstract loop.                             *)

\* The first step is step 1; while a turn or its continuation runs, its step is
\* within the limit.
LoopInv ==
  /\ at = "start" => step = 1
  /\ at = "tools" \/ (at \in {"open", "stream"} /\ InLoop) => step <= limit

\* What the loop's phase, its turns and its ending are, place by place.
LEMMA Mapped ==
  /\ at = "start" => TurnPhase = "start" /\ TurnsTaken = step - 1 /\ TurnEnding = "none"
  /\ at = "control" /\ step <= limit =>
       TurnPhase = "poll" /\ TurnsTaken = step - 1 /\ TurnEnding = "none"
  /\ at = "control" /\ ~(step <= limit) =>
       TurnPhase = "conclude" /\ TurnsTaken = AtMost(step, limit) /\ TurnEnding = "none"
  /\ at = "tools" \/ (at \in {"open", "stream"} /\ InLoop) =>
       TurnPhase = "turn" /\ TurnsTaken = step - 1 /\ TurnEnding = "none"
  /\ at \in {"open", "stream"} /\ ~InLoop =>
       TurnPhase = "conclude" /\ TurnsTaken = AtMost(step, limit) /\ TurnEnding = "none"
  /\ at = "answered" =>
       TurnPhase = "over" /\ TurnsTaken = AtMost(step, limit) /\ TurnEnding = "done"
  /\ at \in {"failed", "error"} =>
       TurnPhase = "over" /\ TurnsTaken = AtMost(step, limit) /\ TurnEnding = "failed"
  /\ at = "aborted" => TurnPhase = "over" /\ TurnsTaken = step - 1 /\ TurnEnding = "aborted"
BY DEF TurnPhase, TurnsTaken, TurnEnding, Over, Ends

\* The same of the next state.
LEMMA MappedNext ==
  /\ at' = "start" => TurnPhase' = "start" /\ TurnsTaken' = step' - 1 /\ TurnEnding' = "none"
  /\ at' = "control" /\ step' <= limit' =>
       TurnPhase' = "poll" /\ TurnsTaken' = step' - 1 /\ TurnEnding' = "none"
  /\ at' = "control" /\ ~(step' <= limit') =>
       TurnPhase' = "conclude" /\ TurnsTaken' = AtMost(step', limit') /\ TurnEnding' = "none"
  /\ at' = "tools" \/ (at' \in {"open", "stream"} /\ InLoop') =>
       TurnPhase' = "turn" /\ TurnsTaken' = step' - 1 /\ TurnEnding' = "none"
  /\ at' \in {"open", "stream"} /\ ~InLoop' =>
       TurnPhase' = "conclude" /\ TurnsTaken' = AtMost(step', limit') /\ TurnEnding' = "none"
  /\ at' = "answered" =>
       TurnPhase' = "over" /\ TurnsTaken' = AtMost(step', limit') /\ TurnEnding' = "done"
  /\ at' \in {"failed", "error"} =>
       TurnPhase' = "over" /\ TurnsTaken' = AtMost(step', limit') /\ TurnEnding' = "failed"
  /\ at' = "aborted" => TurnPhase' = "over" /\ TurnsTaken' = step' - 1 /\ TurnEnding' = "aborted"
BY DEF TurnPhase, TurnsTaken, TurnEnding, Over, Ends, AtMost

\* A step that keeps the place, the purpose and the numbers is none of the loop.
LEMMA Stutters ==
  ASSUME /\ at' = at \/ {at, at'} \subseteq {"open", "stream"}
         /\ UNCHANGED <<stepVars, InLoop>>
  PROVE  UNCHANGED Loop!loopVars
<1>1. step' = step /\ limit' = limit
  BY DEF stepVars
<1>2. at \in {"open", "stream"} => at' \in {"open", "stream"}
  OBVIOUS
<1> QED
  BY <1>1, <1>2 DEF Loop!loopVars, TurnPhase, TurnsTaken, TurnEnding, Over, Ends, AtMost

\* The start, the abort and the calls that begin.
LEMMA LoopBegins ==
  ASSUME AgentTypeOK, AgentTypeOK', LoopInv,
         Start \/ Abort \/ Turn \/ LimitReached \/ EndStep
  PROVE  (Loop!Next \/ UNCHANGED Loop!loopVars) /\ LoopInv'
<1>0. /\ step \in 1..(MaxSteps + 1) /\ limit \in 0..MaxSteps
      /\ step' \in 1..(MaxSteps + 1) /\ limit' \in 0..MaxSteps /\ MaxSteps \in Nat
  BY LimitsAssumption DEF AgentTypeOK, StepTypeOK
<1>1. CASE Start
  <2>1. at = "start" /\ at' = "control" /\ step = 1 /\ step' = 1
    BY <1>1 DEF Start, LoopInv
  <2>2. TurnPhase = "start" /\ TurnsTaken = 0 /\ TurnEnding = "none" /\ TurnEnding' = "none"
    BY <2>1, Mapped, MappedNext
  <2>3. TurnsTaken' = 0
    BY <1>0, <2>1, MappedNext DEF AtMost
  <2>4. TurnPhase' = "conclude" \/ (TurnPhase' = "poll" /\ 0 < MaxSteps)
    BY <1>0, <2>1, MappedNext
  <2>5. Loop!Begin
    BY <2>2, <2>3, <2>4 DEF Loop!Begin
  <2> QED
    BY <2>1, <2>5 DEF Loop!Next, LoopInv
<1>2. CASE Abort
  <2>1. at = "control" /\ step <= limit /\ at' = "aborted" /\ step' = step
    BY <1>2 DEF Abort, stepVars
  <2>2. Loop!Abort
    BY <2>1, Mapped, MappedNext DEF Loop!Abort
  <2> QED
    BY <2>1, <2>2 DEF Loop!Next, LoopInv
<1>3. CASE Turn
  <2>1. /\ at = "control" /\ step <= limit /\ at' = "open" /\ InLoop'
        /\ step' = step /\ limit' = limit
    BY <1>3 DEF Turn, NewCall, Call, InLoop, stepVars
  <2>2. Loop!Call
    BY <2>1, Mapped, MappedNext DEF Loop!Call
  <2> QED
    BY <2>1, <2>2 DEF Loop!Next, LoopInv
<1>4. CASE LimitReached
  <2>1. /\ at = "control" /\ ~(step <= limit) /\ at' = "open" /\ ~InLoop'
        /\ step' = step /\ limit' = limit
    BY <1>0, <1>4 DEF LimitReached, Conclude, NewCall, Call, InLoop, stepVars
  <2>2. UNCHANGED <<TurnPhase, TurnsTaken, TurnEnding>>
    BY <2>1, Mapped, MappedNext
  <2> QED
    BY <2>1, <2>2 DEF Loop!loopVars, LoopInv
<1>5. CASE EndStep
  <2>1. at = "tools" /\ at' = "control" /\ step' = step + 1 /\ step <= limit
    BY <1>5 DEF EndStep, LoopInv
  <2>2. limit <= limit'
    BY <1>0, <1>5 DEF EndStep, WebLimit, EvidenceLimit
  <2>3. TurnPhase = "turn" /\ TurnsTaken = step - 1 /\ TurnEnding = "none" /\ TurnEnding' = "none"
    BY <2>1, Mapped, MappedNext
  <2>4. CASE step' <= limit'
    <3>1. TurnPhase' = "poll" /\ TurnsTaken' = step
      BY <1>0, <2>1, <2>4, MappedNext
    <3> QED
      BY <1>0, <2>1, <2>3, <2>4, <3>1 DEF Loop!Next, Loop!Turn, LoopInv
  <2>5. CASE ~(step' <= limit')
    <3>1. TurnPhase' = "conclude" /\ TurnsTaken' = AtMost(step', limit')
      BY <2>1, <2>5, MappedNext
    <3>2. AtMost(step', limit') = step
      BY <1>0, <2>1, <2>2, <2>5 DEF AtMost
    <3> QED
      BY <1>0, <2>1, <2>3, <3>1, <3>2 DEF Loop!Next, Loop!Turn, LoopInv
  <2> QED
    BY <2>4, <2>5
<1> QED
  BY <1>1, <1>2, <1>3, <1>4, <1>5

\* What a model call leads to.
LEMMA LoopCalls ==
  ASSUME AgentTypeOK, LoopInv,
         Fail \/ AskTools \/ Continue \/ NoText \/ AnswerTurn \/ Refuse \/ Publish
  PROVE  (Loop!Next \/ UNCHANGED Loop!loopVars) /\ LoopInv'
<1>0. /\ step \in 1..(MaxSteps + 1) /\ limit \in 0..MaxSteps /\ MaxSteps \in Nat
      /\ at \in {"open", "stream"} /\ step' = step /\ limit' = limit
  BY LimitsAssumption DEF AgentTypeOK, StepTypeOK, Fail, AskTools, Continue, NoText, AnswerTurn,
     Refuse, Publish, stepVars
\* A turn that is the last one, and ends or leads to the conclusion.
<1>1. ASSUME InLoop, at' \in {"answered", "failed", "error"} \/ (at' = "open" /\ ~InLoop')
      PROVE  (Loop!Next \/ UNCHANGED Loop!loopVars) /\ LoopInv'
  <2>1. TurnPhase = "turn" /\ TurnsTaken = step - 1 /\ TurnEnding = "none" /\ step <= limit
    BY <1>0, <1>1, Mapped DEF LoopInv
  <2>2. AtMost(step', limit') = step
    BY <1>0, <2>1 DEF AtMost
  <2>3. TurnsTaken' = step
    BY <1>1, <2>2, MappedNext
  <2>4. \/ TurnPhase' = "over" /\ TurnEnding' \in {"done", "failed"}
        \/ TurnPhase' = "conclude" /\ TurnEnding' = "none"
    BY <1>1, MappedNext
  <2>5. Loop!Turn
    BY <1>0, <2>1, <2>3, <2>4 DEF Loop!Turn
  <2> QED
    BY <1>0, <1>1, <2>5 DEF Loop!Next, LoopInv
\* The end of a conclusion.
<1>2. ASSUME ~InLoop, at' \in {"answered", "failed", "error"}
      PROVE  (Loop!Next \/ UNCHANGED Loop!loopVars) /\ LoopInv'
  <2>1. Loop!Conclude
    BY <1>0, <1>2, Mapped, MappedNext DEF Loop!Conclude
  <2> QED
    BY <1>2, <2>1 DEF Loop!Next, LoopInv
\* A call of the same kind, or the tools of the turn.
<1>3. ASSUME at' = "open", InLoop' <=> InLoop
      PROVE  (Loop!Next \/ UNCHANGED Loop!loopVars) /\ LoopInv'
  <2>1. UNCHANGED Loop!loopVars
    BY <1>0, <1>3, Mapped, MappedNext DEF Loop!loopVars
  <2> QED
    BY <1>0, <1>3, <2>1 DEF LoopInv
<1>4. ASSUME at' = "tools" /\ InLoop
      PROVE  (Loop!Next \/ UNCHANGED Loop!loopVars) /\ LoopInv'
  <2>1. UNCHANGED Loop!loopVars
    BY <1>0, <1>4, Mapped, MappedNext DEF Loop!loopVars
  <2> QED
    BY <1>0, <1>4, <2>1 DEF LoopInv
<1>5. CASE Fail
  BY <1>0, <1>1, <1>2, <1>5 DEF Fail, Conclude, NewCall, Call, InLoop
<1>6. CASE AskTools
  BY <1>4, <1>6 DEF AskTools, InLoop
<1>7. CASE Continue
  BY <1>3, <1>7 DEF Continue, InLoop
<1>8. CASE NoText
  <2>1. CASE purpose = "conclude"
    <3>1. at' = "open" /\ purpose' = "no reasoning"
      BY <1>8, <2>1 DEF NoText, Conclude, NewCall, Call
    <3>2. ~InLoop /\ ~InLoop'
      BY <2>1, <3>1 DEF InLoop
    <3> QED
      BY <1>3, <3>1, <3>2
  <2>2. CASE purpose # "conclude"
    <3>1. at' = "error"
      BY <1>8, <2>2 DEF NoText
    <3> QED
      BY <1>1, <1>2, <3>1
  <2> QED
    BY <2>1, <2>2
<1>9. CASE AnswerTurn
  BY <1>1, <1>9 DEF AnswerTurn
<1>10. CASE Refuse
  BY <1>2, <1>3, <1>10 DEF Refuse, Conclude, NewCall, Call, InLoop
<1>11. CASE Publish
  BY <1>2, <1>11 DEF Publish
<1> QED
  BY <1>5, <1>6, <1>7, <1>8, <1>9, <1>10, <1>11

\* Deadlines, attempts, text and tool calls are inside a turn or a conclusion.
LEMMA LoopInside ==
  ASSUME LoopInv,
         \/ Expire \/ Retry \/ Open \/ ToolCallDelta \/ Token \/ UNCHANGED agentVars
         \/ \E c \in Calls : ToolError(c) \/ Repeat(c) \/ RunTool(c)
  PROVE  UNCHANGED Loop!loopVars /\ LoopInv'
<1>1. /\ at' = at \/ {at, at'} \subseteq {"open", "stream"}
      /\ UNCHANGED <<stepVars, purpose>>
  BY DEF Expire, Retry, Retriable, Open, ToolCallDelta, Token, ToolError, Repeat, RunTool, Answered,
     callVars, agentVars
<1>2. UNCHANGED <<stepVars, InLoop>>
  BY <1>1 DEF InLoop
<1>3. LoopInv'
  BY <1>1, <1>2 DEF LoopInv, stepVars
<1> QED
  BY <1>1, <1>2, <1>3, Stutters

LEMMA LoopStep ==
  ASSUME AgentTypeOK, AgentTypeOK', LoopInv, AgentNext \/ UNCHANGED agentVars
  PROVE  (Loop!Next \/ UNCHANGED Loop!loopVars) /\ LoopInv'
BY LoopBegins, LoopCalls, LoopInside DEF AgentNext, LoopInv

\* What a run does with its model and its tools is a loop of at most MaxSteps
\* turns that is aborted between two turns only, concludes at most once and
\* returns one outcome, for any model, any tools and any limits.
THEOREM LoopImplemented == Spec => ImplementsAgentLoop
<1>1. Init => Loop!Init /\ LoopInv
  <2> SUFFICES ASSUME Init PROVE Loop!Init /\ LoopInv
    OBVIOUS
  <2>1. at = "start" /\ step = 1
    BY DEF Init, AgentInit
  <2> QED
    BY <2>1, Mapped DEF Loop!Init, LoopInv
<1>2. IInv /\ IInv' /\ LoopInv /\ [Next]_vars => [Loop!Next]_(Loop!loopVars) /\ LoopInv'
  <2> SUFFICES ASSUME IInv, IInv', LoopInv, [Next]_vars
               PROVE  (Loop!Next \/ UNCHANGED Loop!loopVars) /\ LoopInv'
    OBVIOUS
  <2>1. AgentTypeOK /\ AgentTypeOK'
    BY DEF IInv, TypeOK
  <2>2. AgentNext \/ UNCHANGED agentVars
    BY DEF Next, Publication, vars
  <2> QED
    BY <2>1, <2>2, LoopStep
<1> QED
  BY <1>1, <1>2, Inductive, PTL DEF Spec, ImplementsAgentLoop, Loop!Spec
=============================================================================
