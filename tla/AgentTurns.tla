----------------------------- MODULE AgentTurns -----------------------------
(***************************************************************************)
(* One execution of the agent loop (RunWithSnapshot): the model is called,  *)
(* asks for tools, reads their replies and is called again, until it        *)
(* answers, the step limit is reached or the loop's deadline passes; in the *)
(* last two cases it is asked to conclude.  Model calls go through the LLM  *)
(* client, whose stream may break after some text was forwarded to the      *)
(* user, and answers cut off by the token limit are continued.              *)
(*                                                                         *)
(* The text one model call produces is one token, numbered since the last   *)
(* tool step; what the user is shown is the sequence of the tokens          *)
(* forwarded since that step, and the tool steps before it are forgotten.   *)
(* Control signals, the row and the events are RunLifecycle's.              *)
(***************************************************************************)
EXTENDS ToolRegistry, Sequences

CONSTANTS
  Calls,        \* tool calls a model may make: a name and arguments
  Malformed,    \* those whose arguments are not JSON
  WebIds,       \* web_search and web_fetch
  Routed,       \* read tools with a routing intent, offered only if selected
  MaxCalls,     \* bound on the calls of one turn
  MaxSteps,     \* cfg.MaxSteps
  MaxContinue,  \* cfg.MaxContinueRounds
  MaxAttempts   \* attempts to open a stream

ASSUME CallsAssumption ==
  /\ \A c \in Calls : c.tool \in Ids
  /\ Malformed \subseteq Calls /\ WebIds \subseteq Ids /\ Routed \subseteq Ids
ASSUME LimitsAssumption ==
  /\ MaxCalls \in Nat /\ MaxSteps \in Nat /\ MaxContinue \in Nat
  /\ MaxAttempts \in Nat \ {0}

VARIABLES
  at,        \* where the run is
  policy,    \* what was decided for the run: may it propose writes, use the web?
  pinned,    \* the snapshot of the catalog it works with
  step,      \* the step it is in
  limit,     \* the steps it may take
  extended,  \* the limit was raised because of evidence found at it
  purpose,   \* what the current model call is for
  attempt,   \* how often its stream was tried to be opened
  rounds,    \* continuations of the answer so far
  piece,     \* the token of the current call, 0 before it came
  next,      \* number of the next token
  content,   \* the text of the answer being made
  leaked,    \* it contains markup of a tool protocol
  discarding, \* the pipe of the answer being made forwards nothing any more
  asked,     \* tool calls of this turn that are still to be made
  turn,      \* what they brought: evidence, web tools tried, web evidence found
  seen,      \* calls that returned a result
  replies,   \* history: the replies in the conversation that are no errors
  shown,     \* history: what the user was shown since the last tool step
  hidden,    \* history: what of the answer being made was discarded
  cut,       \* history: what of both belongs to a call that failed
  answer,    \* RunResult.Answer
  late       \* which deadline has passed: none, the loop's, the run's

planVars == <<policy, pinned>>
stepVars == <<step, limit, extended>>
callVars == <<purpose, attempt, rounds, piece, next, content, leaked, discarding>>
toolVars == <<asked, turn, seen, replies>>
viewVars == <<shown, hidden, cut, answer>>
agentVars == <<at, planVars, stepVars, callVars, toolVars, viewVars, late>>

-----------------------------------------------------------------------------
(* Types.                                                                  *)

Ends == {"answered", "aborted", "failed", "error"}
\* turn: a step of the loop; more: the continuation of its answer; the others
\* are the attempts to conclude and their continuations.
Tries == {"conclude", "no reasoning", "repair"}
Purposes == {"turn", "more"} \cup Tries
Tokens == Seq(Nat \ {0})
Reply == [call: Calls, kind: {"result", "repeat"}, since: 0..MaxRevision]
Quiet == [evidence |-> FALSE, tried |-> FALSE, found |-> FALSE]

PlanTypeOK == policy \in [writes: BOOLEAN, web: BOOLEAN] /\ pinned \in Catalog
StepTypeOK == step \in 1..(MaxSteps + 1) /\ limit \in 0..MaxSteps /\ extended \in BOOLEAN
CallTypeOK ==
  /\ purpose \in Purposes /\ attempt \in 1..MaxAttempts /\ rounds \in 0..MaxContinue
  /\ piece \in Nat /\ next \in Nat \ {0} /\ content \in Tokens /\ leaked \in BOOLEAN
  /\ discarding \in BOOLEAN
ToolTypeOK ==
  /\ asked \in Seq(Calls) /\ turn \in [evidence: BOOLEAN, tried: BOOLEAN, found: BOOLEAN]
  /\ seen \subseteq Calls /\ replies \subseteq Reply
ViewTypeOK ==
  /\ shown \in Tokens /\ hidden \in Tokens /\ cut \in Tokens /\ answer \in Tokens

AgentTypeOK ==
  /\ at \in {"start", "control", "open", "stream", "tools"} \cup Ends
  /\ late \in {"no", "loop", "run"}
  /\ PlanTypeOK /\ StepTypeOK /\ CallTypeOK /\ ToolTypeOK /\ ViewTypeOK

AgentInit ==
  /\ at = "start" /\ policy = [writes |-> FALSE, web |-> FALSE]
  /\ pinned = [i \in Ids |-> None]
  /\ step = 1 /\ limit = 0 /\ extended = FALSE
  /\ purpose = "turn" /\ attempt = 1 /\ rounds = 0 /\ piece = 0 /\ next = 1
  /\ content = <<>> /\ leaked = FALSE /\ discarding = FALSE
  /\ asked = <<>> /\ turn = Quiet /\ seen = {} /\ replies = {}
  /\ shown = <<>> /\ hidden = <<>> /\ cut = <<>> /\ answer = <<>> /\ late = "no"

Over == at \in Ends
InLoop == purpose \in {"turn", "more"}

-----------------------------------------------------------------------------
(* Start, control and deadlines.                                           *)

AtMost(a, b) == IF a < b THEN a ELSE b
AtLeast(a, b) == IF a < b THEN b ELSE a

\* MaxStepsFor: depending on the question all steps, or three, or two of them.
StepsFor == {MaxSteps, AtMost(MaxSteps, 3), AtMost(MaxSteps, 2)}

\* MaxStepsForPlan: web research needs one more turn.
StepsForPlan(steps, web) ==
  IF web /\ steps >= 2 THEN AtMost(MaxSteps, AtLeast(steps, 3)) ELSE steps

\* The service takes one snapshot for the whole run, keeps the routed tools it
\* selected, and starts the loop.
Start ==
  /\ at = "start" /\ at' = "control"
  /\ \E writes, web \in BOOLEAN, selected \in SUBSET Routed, steps \in StepsFor :
       /\ policy' = [writes |-> writes, web |-> web]
       /\ pinned' = Snapshot(Allowed(writes) \ (Routed \ selected))
       /\ limit' = StepsForPlan(steps, web)
  /\ UNCHANGED <<step, extended, callVars, toolVars, viewVars, late>>

\* The loop's deadline leaves the answer reserve before the run's.
Expire ==
  /\ ~Over /\ at # "start" /\ late # "run"
  /\ late' = IF late = "no" THEN "loop" ELSE "run"
  /\ UNCHANGED <<at, planVars, stepVars, callVars, toolVars, viewVars>>

\* handleControl: an abort, or a pause that ends with the run's context.
Abort ==
  /\ at = "control" /\ step <= limit /\ at' = "aborted"
  /\ UNCHANGED <<planVars, stepVars, callVars, toolVars, viewVars, late>>

-----------------------------------------------------------------------------
(* Model calls.                                                            *)

\* ChatWithToolsMax is called for p.
Call(p) == at' = "open" /\ purpose' = p /\ attempt' = 1 /\ piece' = 0

\* A call whose answer has a pipe of its own; continuations keep the pipe.
NewCall(p) ==
  Call(p) /\ rounds' = 0 /\ content' = <<>> /\ leaked' = FALSE /\ discarding' = FALSE

\* generateWithContinue is called by forceConclusion.
Conclude(p) == NewCall(p)

Turn ==
  /\ at = "control" /\ step <= limit
  /\ NewCall("turn")
  /\ UNCHANGED <<planVars, stepVars, next, toolVars, viewVars, late>>

\* The step limit is reached without an answer.
LimitReached ==
  /\ at = "control" /\ step > limit
  /\ Conclude("conclude")
  /\ UNCHANGED <<planVars, stepVars, next, toolVars, viewVars, late>>

\* The context the call was given is done.
ContextDone == IF InLoop THEN late # "no" ELSE late = "run"

\* Broken variant: a stream that breaks is opened again.
RetriableStream == at \in {"open", "stream"}

\* postStream: a refused connection, a 429 or a 5xx is tried again, before
\* anything of the stream was read.
Retriable == at = "open"
Retry ==
  /\ Retriable /\ ~ContextDone /\ attempt < MaxAttempts
  /\ at' = "open" /\ attempt' = attempt + 1 /\ piece' = 0
  /\ UNCHANGED <<planVars, stepVars, purpose, rounds, next, content, leaked, discarding, toolVars,
                 viewVars, late>>

Open ==
  /\ at = "open" /\ ~ContextDone /\ at' = "stream" /\ attempt' = 1
  /\ UNCHANGED <<planVars, stepVars, purpose, rounds, piece, next, content, leaked, discarding,
                 toolVars, viewVars, late>>

\* Broken variant: only the first attempt to conclude is buffered.
ForwardedRetry == purpose # "conclude" /\ ~discarding

\* StreamPipe forwards text as it comes, except in a conclusion, until the model
\* begins a tool call.
Forwarded == InLoop /\ ~discarding

\* OnToolCallDelta.  Every call may bring one, also those that were given no tools.
ToolCallDelta ==
  /\ at = "stream" /\ ~discarding /\ discarding' = TRUE
  /\ UNCHANGED <<at, planVars, stepVars, purpose, attempt, rounds, piece, next, content, leaked,
                 toolVars, viewVars, late>>

Token ==
  /\ at = "stream" /\ piece = 0
  /\ piece' = next /\ next' = next + 1
  /\ shown' = IF Forwarded THEN Append(shown, next) ELSE shown
  /\ hidden' = IF InLoop /\ ~Forwarded THEN Append(hidden, next) ELSE hidden
  /\ UNCHANGED <<at, planVars, stepVars, purpose, attempt, rounds, content, leaked, discarding,
                 toolVars, cut, answer, late>>

\* The stream could not be opened, or broke.  In a turn that is the end of the
\* loop when its deadline has passed and an error of the run otherwise; a
\* broken continuation leaves what the answer had before it.
Fail ==
  /\ at \in {"open", "stream"}
  /\ IF purpose = "turn" /\ late # "no"
       THEN Conclude("conclude") /\ cut' = shown /\ hidden' = <<>> /\ UNCHANGED answer
       ELSE /\ at' = IF purpose = "turn" THEN "failed" ELSE "error"
            /\ cut' = IF piece # 0 /\ InLoop THEN Append(cut, piece) ELSE cut
            /\ answer' = IF purpose = "more" THEN content ELSE answer
            /\ UNCHANGED <<purpose, attempt, rounds, piece, content, leaked, discarding, hidden>>
  /\ UNCHANGED <<planVars, stepVars, next, toolVars, shown, late>>

-----------------------------------------------------------------------------
(* What a finished call leads to.                                          *)

\* The text so far, with what this call brought.
Text == IF piece = 0 THEN content ELSE Append(content, piece)

\* continueIfNeeded: a call that used its tokens without visible text.
Truncated == Text = <<>>

\* The model asks for tools, all of whose calls are announced by deltas: the
\* turn's text stays with the user as the preamble of a tool step.
AskTools ==
  /\ at = "stream" /\ purpose = "turn" /\ discarding /\ at' = "tools"
  /\ \E n \in 1..MaxCalls : asked' \in [1..n -> Calls]
  /\ turn' = Quiet /\ shown' = <<>> /\ hidden' = <<>> /\ next' = 1 /\ piece' = 0
  /\ UNCHANGED <<planVars, stepVars, purpose, attempt, rounds, content, leaked, discarding, seen,
                 replies, cut, answer, late>>

\* An answer cut off by the token limit is continued.
Continue ==
  /\ at = "stream" /\ ~Truncated /\ rounds < MaxContinue
  /\ at' = "open" /\ attempt' = 1 /\ piece' = 0
  /\ purpose' = IF purpose = "turn" THEN "more" ELSE purpose
  /\ rounds' = rounds + 1 /\ content' = Text
  /\ \E markup \in BOOLEAN : leaked' = (leaked \/ (markup /\ ~InLoop))
  /\ UNCHANGED <<planVars, stepVars, next, discarding, toolVars, viewVars, late>>

\* A call without visible text is an error, which only the first attempt to
\* conclude answers with another prompt.
NoText ==
  /\ at = "stream" /\ Truncated
  /\ IF purpose = "conclude"
       THEN Conclude("no reasoning")
       ELSE /\ at' = "error"
            /\ UNCHANGED <<purpose, attempt, rounds, piece, content, leaked, discarding>>
  /\ UNCHANGED <<planVars, stepVars, next, toolVars, viewVars, late>>

\* The loop has its answer, which the user has read as it came.  The calls of
\* tools a continuation or a conclusion brought are not looked at; those of a
\* turn may be lost with their names or the end of the stream.
AnswerTurn ==
  /\ at = "stream" /\ InLoop /\ ~Truncated
  /\ at' = "answered" /\ answer' = Text
  /\ UNCHANGED <<planVars, stepVars, callVars, toolVars, shown, hidden, cut, late>>

\* hasLeakedToolProtocol: a conclusion with tool markup is asked for once more.
Refuse ==
  /\ at = "stream" /\ ~InLoop /\ ~Truncated
  /\ IF purpose # "repair"
       THEN Conclude("repair")
       ELSE /\ at' = "error"
            /\ UNCHANGED <<purpose, attempt, rounds, piece, content, leaked, discarding>>
  /\ UNCHANGED <<planVars, stepVars, next, toolVars, viewVars, late>>

\* The conclusion is recorded, and published in one piece, once it is known to
\* be good; the pipe does not publish it when it brought a tool call as well.
Publish ==
  /\ at = "stream" /\ ~InLoop /\ ~Truncated /\ ~leaked
  /\ at' = "answered" /\ answer' = Text
  /\ IF discarding THEN hidden' = Text /\ UNCHANGED shown
                   ELSE shown' = shown \o Text /\ UNCHANGED hidden
  /\ UNCHANGED <<planVars, stepVars, callVars, toolVars, cut, late>>

-----------------------------------------------------------------------------
(* Tool calls.                                                             *)

\* Broken variant: the executor looks the tool up in the catalog of the moment.
HandlerNow(c) == tools[c.tool]

\* The handler of a call, in the snapshot the model's definitions came from.
Handler(c) == pinned[c.tool]

\* The next call is replied to.
Answered(rs) ==
  /\ replies' = replies \cup rs
  /\ asked' = Tail(asked)
  /\ UNCHANGED <<at, planVars, stepVars, callVars, viewVars, late>>

\* What a turn knows after a call to a web tool; webEvidenceState.Observe takes
\* the reply to a repeated web_fetch for the page it was given before.
Observed(c, found) ==
  [turn EXCEPT !.tried = @ \/ c.tool \in WebIds,
               !.found = @ \/ (c.tool \in WebIds /\ found)]

Ready(c) == at = "tools" /\ asked # <<>> /\ c = Head(asked)
Known(c) == c \notin Malformed /\ Handler(c) # None

\* Arguments that are not JSON, a name that is not in the snapshot, a schema
\* violation, an error of the handler or its timeout.
ToolError(c) ==
  /\ Ready(c) /\ ~(Known(c) /\ c \in seen)
  /\ turn' = Observed(c, FALSE)
  /\ Answered({})
  /\ UNCHANGED seen

\* A call that returned a result before is answered with a reference to it.
Repeat(c) ==
  /\ Ready(c) /\ Known(c) /\ c \in seen
  /\ \E found \in BOOLEAN : turn' = Observed(c, found)
  /\ Answered({[call |-> c, kind |-> "repeat", since |-> 0]})
  /\ UNCHANGED seen

\* The calls remembered once c was made; those that failed may be made again.
Remembered(c) == seen \cup {c}

RunTool(c) ==
  /\ Ready(c) /\ Known(c) /\ c \notin seen
  /\ \E found \in BOOLEAN : turn' = [Observed(c, found) EXCEPT !.evidence = TRUE]
  /\ Answered({[call |-> c, kind |-> "result", since |-> Handler(c).since]})
  /\ seen' = Remembered(c)

\* extendEvidenceStepLimit and extendWebStepLimit at the end of a step.
EvidenceLimit ==
  IF step = limit /\ turn.evidence /\ ~extended /\ limit < MaxSteps THEN limit + 1 ELSE limit
WebLimit(l) ==
  IF policy.web /\ step = l /\ turn.tried /\ ~turn.found /\ l < MaxSteps THEN l + 1 ELSE l

EndStep ==
  /\ at = "tools" /\ asked = <<>> /\ at' = "control"
  /\ limit' = WebLimit(EvidenceLimit) /\ extended' = (extended \/ EvidenceLimit > limit)
  /\ step' = step + 1
  /\ UNCHANGED <<planVars, callVars, toolVars, viewVars, late>>

AgentNext ==
  \/ Start \/ Expire \/ Abort \/ Turn \/ LimitReached \/ EndStep
  \/ Retry \/ Open \/ ToolCallDelta \/ Token \/ Fail
  \/ AskTools \/ Continue \/ NoText \/ AnswerTurn \/ Refuse \/ Publish
  \/ \E c \in Calls : ToolError(c) \/ Repeat(c) \/ RunTool(c)

-----------------------------------------------------------------------------
(* Properties.                                                             *)

\* What the model may conclude from the replies it reads.  A reply "already
\* searched, see previous result above" refers to a result that is above; a
\* result came from the handler whose definition the model was shown when the
\* run began, however often the catalog was replaced since; and only a run that
\* may propose writes ever ran a write tool. (ToolExecutor.Execute, RunWithSnapshot.)
RepliesAreBacked ==
  \A r \in replies :
    /\ r.kind = "repeat" => \E q \in replies : q.call = r.call /\ q.kind = "result"
    /\ r.kind = "result" => /\ pinned[r.call.tool] # None
                            /\ r.since = pinned[r.call.tool].since
                            /\ r.call.tool \in WriteIds => policy.writes

\* The answer that is recorded is the one the user was shown since the last
\* tool step, once and in order, apart from the beginning of a call that failed
\* (a deadline passed before the conclusion, or a continuation broke) and from
\* its own end: what the model wrote after it began a tool call that is not
\* made, and all of a conclusion with such a call, is recorded and not shown.
\* Nothing of a stream that was opened again, of a conclusion that came without
\* text or with tool markup, reached the user. (StreamPipe, postStream,
\* forceConclusion, continueIfNeeded.)
ShownIsRecorded ==
  /\ at = "answered" => answer # <<>> /\ shown \o hidden = cut \o answer
  /\ at \in Ends \ {"answered"} => shown \o hidden = answer \o cut
  /\ hidden # <<>> => discarding
-----------------------------------------------------------------------------
(* The abstract specification of the loop, with its phases, the turns it    *)
(* has finished and what it returned.                                       *)

TurnPhase ==
  CASE at = "start" -> "start"
    [] at = "control" /\ step <= limit -> "poll"
    [] at = "tools" \/ (at \in {"open", "stream"} /\ InLoop) -> "turn"
    [] Over -> "over"
    [] OTHER -> "conclude"

\* The step an end or a conclusion was reached in was taken, unless an abort
\* came before it or it is beyond the limit.
TurnsTaken ==
  IF TurnPhase \in {"start", "poll", "turn"} \/ at = "aborted"
  THEN step - 1 ELSE AtMost(step, limit)

TurnEnding ==
  CASE at = "answered" -> "done"
    [] at = "aborted" -> "aborted"
    [] at \in {"failed", "error"} -> "failed"
    [] OTHER -> "none"

Loop == INSTANCE AgentLoop
        WITH Limit <- MaxSteps, phase <- TurnPhase, taken <- TurnsTaken, ending <- TurnEnding

\* A run keeps the promise of AgentLoop through every model call, retry,
\* continuation, tool call and extension of its limit.
ImplementsAgentLoop == Loop!Spec
=============================================================================
