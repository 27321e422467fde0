---------------------------- MODULE RunLifecycle ----------------------------
(***************************************************************************)
(* One agent run from POST /api/qa/ask to its terminal event.              *)
(*                                                                         *)
(* The actors are the goroutine that executes the run (Agent.RunWithSnap-  *)
(* shot, then RunHub.Complete), the HTTP handler that streams its events   *)
(* (serveAgentSSE), any number of control requests (APIQARunControl), the  *)
(* clock, the client's connection, session deletion, a settings reload     *)
(* that replaces the hub, and the process itself.  They share the RunHub,  *)
(* whose mutex makes each critical section one step here, and the row of   *)
(* agent_runs, on which every SQL statement is one step.                   *)
(*                                                                         *)
(* The hub's maps are keyed by run and no method touches two keys, so the  *)
(* variables below are the entries of a single run.                        *)
(***************************************************************************)
EXTENDS Naturals, Sequences

CONSTANTS
    Requests,   \* control requests, each of which is made at most once
    Kinds,      \* the actions they may ask for
    TurnLimit,  \* model turns the loop may take (the step limit)
    Faults,     \* may an SQL statement report an error?
    Reloads,    \* may an administrator save settings while the run is live?
    Crashes,    \* may the process die?
    Overflows   \* may the client be slow enough to fill its event buffer?

ASSUME RunAssumption ==
    /\ Kinds \subseteq {"pause", "resume", "abort", "nudge"}
    /\ TurnLimit \in Nat \ {0}
    /\ Faults \in BOOLEAN /\ Reloads \in BOOLEAN
    /\ Crashes \in BOOLEAN /\ Overflows \in BOOLEAN

Active == {"running", "paused"}
Ended  == {"done", "failed", "aborted"}
Hubs   == {"first", "second"}

NoChan == 0     \* the nil channel

VARIABLES
    row,        \* agent_runs.status, "none" before INSERT and "deleted" after
    signals,    \* hub.signals[run]: control signals not yet polled
    paused,     \* hub.paused[run]: the channel a paused loop waits on
    completed,  \* run \in hub.completed
    made,       \* channels made so far; they are numbered 1..made
    closed,     \* channels that have been closed
    panicked,   \* a closed channel was closed again
    loop,       \* where the run's goroutine is
    held,       \* the channel that goroutine holds in a local variable
    turns,      \* model turns taken
    outcome,    \* RunOutcome.Status once the loop has returned
    expired,    \* the run's own deadline has passed
    connected,  \* the client is still connected
    serve,      \* where serveAgentSSE is
    inbox,      \* terminal event in the subscriber's channel
    told,       \* terminal event the client received
    saved,      \* the turn was appended to the session
    rpc,        \* where each control request is
    rkind,      \* its action
    rhub,       \* the hub it was handed
    rch,        \* the channel it holds in a local variable
    runHub,     \* the hub the run was created on
    hubNow,     \* the hub handler.qa points to
    up          \* the process is alive

rowVars    == <<row>>
hubVars    == <<signals, paused, completed>>
chanVars   == <<made, closed, panicked>>
loopVars   == <<loop, held, turns, outcome>>
clientVars == <<connected, serve, inbox, told, saved>>
reqVars    == <<rpc, rkind, rhub, rch>>
envVars    == <<expired, runHub, hubNow, up>>

vars == <<rowVars, hubVars, chanVars, loopVars, clientVars, reqVars, envVars>>

-----------------------------------------------------------------------------
(* Types and initial state *)

LoopSteps == {"ask", "prepare", "poll", "persist", "rollback",
              "rollback close", "lookup",
              "wait", "turn", "conclude", "complete", "release", "store",
              "publish", "retire", "finished", "dead"}

ReqSteps == {"idle", "send", "lookup", "transition", "release", "close",
             "ok", "rejected", "error", "gone"}

Signals == {"pause", "abort", "nudge"}

RowTypeOK == row \in {"none", "deleted"} \cup Active \cup Ended

HubTypeOK == signals \in Seq(Signals) /\ paused \in Nat /\ completed \in BOOLEAN

ChanTypeOK == made \in Nat /\ closed \subseteq Nat /\ panicked \in BOOLEAN

LoopTypeOK ==
    /\ loop \in LoopSteps /\ held \in Nat
    /\ turns \in 0..TurnLimit /\ outcome \in {"none"} \cup Ended

ClientTypeOK ==
    /\ connected \in BOOLEAN /\ saved \in BOOLEAN
    /\ serve \in {"asking", "streaming", "leaving", "left"}
    /\ inbox \in {"none"} \cup Ended /\ told \in {"none"} \cup Ended

ReqTypeOK ==
    /\ rpc \in [Requests -> ReqSteps] /\ rkind \in [Requests -> {"none"} \cup Kinds]
    /\ rhub \in [Requests -> Hubs] /\ rch \in [Requests -> Nat]

EnvTypeOK ==
    /\ expired \in BOOLEAN /\ up \in BOOLEAN
    /\ runHub \in Hubs /\ hubNow \in Hubs

TypeOK ==
    /\ RowTypeOK /\ HubTypeOK /\ ChanTypeOK /\ LoopTypeOK
    /\ ClientTypeOK /\ ReqTypeOK /\ EnvTypeOK

\* serveAgentSSE subscribes before it calls Ask.
Init ==
    /\ row = "none"
    /\ signals = <<>> /\ paused = NoChan /\ completed = FALSE
    /\ made = 0 /\ closed = {} /\ panicked = FALSE
    /\ loop = "ask" /\ held = NoChan /\ turns = 0 /\ outcome = "none"
    /\ connected = TRUE /\ serve = "asking"
    /\ inbox = "none" /\ told = "none" /\ saved = FALSE
    /\ rpc = [r \in Requests |-> "idle"]
    /\ rkind = [r \in Requests |-> "none"]
    /\ rhub = [r \in Requests |-> "first"]
    /\ rch = [r \in Requests |-> NoChan]
    /\ expired = FALSE /\ runHub = "first" /\ hubNow = "first" /\ up = TRUE

-----------------------------------------------------------------------------
(* The store: conditional updates of the run's row *)

\* Broken variant: the status condition is missing from the WHERE clause.
TransitionAnyStatus(from, to, ok) ==
    \/ ok /\ row \notin {"none", "deleted"} /\ row' = to
    \/ ~ok /\ row \in {"none", "deleted"} /\ row' = row

\* UPDATE ... SET status=to WHERE id=run AND status IN from.  It reports an
\* error when no row matched, and may report one although it was applied.
Transition(from, to, ok) ==
    \/ ok /\ row \in from /\ row' = to
    \/ ~ok /\ row \notin from /\ row' = row
    \/ ~ok /\ Faults /\ row' \in {row} \cup {s \in {to} : row \in from}

(* Channels: closing one that is already closed is a run-time panic. *)

Close(ch) ==
    /\ closed' = closed \cup {ch}
    /\ panicked' = (panicked \/ ch \in closed)
    /\ UNCHANGED made

GoTo(step) == loop' = step

\* Broken variant: a parked run ignores its own deadline.
ClientGone == ~connected

RunContextDone == expired \/ ~connected

-----------------------------------------------------------------------------
(* Ask and the loop, in the run's goroutine *)

\* RunStore.Create; an error is logged and the run goes on without a row.
Create ==
    /\ loop = "ask" /\ GoTo("prepare")
    /\ row' = "running" \/ (Faults /\ row' = "none")
    /\ runHub' = hubNow
    /\ UNCHANGED <<hubVars, chanVars, held, turns, outcome, clientVars,
                   reqVars, expired, hubNow, up>>

\* Routing, prefetch and retrieval.  A failed prefetch ends the run inside
\* Ask, otherwise the goroutine starts and the handler begins to stream.
Prepare ==
    /\ loop = "prepare"
    /\ \/ GoTo("poll") /\ serve' = "streaming" /\ UNCHANGED outcome
       \/ GoTo("complete") /\ outcome' = "failed" /\ UNCHANGED serve
    /\ UNCHANGED <<rowVars, hubVars, chanVars, held, turns, connected, inbox,
                   told, saved, reqVars, envVars>>

\* handleControl found no signal: call the model.
PollNone ==
    /\ loop = "poll" /\ signals = <<>> /\ GoTo("turn")
    /\ UNCHANGED <<rowVars, hubVars, chanVars, held, turns, outcome,
                   clientVars, reqVars, envVars>>

PollNudge ==
    /\ loop = "poll" /\ signals # <<>> /\ Head(signals) = "nudge"
    /\ signals' = Tail(signals)
    /\ UNCHANGED <<rowVars, paused, completed, chanVars, loopVars,
                   clientVars, reqVars, envVars>>

PollAbort ==
    /\ loop = "poll" /\ signals # <<>> /\ Head(signals) = "abort"
    /\ signals' = Tail(signals)
    /\ GoTo("complete") /\ outcome' = "aborted"
    /\ UNCHANGED <<rowVars, paused, completed, chanVars, held, turns,
                   clientVars, reqVars, envVars>>

\* Popping Pause registers a channel in the same critical section.
PollPause ==
    /\ loop = "poll" /\ signals # <<>> /\ Head(signals) = "pause"
    /\ signals' = Tail(signals)
    /\ IF paused = NoChan
       THEN made' = made + 1 /\ paused' = made + 1
       ELSE UNCHANGED <<made, paused>>
    /\ GoTo("persist")
    /\ UNCHANGED <<rowVars, completed, closed, panicked, held, turns, outcome,
                   clientVars, reqVars, envVars>>

\* Poll persists the pause outside the lock.
PersistPause ==
    /\ loop = "persist"
    /\ \/ Transition({"running"}, "paused", TRUE) /\ GoTo("lookup")
       \/ Transition({"running"}, "paused", FALSE) /\ GoTo("rollback")
    /\ UNCHANGED <<hubVars, chanVars, held, turns, outcome, clientVars,
                   reqVars, envVars>>

\* A rejected pause takes its channel back, closes it and aborts the run.
Rollback ==
    /\ loop = "rollback"
    /\ held' = paused /\ paused' = NoChan
    /\ outcome' = "aborted" /\ GoTo("rollback close")
    /\ UNCHANGED <<rowVars, signals, completed, chanVars, turns, clientVars,
                   reqVars, envVars>>

RollbackClose ==
    /\ loop = "rollback close"
    /\ IF held = NoChan THEN UNCHANGED chanVars ELSE Close(held)
    /\ held' = NoChan /\ GoTo("complete")
    /\ UNCHANGED <<rowVars, hubVars, turns, outcome, clientVars, reqVars,
                   envVars>>

\* WaitResume reads the channel under the lock and waits on it unlocked.
WaitLookup ==
    /\ loop = "lookup"
    /\ held' = paused
    /\ GoTo(IF paused = NoChan THEN "poll" ELSE "wait")
    /\ UNCHANGED <<rowVars, hubVars, chanVars, turns, outcome, clientVars,
                   reqVars, envVars>>

WaitReleased ==
    /\ loop = "wait" /\ held \in closed
    /\ held' = NoChan /\ GoTo("poll")
    /\ UNCHANGED <<rowVars, hubVars, chanVars, turns, outcome, clientVars,
                   reqVars, envVars>>

WaitCancelled ==
    /\ loop = "wait" /\ RunContextDone
    /\ held' = NoChan /\ outcome' = "aborted" /\ GoTo("complete")
    /\ UNCHANGED <<rowVars, hubVars, chanVars, turns, clientVars, reqVars,
                   envVars>>

\* Broken variant: off by one.
MoreTurnsInclusive == turns + 1 <= TurnLimit

MoreTurns == turns + 1 < TurnLimit

\* One model call and the tools it asks for.  Another turn follows while the
\* step limit allows; a final answer, an empty one and a model error end the
\* loop; an exhausted loop budget or step limit leads to the conclusion call.
Turn ==
    /\ loop = "turn" /\ turns' = turns + 1
    /\ \/ MoreTurns /\ GoTo("poll") /\ UNCHANGED outcome
       \/ GoTo("conclude") /\ UNCHANGED outcome
       \/ outcome' \in {"done", "failed"} /\ GoTo("complete")
    /\ UNCHANGED <<rowVars, hubVars, chanVars, held, clientVars, reqVars,
                   envVars>>

Conclude ==
    /\ loop = "conclude"
    /\ outcome' \in {"done", "failed"} /\ GoTo("complete")
    /\ UNCHANGED <<rowVars, hubVars, chanVars, held, turns, clientVars,
                   reqVars, envVars>>

-----------------------------------------------------------------------------
(* RunHub.Complete, called once by the goroutine that owns the run *)

CompleteLock ==
    /\ loop = "complete"
    /\ \/ completed /\ GoTo("finished") /\ UNCHANGED <<hubVars, held>>
       \/ /\ ~completed /\ completed' = TRUE
          /\ signals' = <<>>
          /\ held' = paused /\ paused' = NoChan
          /\ GoTo("release")
    /\ UNCHANGED <<rowVars, chanVars, turns, outcome, clientVars, reqVars,
                   envVars>>

CompleteRelease ==
    /\ loop = "release"
    /\ IF held = NoChan THEN UNCHANGED chanVars ELSE Close(held)
    /\ held' = NoChan /\ GoTo("store")
    /\ UNCHANGED <<rowVars, hubVars, turns, outcome, clientVars, reqVars,
                   envVars>>

\* Broken variant: the client is told the outcome even if it was not stored.
ReportedAlways(ok) == outcome

\* An outcome that cannot be persisted is reported as a failure.
Reported(ok) == IF ok THEN outcome ELSE "failed"

CompleteStore ==
    /\ loop = "store" /\ GoTo("publish")
    /\ \E ok \in BOOLEAN : Transition(Active, outcome, ok) /\ outcome' = Reported(ok)
    /\ UNCHANGED <<hubVars, chanVars, held, turns, clientVars, reqVars,
                   envVars>>

\* Broken variant: Complete relies on a later Unsubscribe to clean up.
SubscribedAlways == TRUE

Subscribed == serve # "left" /\ runHub = "first"

\* broadcast never blocks: a full subscriber misses the event.
CompletePublish ==
    /\ loop = "publish" /\ GoTo("retire")
    /\ \/ Subscribed /\ inbox' = outcome
       \/ (Overflows \/ ~Subscribed) /\ UNCHANGED inbox
    /\ UNCHANGED <<rowVars, hubVars, chanVars, held, turns, outcome, connected,
                   serve, told, saved, reqVars, envVars>>

CompleteRetire ==
    /\ loop = "retire" /\ GoTo("finished")
    /\ completed' = (completed /\ Subscribed)
    /\ UNCHANGED <<rowVars, signals, paused, chanVars, held, turns, outcome,
                   clientVars, reqVars, envVars>>

-----------------------------------------------------------------------------
(* serveAgentSSE: stream until the terminal event, save the turn, unsubscribe *)

\* Only a connected client's "done" saves the turn, and only when some answer
\* text arrived and the append succeeded.
Receive ==
    /\ serve = "streaming" /\ inbox # "none"
    /\ told' = inbox /\ inbox' = "none"
    /\ saved' \in {FALSE, connected /\ inbox = "done"}
    /\ serve' = "leaving"
    /\ UNCHANGED <<rowVars, hubVars, chanVars, loopVars, connected, reqVars,
                   envVars>>

\* The client went away while streaming, or Ask returned an error.
GiveUp ==
    /\ \/ serve = "streaming" /\ ~connected
       \/ serve = "asking" /\ loop = "finished"
    /\ serve' = "leaving"
    /\ UNCHANGED <<rowVars, hubVars, chanVars, loopVars, connected, inbox,
                   told, saved, reqVars, envVars>>

Unsubscribe ==
    /\ serve = "leaving" /\ serve' = "left"
    /\ inbox' = "none"
    /\ completed' = (completed /\ runHub # "first")
    /\ UNCHANGED <<rowVars, signals, paused, chanVars, loopVars, connected,
                   told, saved, reqVars, envVars>>

-----------------------------------------------------------------------------
(* APIQARunControl *)

ReqAt(r, step) == rpc' = [rpc EXCEPT ![r] = step]

\* The handler takes the hub that is current, reads the row, by which time the
\* hub may have been replaced, and checks the status it read.
Arrive(r) ==
    /\ up /\ rpc[r] = "idle"
    /\ \E k \in Kinds :
          /\ rkind' = [rkind EXCEPT ![r] = k]
          /\ LET allowed == row \in (IF k = "pause" THEN {"running"} ELSE Active)
             IN  ReqAt(r, IF ~allowed THEN "rejected"
                          ELSE IF k = "resume" THEN "lookup" ELSE "send")
    /\ \E hub \in {"first", hubNow} : rhub' = [rhub EXCEPT ![r] = hub]
    /\ UNCHANGED <<rowVars, hubVars, chanVars, loopVars, clientVars, rch,
                   envVars>>

OnRunHub(r) == rhub[r] = runHub

\* A hub the run is not on accepts anything and answers "sent".
Misdirected(r) ==
    /\ rpc[r] \in {"send", "lookup"} /\ ~OnRunHub(r)
    /\ ReqAt(r, "ok")
    /\ UNCHANGED <<rowVars, hubVars, chanVars, loopVars, clientVars, rkind,
                   rhub, rch, envVars>>

SendSignal(r) ==
    /\ rpc[r] = "send" /\ OnRunHub(r) /\ rkind[r] # "abort"
    /\ signals' = Append(signals, rkind[r])
    /\ ReqAt(r, "ok")
    /\ UNCHANGED <<rowVars, paused, completed, chanVars, loopVars, clientVars,
                   rkind, rhub, rch, envVars>>

\* Broken variant: the channel is dropped from the map and never closed.
AfterTakeForget == "ok"

AfterTake == IF paused = NoChan THEN "ok" ELSE "close"

\* Abort also takes the channel of a paused loop, to wake it.
SendAbort(r) ==
    /\ rpc[r] = "send" /\ OnRunHub(r) /\ rkind[r] = "abort"
    /\ signals' = Append(signals, "abort")
    /\ rch' = [rch EXCEPT ![r] = paused] /\ paused' = NoChan
    /\ ReqAt(r, AfterTake)
    /\ UNCHANGED <<rowVars, completed, chanVars, loopVars, clientVars, rkind,
                   rhub, envVars>>

\* Broken variant: a resume drops the whole queue.
CancelledAny(signal) == TRUE

Cancelled(signal) == signal = "pause"

\* q without its pauses, in the same order, is p.  Stated through the
\* positions that stay so that facts about it need no recursion.
WithoutPauses(q, p) ==
    \E n \in 0..Len(q) : \E at \in [1..n -> 1..Len(q)] :
        /\ \A i, j \in 1..n : i < j => at[i] < at[j]
        /\ {at[i] : i \in 1..n} = {i \in 1..Len(q) : ~Cancelled(q[i])}
        /\ p = [i \in 1..n |-> q[at[i]]]

\* Nothing is paused: cancel the pauses the loop has not consumed.
ResumeQueued(r) ==
    /\ rpc[r] = "lookup" /\ OnRunHub(r) /\ paused = NoChan
    /\ WithoutPauses(signals, signals')
    /\ ReqAt(r, "ok")
    /\ UNCHANGED <<rowVars, paused, completed, chanVars, loopVars, clientVars,
                   rkind, rhub, rch, envVars>>

ResumeLookup(r) ==
    /\ rpc[r] = "lookup" /\ OnRunHub(r) /\ paused # NoChan
    /\ rch' = [rch EXCEPT ![r] = paused]
    /\ ReqAt(r, "transition")
    /\ UNCHANGED <<rowVars, hubVars, chanVars, loopVars, clientVars, rkind,
                   rhub, envVars>>

\* The row is moved outside the lock; on an error the loop stays paused.
ResumeTransition(r) ==
    /\ rpc[r] = "transition"
    /\ \/ Transition({"paused"}, "running", TRUE) /\ ReqAt(r, "release")
       \/ Transition({"paused"}, "running", FALSE) /\ ReqAt(r, "error")
    /\ UNCHANGED <<hubVars, chanVars, loopVars, clientVars, rkind, rhub, rch,
                   envVars>>

\* Broken variant: the channel found at look-up is closed unconditionally.
StillRegisteredAssumed(r) == TRUE

StillRegistered(r) == paused = rch[r]

\* Only the channel looked up before is taken, and only if still registered.
ResumeRelease(r) ==
    /\ rpc[r] = "release"
    /\ IF StillRegistered(r)
       THEN paused' = NoChan /\ ReqAt(r, "close")
       ELSE UNCHANGED paused /\ ReqAt(r, "ok")
    /\ UNCHANGED <<rowVars, signals, completed, chanVars, loopVars, clientVars,
                   rkind, rhub, rch, envVars>>

CloseTaken(r) ==
    /\ rpc[r] = "close"
    /\ Close(rch[r]) /\ ReqAt(r, "ok")
    /\ rch' = [rch EXCEPT ![r] = NoChan]
    /\ UNCHANGED <<rowVars, hubVars, loopVars, clientVars, rkind, rhub,
                   envVars>>

-----------------------------------------------------------------------------
(* The environment *)

Live == loop \notin {"ask", "prepare", "finished", "dead"}

\* AgentConfig.Timeout runs from the start of RunWithSnapshot.
Expire ==
    /\ Live /\ ~expired /\ expired' = TRUE
    /\ UNCHANGED <<rowVars, hubVars, chanVars, loopVars, clientVars, reqVars,
                   runHub, hubNow, up>>

\* The request's context, from which the run's derives, is cancelled.
Disconnect ==
    /\ connected /\ connected' = FALSE
    /\ UNCHANGED <<rowVars, hubVars, chanVars, loopVars, serve, inbox, told,
                   saved, reqVars, envVars>>

\* RunStore.DeleteBySession does not look at the status.
DeleteSession ==
    /\ up /\ row \notin {"none", "deleted"} /\ row' = "deleted"
    /\ UNCHANGED <<hubVars, chanVars, loopVars, clientVars, reqVars, envVars>>

\* Saving settings builds a new QA with a new hub; live runs keep the old one.
Reload ==
    /\ Reloads /\ up /\ hubNow = "first" /\ hubNow' = "second"
    /\ UNCHANGED <<rowVars, hubVars, chanVars, loopVars, clientVars, reqVars,
                   expired, runHub, up>>

\* Everything but the row and what the client saw is lost.
Crash ==
    /\ Crashes /\ up /\ up' = FALSE
    /\ signals' = <<>> /\ paused' = NoChan /\ completed' = FALSE
    /\ made' = 0 /\ closed' = {} /\ UNCHANGED panicked
    /\ loop' = "dead" /\ held' = NoChan /\ UNCHANGED <<turns, outcome>>
    /\ connected' = FALSE /\ serve' = "left" /\ inbox' = "none"
    /\ rpc' = [r \in Requests |-> IF rpc[r] \in {"idle", "ok", "rejected", "error"}
                                 THEN rpc[r] ELSE "gone"]
    /\ rch' = [r \in Requests |-> NoChan]
    /\ UNCHANGED <<rowVars, told, saved, rkind, rhub, expired, runHub, hubNow>>

\* OpenRunStore recovers interrupted runs once per process.
Restart ==
    /\ ~up /\ up' = TRUE
    /\ row' = IF row \in Active THEN "aborted" ELSE row
    /\ UNCHANGED <<hubVars, chanVars, loopVars, clientVars, reqVars, expired,
                   runHub, hubNow>>

-----------------------------------------------------------------------------
(* Specification *)

Run ==
    \/ Create \/ Prepare \/ PollNone \/ PollNudge \/ PollAbort \/ PollPause
    \/ PersistPause \/ Rollback \/ RollbackClose
    \/ WaitLookup \/ WaitReleased \/ WaitCancelled \/ Turn \/ Conclude
    \/ CompleteLock \/ CompleteRelease \/ CompleteStore \/ CompletePublish
    \/ CompleteRetire

Serve == Receive \/ GiveUp \/ Unsubscribe

\* A request that has arrived runs to its end.
Progress(r) ==
    \/ Misdirected(r) \/ SendSignal(r) \/ SendAbort(r)
    \/ ResumeQueued(r) \/ ResumeLookup(r) \/ ResumeTransition(r)
    \/ ResumeRelease(r) \/ CloseTaken(r)

Environment == Expire \/ Disconnect \/ DeleteSession \/ Reload \/ Crash \/ Restart

Next == Run \/ Serve \/ (\E r \in Requests : Arrive(r) \/ Progress(r)) \/ Environment

Spec == Init /\ [][Next]_vars

\* The run's goroutine and the handler are scheduled, a context's deadline fires,
\* and a dead process is started again.  Nobody is obliged to send a control
\* request or to get on with it, to disconnect, to delete a session or to save
\* settings.
Fairness ==
    WF_vars(Run) /\ WF_vars(Serve) /\ WF_vars(Expire) /\ WF_vars(Restart)

FairSpec == Spec /\ Fairness

-----------------------------------------------------------------------------
(* Safety *)

Parked == loop = "wait" /\ held \notin closed

\* No channel is ever closed twice.  Abort, Resume, Complete and a rejected
\* pause all close the channel of a paused loop, each after it has released
\* the hub's lock; only the order "take it out of the map, then close" makes
\* the four exclusive.
NoDoubleClose == ~panicked

\* A parked loop can be woken: its channel is still registered, so that Abort
\* finds it, or some request has taken it and is about to close it.
ParkedCanBeWoken ==
    Parked => \/ paused = held
              \/ \E r \in Requests : rpc[r] = "close" /\ rch[r] = held

\* The model is never called while the row says that the run is paused: Resume
\* moves the row before it wakes the loop, and any other wake-up ends the run.
NoTurnWhilePaused == loop = "turn" => row # "paused"

Ending == {"rollback", "rollback close", "complete", "release", "store",
           "publish", "retire", "finished", "dead"}

Accepted(r, k) == rkind[r] = k /\ rpc[r] \in {"close", "ok"}

\* An abort that the hub accepted is queued until the run ends: no Resume
\* that filters the queue, and no nudge or pause ahead of it, loses it.
AbortIsKept ==
    \A r \in Requests :
        Accepted(r, "abort") /\ OnRunHub(r) =>
            \/ \E i \in DOMAIN signals : signals[i] = "abort"
            \/ loop \in Ending

\* What the client was told, and what was saved for it, is what the row says,
\* unless it was told "failed" or the session has been deleted since.
ClientKnowsTheRow ==
    /\ told \in {"done", "aborted"} => row \in {told, "deleted"}
    /\ saved => row \in {"done", "deleted"}

\* When both the run and its handler are finished the hub keeps no pause
\* channel and no completion mark for the run.
HubForgetsTheRun ==
    loop = "finished" /\ serve = "left" => ~completed /\ paused = NoChan

(* Action property: a run ends once.  Whatever pause, resume, completion or
   recovery is still in flight, a terminal status is only ever removed. *)
EndedStays == [][(row \in Ended) => (row' \in {row, "deleted"})]_vars

(* The abstract specification, with the row and the client's view of it *)
Status == INSTANCE RunStatus WITH status <- row, told <- told

\* The service implements the one-run promise of RunStatus.
ImplementsRunStatus == Status!Spec

(* The abstract specification of the loop.  A pause is part of the poll that
   found it; the loop is over once its outcome is settled. *)
LoopPhase ==
    CASE loop \in {"ask", "prepare"} -> "start"
      [] loop \in {"poll", "persist", "rollback", "lookup", "wait"} -> "poll"
      [] loop = "turn" -> "turn"
      [] loop = "conclude" -> "conclude"
      [] OTHER -> "over"

Turns == INSTANCE AgentLoop
         WITH Limit <- TurnLimit, phase <- LoopPhase, taken <- turns,
              ending <- outcome

\* Control requests, deadlines, SQL errors and crashes leave the loop what
\* AgentLoop promises.
ImplementsAgentLoop == Turns!Spec

-----------------------------------------------------------------------------
(* Liveness *)

\* Every run ends, with nobody's help: a paused run by its deadline.  Its row
\* does not stay active: the outcome is persisted or, after a crash, the next
\* process closes the run.
RowSettles == <>[](loop \in {"finished", "dead"} /\ row \notin Active)

\* A client that stays connected is told how the run ended, or that it could
\* not begin, also when settings are saved while the run is live: it keeps the
\* hub it was created on.  The handler takes its hub before it asks, though; when
\* settings are saved between the two, the run is on a hub the client has not
\* subscribed to, and the client waits until it goes away.
ClientIsTold == <>(told # "none" \/ ~connected \/ serve = "left" \/ runHub # "first")

-----------------------------------------------------------------------------
(* Expectations stated in the sources that the code does not meet *)

\* "only an active run can be resumed" (qa.go) and TransitionControl "updates
\* the persisted pause state": while the loop is parked, with its channel
\* registered, the row says "paused", or a Resume is about to release it, so
\* that Resume can succeed.
ParkedCanBeResumed ==
    Parked /\ paused = held =>
        \/ row \in Ended \cup {"paused", "deleted"}
        \/ \E r \in Requests : rpc[r] = "release" /\ rch[r] = held

\* TestHub_FinishCleansUpSignalsAndPause: no signal of a completed run stays
\* in the hub.
NoSignalAfterCompletion == loop = "finished" => signals = <<>>

\* "Controller delivers out-of-band control signals to a running loop": an
\* abort that was answered "sent" reaches the run, or the run is ending.
AcceptedAbortIsDelivered ==
    \A r \in Requests :
        Accepted(r, "abort") => \/ OnRunHub(r)
                                \/ loop \in Ending
=============================================================================
