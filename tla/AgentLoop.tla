----------------------------- MODULE AgentLoop ------------------------------
(***************************************************************************)
(* What the agent loop promises about its turns, whatever its model, its    *)
(* tools and its clients do.  Each turn begins at a poll for control        *)
(* signals, the only place where the loop obeys an abort; no more turns are *)
(* taken than the limit allows; no turn follows the attempt to conclude,    *)
(* and there is one such attempt.  What the loop returns then stays, unless *)
(* the outcome cannot be stored and is reported as a failure.               *)
(*                                                                         *)
(* Two specifications implement this one: RunLifecycle, in which a turn is  *)
(* one step among control requests, SQL errors and crashes, and AgentTurns, *)
(* in which it is a conversation with a model and with tools.               *)
(***************************************************************************)
EXTENDS Naturals

CONSTANT Limit  \* turns the loop may take

VARIABLES
    phase,      \* where the loop is
    taken,      \* turns it has finished
    ending      \* RunOutcome.Status once it has returned, "none" before

loopVars == <<phase, taken, ending>>

TypeOK ==
    /\ phase \in {"start", "poll", "turn", "conclude", "over"}
    /\ taken \in 0..Limit
    /\ ending \in {"none", "done", "failed", "aborted"}

Init == phase = "start" /\ taken = 0 /\ ending = "none"

\* The loop is entered, if only to conclude, or preparing it failed.
Begin ==
    /\ phase = "start"
    /\ phase' \in {"conclude"} \cup {p \in {"poll"} : taken < Limit}
    /\ UNCHANGED <<taken, ending>>

Reject ==
    /\ phase = "start" /\ phase' = "over" /\ ending' = "failed"
    /\ UNCHANGED taken

Call == phase = "poll" /\ phase' = "turn" /\ UNCHANGED <<taken, ending>>

Abort ==
    /\ phase = "poll" /\ phase' = "over" /\ ending' = "aborted"
    /\ UNCHANGED taken

\* A turn leads to the next one, to the conclusion or to the end.
Turn ==
    /\ phase = "turn" /\ taken' = taken + 1
    /\ \/ phase' = "poll" /\ taken' < Limit /\ UNCHANGED ending
       \/ phase' = "conclude" /\ UNCHANGED ending
       \/ phase' = "over" /\ ending' \in {"done", "failed"}

Conclude ==
    /\ phase = "conclude" /\ phase' = "over" /\ ending' \in {"done", "failed"}
    /\ UNCHANGED taken

\* The outcome could not be stored.
Lose == phase = "over" /\ ending' = "failed" /\ UNCHANGED <<phase, taken>>

\* The process dies.
Die == phase # "over" /\ phase' = "over" /\ UNCHANGED <<taken, ending>>

Next ==
    \/ Begin \/ Reject \/ Call \/ Abort \/ Turn \/ Conclude
    \/ Lose \/ Die

Spec == Init /\ [][Next]_loopVars
=============================================================================
