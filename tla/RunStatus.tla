----------------------------- MODULE RunStatus -----------------------------
(***************************************************************************)
(* What the agent service promises about one run, whatever happens inside: *)
(* the persisted status moves from "running" to exactly one terminal value *)
(* (pausing and resuming in between), a terminal value never changes until *)
(* the row is removed with its session, and a client that is told "done"   *)
(* or "aborted" is told the persisted value.                               *)
(*                                                                         *)
(* This is the abstract specification that RunLifecycle implements.        *)
(***************************************************************************)

VARIABLES
    status,     \* agent_runs.status of the run, "none" before the INSERT
    told        \* the terminal status the streaming client received

statusVars == <<status, told>>

Active == {"running", "paused"}
Ended  == {"done", "failed", "aborted"}

TypeOK ==
    /\ status \in {"none", "deleted"} \cup Active \cup Ended
    /\ told \in {"none"} \cup Ended

Init == status = "none" /\ told = "none"

Start == status = "none" /\ status' = "running" /\ UNCHANGED told

Pause == status = "running" /\ status' = "paused" /\ UNCHANGED told

Resume == status = "paused" /\ status' = "running" /\ UNCHANGED told

End == status \in Active /\ status' \in Ended /\ UNCHANGED told

Remove == status # "none" /\ status' = "deleted" /\ UNCHANGED told

\* "failed" is also what the client hears when the outcome could not be
\* persisted, so it constrains nothing.
Tell ==
    /\ told = "none"
    /\ told' \in {t \in Ended : t # "failed" => status \in {t, "deleted"}}
    /\ UNCHANGED status

Next == Start \/ Pause \/ Resume \/ End \/ Remove \/ Tell

Spec == Init /\ [][Next]_statusVars
=============================================================================
