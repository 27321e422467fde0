\* One control request that read the row before the run completed.
SPECIFICATION Spec
CONSTANTS
    Requests = {q1}
    Kinds = {"pause", "resume", "abort", "nudge"}
    TurnLimit = 1
    Faults = FALSE
    Reloads = FALSE
    Crashes = FALSE
    Overflows = FALSE
CHECK_DEADLOCK FALSE
INVARIANT NoSignalAfterCompletion
