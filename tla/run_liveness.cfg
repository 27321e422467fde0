\* Fair scheduling, two control requests, a crash and a reload of the settings;
\* every SQL statement succeeds and the client keeps up. The run stops when it is over.
SPECIFICATION FairSpec
CONSTANTS
    Requests = {q1, q2}
    Kinds = {"pause", "resume", "abort", "nudge"}
    TurnLimit = 1
    Faults = FALSE
    Reloads = TRUE
    Crashes = TRUE
    Overflows = FALSE
CHECK_DEADLOCK FALSE
PROPERTY RowSettles
PROPERTY ClientIsTold
