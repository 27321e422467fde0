\* Three control requests against a run of at most two turns, with failing
\* SQL statements, a settings reload, a crash and a client that may be too
\* slow. The run stops when it is over.
SPECIFICATION Spec
CONSTANTS
    Requests = {q1, q2, q3}
    Kinds = {"pause", "resume", "abort"}
    TurnLimit = 2
    Faults = TRUE
    Reloads = TRUE
    Crashes = TRUE
    Overflows = TRUE
CONSTRAINT TwoAtAReload
SYMMETRY RequestSymmetry
CHECK_DEADLOCK FALSE
INVARIANT NoDoubleClose
INVARIANT ParkedCanBeWoken
INVARIANT NoTurnWhilePaused
INVARIANT AbortIsKept
INVARIANT ClientKnowsTheRow
INVARIANT HubForgetsTheRun
PROPERTY ImplementsRunStatus
