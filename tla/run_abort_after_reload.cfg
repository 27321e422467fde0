\* One control request after the settings were saved.
SPECIFICATION Spec
CONSTANTS
    Requests = {q1}
    Kinds = {"pause", "resume", "abort", "nudge"}
    TurnLimit = 1
    Faults = FALSE
    Reloads = TRUE
    Crashes = FALSE
    Overflows = FALSE
CHECK_DEADLOCK FALSE
INVARIANT AcceptedAbortIsDelivered
