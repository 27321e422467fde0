\* Two pauses and two resumes, no failure of any kind: a resume that was
\* delayed between its look-up and its UPDATE applies to the second pause.
SPECIFICATION Spec
CONSTANTS
    Requests = {q1, q2, q3, q4}
    Kinds = {"pause", "resume"}
    TurnLimit = 1
    Faults = FALSE
    Reloads = FALSE
    Crashes = FALSE
    Overflows = FALSE
SYMMETRY RequestSymmetry
CHECK_DEADLOCK FALSE
INVARIANT ParkedCanBeResumed
