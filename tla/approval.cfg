CONSTANTS
  Incidents = {i1}
  Keys = {k1}
  Services = {s1, unknown}
  Unknown = unknown
  Repos = {r1}
  RepoOf <- MCRepoOf
  AlertServices <- MCAlertServices
  TraceServices <- MCTraceServices
  BranchNames = {b1}
  Jobs = {j1, j2}
  Actions = {a1}
  MaxAlerts = 2
  MaxRequests = 3
  MayCrash = TRUE
  None = None
SPECIFICATION Spec
INVARIANTS PushedIsAtOrigin FixedMeansPushed PendingIsFresh VerdictIsAnOutcome
PROPERTIES ImplementsGate
SYMMETRY JobSymmetry
CHECK_DEADLOCK FALSE
