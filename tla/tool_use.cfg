CONSTANTS
  web = web
  propose = propose
  other = other
  None = None
  Ids = {web, propose, other}
  BuiltIn = {web, propose}
  WriteIds = {propose}
  WebIds = {web}
  Routed = {other}
  Owners = {o1, o2}
  Clients = {c1, c2}
  Calls <- MCCalls
  Malformed <- MCMalformed
  MaxRevision = 2
  MaxCalls = 1
  MaxSteps = 3
  MaxContinue = 1
  MaxAttempts = 2
SPECIFICATION Spec
CONSTRAINT OneReader
INVARIANTS RepliesAreBacked ShownIsRecorded SurfaceIsCurrent
SYMMETRY Alike
CHECK_DEADLOCK FALSE
