CONSTANTS
  Repos = {r1}
  Uploads = {d1}
  Flows = {d1}
  Aliases = {front1}
  FrontId <- MCFrontId
  Chunks <- MCChunks
  Digest <- MCDigest
  Jobs = {j1, j2}
  MaxCommits = 3
  MaxText = 3
  MaxChunks = 2
  MaxOps = 3
  IndexCode = TRUE
  None = None
SPECIFICATION Spec
CONSTRAINT Bounded
INVARIANTS PublishedIsServed LabelIsHonest SkippedIsFresh IndexedIsEmbedded 
SYMMETRY JobSymmetry
CHECK_DEADLOCK FALSE
