CONSTANTS
  Tools = {a, b, c}
  Routed = {a, b}
  Prefetchable = {a, c}
  Temporal = TRUE
  MemoryEnabled = TRUE
  WebEnabled = FALSE
  MaxPrefetch = 2
  Sizes = {1, 3}
  ContextBudget = 6
  PreloadedBudget = 4
  s1 = s1
  s2 = s2
  Documents <- MCDocuments
  Services = {s1}
  NoService = NoService
  NoMethod = NoMethod
  CodeMinScore = 30
  RerankEnabled = TRUE
  RerankPool = 4
  RerankMinScore = 50
  RerankTopK = 2
  RerankMaxPerService = 1
  RerankMaxPerServiceLowBand = 1
  RemoteScores = {0, 50, 100}
  EvidenceBudget = 4
  GeneralSize = 2
  MaxRebuilds = 1
  Nodes = {n1, n2, n3, n4}
  Indexes <- MCIndexes
  Lines = {1}
  MaxDepth = 2
  MaxNodes = 3
  MaxFanout = 1
  MaxSwaps = 1
  Blocks = {"b1", "b2"}
  Pages <- MCPages
  Limit = 2
  Passages <- MCPassages
  PassageBudget = 5
  Terms = {"t1", "t2"}
  Answers <- MCAnswers
  Budgets = {0, 1, 60, 150, 200, 250, 600}
  NoticeSizes = {0, 30}
  BaseSize = 50
  FrameSize = 10
  Growths = {0, 40}
  Logins = {"l1", "l2"}
  Ids = {"a1", "a2"}
  Emails = {"e1"}
  Uids = {"f1"}
  Nobody = "nobody"
  RoleIds = {1, 2, 3}
  MaxEdits = 1
  MaxStarts = 2
SPECIFICATION Spec
INVARIANTS NothingIsWithheld StartsComplete EvidenceSurvives BestOfEachFile CopyIsCurrent TraceIsSound CandidatesAreWhole OutputIsHonest AuthorityIsKept
SYMMETRY NodeSymmetry
CHECK_DEADLOCK FALSE
