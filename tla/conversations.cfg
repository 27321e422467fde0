CONSTANTS
  Users = {u1, u2}
  SessionIds = {s1}
  Turns = {t1, t2}
  Facts = {f1}
  Contents = {c1, c2}
  Authorities = {30, 80}
  MaxRequests = 1
  None = None
SPECIFICATION Spec
INVARIANTS OwnerIsKept SummaryIsCurrent DeletedIsForgotten ReplacedByStronger VectorsFollowRows RecalledIsLive
SYMMETRY TurnAndUserSymmetry
CHECK_DEADLOCK FALSE
