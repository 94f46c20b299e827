\* The source followed by every node, and a lost leadership, a refused apply, a restart.
CONSTANTS
  Node = {n1, n2}
  Client = {c1}
  Mac = {m1, m2}
  None = None
  MaxChange = 1
  MaxLoss = 0
  MaxFail = 0
  MaxCrash = 1
  MaxOther = 1
SPECIFICATION ScenesSpec
CHECK_DEADLOCK FALSE
INVARIANTS ScenesTypeOK FollowServesCommitted NeverEmptyAgain
PROPERTIES SourceFollowed AnomaliesFollowed
