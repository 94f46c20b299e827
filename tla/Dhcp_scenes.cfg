\* A handover of one address between two nodes, and pins on one node.
CONSTANTS
  Node = {n1, n2}
  Mac = {m1, m2}
  Addr = {1}
  Pool = {1}
  LeaseTime = 2
  MaxTime = 3
  MaxLoss = 0
  MaxCrash = 2
  MaxAdmin = 0
  MaxLate = 1
  Quiet = TRUE
  Settled = TRUE
  ReleaseAlone = TRUE
  PinFree = TRUE
  PinReleased = FALSE
  Commits = TRUE
  None = None
  PinNode = {n1}
  PinAddr = {1, 2}
  PinPool = {1}
  PinTime = 2
  PinLoss = 1
  PinCrash = 0
  PinAdmin = 2
  PinCommits = FALSE
SPECIFICATION ScenesSpec
CHECK_DEADLOCK FALSE
SYMMETRY Symmetry
INVARIANTS ScenesTypeOK HandoverKeepsLeases HandoverGivesOnce PinHolds
PROPERTIES PinIsOffered
