\* A leader that dies after an acknowledgement.
CONSTANTS
  Node = {n1, n2}
  Mac = {m1, m2}
  Addr = {1}
  Pool = {1}
  LeaseTime = 2
  MaxTime = 2
  MaxLoss = 0
  MaxCrash = 1
  MaxAdmin = 0
  MaxLate = 1
  Quiet = FALSE
  Settled = TRUE
  ReleaseAlone = TRUE
  PinFree = TRUE
  PinReleased = FALSE
  Commits = TRUE
  None = None
SPECIFICATION Spec
CHECK_DEADLOCK FALSE
INVARIANTS NoAddressHeldTwice
