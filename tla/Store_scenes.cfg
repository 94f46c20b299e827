\* Every kind of row under a restart and a snapshot and its installation; and the caches.
CONSTANTS
  Node = {n1, n2}
  List = {l1}
  Tok = {k1}
  Sched = {s1}
  Profile = {p1}
  Default = p0
  HistCap = 1
  Retention = 1
  MaxStamp = 1
  Log1 <- BothCommands
  Standalone = {}
  Leftover <- NoCommand
  MaxLog = 3
  MaxRestarts = 1
  MaxSnaps = 1
SPECIFICATION ScenesSpec
SYMMETRY Nodes
CHECK_DEADLOCK FALSE
INVARIANTS ScenesTypeOK KeyedRowsConverge ServesItsFile
