\* Two writes of different things at once.
CONSTANTS
  Request = {r1, r2}
  List = {l1}
  Url = {u1}
  Domain = {d1}
  Ops <- DistributedOps
  MaxInFlight = 2
  MaxRefresh = 0
  NoUrl = NoUrl
  Nobody = Nobody
SPECIFICATION ScenesSpec
CHECK_DEADLOCK FALSE
INVARIANTS DistributedWritesKept
