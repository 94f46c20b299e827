\* Writes of all sorts, two under way at a time, and taking turns against the promise.
CONSTANTS
  Request = {r1, r2, r3}
  List = {l1}
  Url = {u1, u2}
  Domain = {d1}
  Ops <- MixedOps
  MaxInFlight = 2
  MaxRefresh = 1
  NoUrl = NoUrl
  Nobody = Nobody
SPECIFICATION ScenesSpec
SYMMETRY Symmetry
CHECK_DEADLOCK FALSE
INVARIANTS TypeOK WritesAloneStay
PROPERTIES KeepsPromiseAlone
