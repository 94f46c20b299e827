\* Every view by itself: two names, two calls under way, two writes.
CONSTANTS
  Item = {i1, i2}
  MixedItem = {i1}
  None = none
  MaxCalls = 2
  MaxWrites = 2
SPECIFICATION Spec
CHECK_DEADLOCK FALSE
INVARIANTS ViewsTypeOK ViewsShowNode ViewsDoOneThing ViewsMixNothingUp
PROPERTIES EditsStayInside
