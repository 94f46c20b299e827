\* One node joins with two attempts; every handler must answer.
CONSTANTS
  Node = {n1, n2}
  Seed = n1
  Token = {t1}
  MaxAttempts = 2
  TTL = 0
  MaxTime = 1
  MaxLog = 3
  MaxRestarts = 0
  NoNode = NoNode
SPECIFICATION FairSpec
CHECK_DEADLOCK FALSE
PROPERTIES JoinRequestAnswered
