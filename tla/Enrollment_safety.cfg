\* Two nodes present the same token to the seed; the token expires, leadership
\* moves (also to a node that just joined) and one server restarts and replays.
CONSTANTS
  Node = {n1, n2, n3}
  Seed = n1
  Token = {t1}
  MaxAttempts = 1
  TTL = 0
  MaxTime = 1
  MaxLog = 3
  MaxRestarts = 1
  NoNode = NoNode
SPECIFICATION Spec
SYMMETRY Symmetry
CHECK_DEADLOCK FALSE
INVARIANTS TypeOK TokenSingleUse NoMoreVotersThanTokens CaughtUpServersAgree
