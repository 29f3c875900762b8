CONSTANTS
  root = root
  user = user
  c1 = c1
  c2 = c2
  c3 = c3
  c4 = c4
  Accounts = {root, user}
  Genesis = {root}
  Calls = {c1, c2, c3}
  Kind <- KindAgents
  MaxSn = 3
  MaxPolls = 2
  LossyNet = FALSE
  MayDrop = TRUE
  Others = FALSE
SPECIFICATION FairSpec
CHECK_DEADLOCK FALSE
INVARIANT LagIsAccounted
PROPERTY CoroutineEnds
