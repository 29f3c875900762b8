CONSTANTS
  root = root
  user = user
  c1 = c1
  c2 = c2
  c3 = c3
  c4 = c4
  Accounts = {root, user}
  Genesis = {root}
  Calls = {c1, c2}
  Kind <- KindCoroutines
  MaxSn = 3
  MaxPolls = 2
  LossyNet = FALSE
  MayDrop = TRUE
  Others = FALSE
SPECIFICATION Spec
CHECK_DEADLOCK FALSE
INVARIANT OwnTxnReported
