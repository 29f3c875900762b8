CONSTANTS
  root = root
  user = user
  c1 = c1
  c2 = c2
  c3 = c3
  c4 = c4
  Accounts = {user}
  Genesis = {}
  Calls = {c1, c2, c3, c4}
  Kind <- KindMixed
  MaxSn = 2
  MaxPolls = 2
  LossyNet = TRUE
  MayDrop = FALSE
  Others = TRUE
SPECIFICATION FairSpec
CHECK_DEADLOCK FALSE
INVARIANTS TypeOK OwnTxnReported NoSkippedNumber
PROPERTY BlockingCallReturns
