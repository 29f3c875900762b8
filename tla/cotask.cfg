CONSTANTS
  root = root
  submit = submit
  post = post
  check = check
  poll1 = poll1
  poll2 = poll2
  main = main
  w1 = w1
  w2 = w2
  Frames = {root, submit, post, check, poll1, poll2}
  Root = root
  Children <- Calls
  Main = main
  Workers = {w1, w2}
  Fallible = {post, poll2}
  Catching = {root}
SPECIFICATION FairSpec
CHECK_DEADLOCK FALSE
INVARIANTS RunsOnce WakeUpPending ErrorsPropagate
PROPERTY ChainReturns
