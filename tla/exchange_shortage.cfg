CONSTANTS
  alice = alice
  bob = bob
  exchange = exchange
  vls = vls
  usd = usd
  btc = btc
  Users = {alice, bob}
  Admin = exchange
  Coins = {vls, usd, btc}
  VLS = vls
  Endowment <- Purses
  MULT_FACTOR = 100
  AllocPoint = 10
  Amounts = {1, 4}
  Paths <- SwapPaths
  Fees <- FeeFactors
  AllocPoints = {0, 30}
  Periods <- RewardPeriods
  MaxTime = 4
  MaxVersion = 4
SPECIFICATION OpenedSpec
CHECK_DEADLOCK FALSE
INVARIANTS AmountIsProvided

