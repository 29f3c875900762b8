CONSTANTS
  alice = alice
  bob = bob
  bank = bank
  vls = vls
  usd = usd
  none = none
  Bank = bank
  VlsAdmin = alice
  Coins = {vls, usd}
  VLS = vls
  Nothing = none
  MaxMarkets = 2
  SCALE = 100
  U64 = 1000000
  Amounts = {0, 200}
  Prices = {300}
  Factors = {80}
  RateModels <- Models
  Rates = {20}
  Quoted = {usd}
  Listings <- SetupListings
  Endowment <- SetupCoins
  MaxMinute = 3
  OracleMaxAge = 1
  RefreshMinutes = 1
  RatePeriod = 1
  RateMinAge = 0
  RateDiv = 1
  YearMinutes = 1
  RedeemSlack = 0
  MaxVersion = 6
  Users = {alice, bob}
SPECIFICATION OpenMarkets
CHECK_DEADLOCK FALSE
INVARIANTS TokenConservation LockConservation BackedByCoins IndexesSane
PROPERTIES RateStaysDefined DisabledFreezes IndexesMonotone BorrowStaysCovered
