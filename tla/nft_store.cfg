CONSTANTS
  admin = admin
  store = store
  seller = seller
  buyer = buyer
  xus = xus
  vls = vls
  Addr = {admin, store, seller, buyer}
  Tokens = {t1, t2}
  Admin = admin
  Store = store
  Total = 2
  Nobody = Nobody
  Currencies = {xus, vls}
  Prices = {1, 4}
  FeeNum = 1
  FeeDen = 2
  Endowment <- Coins
  MaxTime = 1
SPECIFICATION StoreSpec
INVARIANTS OwnerHolds AmountCounts BurnIsFinal OrdersBacked SellerCanRevoke
PROPERTIES OrderEndsWell ImplementsLedger
SYMMETRY TokenSymmetry
