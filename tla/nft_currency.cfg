CONSTANTS
  admin = admin
  store = store
  seller = seller
  buyer = buyer
  xus = xus
  vls = vls
  Addr = {admin, store, seller, buyer}
  Tokens = {t1}
  Admin = admin
  Store = store
  Total = 1
  Nobody = Nobody
  Currencies = {xus, vls}
  Prices = {4}
  FeeNum = 1
  FeeDen = 2
  Endowment <- BuyerCoins
  MaxTime = 0
SPECIFICATION StoreSpec
PROPERTY PaidInItsCurrency
