CONSTANTS
  Keys = {1, 2, 3, 4, 5}
  Values = {x, y}
  Absent = Absent
  MaxDepth = 10
  AddressBytes = 2
  Definition <- DiemDefinition
  Messages <- MCMessages
  Lengths <- MCLengths
  Damage = {0, 1, 7, 128, 255}
  Coins = {0, 1, 2, 3}
  Reserves <- MCReserves
  Amounts = {2, 5}
  Wrap = 64
SPECIFICATION AllSpec
INVARIANTS
  SearchIsFaithful
  RoundTrip
  Canonical
  SerialisersAgree
  MostValue
CHECK_DEADLOCK FALSE
