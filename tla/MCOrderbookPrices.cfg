SPECIFICATION Spec
CONSTANTS
  k1 = k1
  Never = Never
  Keys <- MCKeys
  Items <- MCItems
  BlackMarket = {}
  OrderIds = {1, 2, 3}
  Prices = {1, 3}
  Amounts = {1, 2}
  Expiries = {Never}
  Volumes = {0}
  MinVolume <- MCMinVolume
  RequestTtl <- MCRequestTtl
  OfferTtl = 1
  EmptyTtl <- MCEmptyTtl
  BucketLength = 2
  NatsEnabled = FALSE
  MaxTime = 0
INVARIANT VwapGrowsWithQuantity
PROPERTY BaitIgnored
CHECK_DEADLOCK FALSE
