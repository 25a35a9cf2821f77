SPECIFICATION FairSpec
CONSTANTS
  k1 = k1
  Never = Never
  Keys <- MCKeys
  Items <- MCItems
  BlackMarket <- MCKeys
  OrderIds = {1}
  Prices = {0, 2}
  Amounts = {1}
  Expiries = {2, Never}
  Volumes = {0, 1}
  MinVolume <- MCUnitVolume
  RequestTtl <- MCRequestTtl
  OfferTtl = 0
  EmptyTtl <- MCEmptyTtl
  BucketLength = 2
  NatsEnabled = TRUE
  MaxTime = 4
PROPERTIES LiveOrdersSurvive StoredPricesStay BufferDrains
CHECK_DEADLOCK FALSE
INVARIANTS TypeOK MetricsExact
