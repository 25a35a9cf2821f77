\* The Black Market, where the price of a leg is what it pays.
CONSTANTS
  BlackMarket = TRUE
  BucketTicks = 2
  IngestCeiling = 2
  Lookback = 2
  Retention = 2
  BookTicks = 1
  Verified = 1
  MaxTime = 5
  MaxRecords = 2
SPECIFICATION Spec
INVARIANTS VerifiedIsFresh
CHECK_DEADLOCK FALSE
