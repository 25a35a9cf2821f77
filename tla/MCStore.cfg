\* A royal city: a record of the collector may be one tick old, buckets are two
\* ticks, and as in a scan from the command line rows are loaded for longer than
\* they are kept.
\* The clock and the number of records are bounded, so the model stops there.
CONSTANTS
  BlackMarket = FALSE
  BucketTicks = 2
  IngestCeiling = 1
  Lookback = 1
  Retention = 0
  BookTicks = 0
  Verified = 0
  MaxTime = 4
  MaxRecords = 3
SPECIFICATION Spec
INVARIANTS TypeOK LegBounded AgeIsOfAPrice
CHECK_DEADLOCK FALSE
