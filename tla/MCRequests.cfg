SPECIFICATION Spec
CONSTANTS
  Catalogue <- MCCatalogue
  Priority <- MCPriority
  NumPartitions = 2
  Overhead = 30
  PriceLimits <- MCPriceLimits
  VolumeLimits <- MCVolumeLimits
  MaxWeight = 7
  MaxRetries = 1
  Interval = 2
  Scale = 8
  MaxSlowdown = 40
  Backoff <- MCBackoffs
  Pacing = 1
  CoolDown = 12
  Patience = 2
  Horizon = 12
INVARIANTS BatchesAreSafe
PROPERTIES RequestsAreSpaced RefusalsCoolDown PassEnds
