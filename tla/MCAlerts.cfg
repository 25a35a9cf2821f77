SPECIFICATION FairSpec
CONSTANTS
  a = a
  a2 = a2
  b = b
  arb = arb
  c1 = c1
  c2 = c2
  ka = ka
  kb = kb
  None = None
  Opps <- MCOpps
  AlertKeys = {ka, kb}
  KeyOf <- MCKeyOf
  Channel <- MCChannel
  Category <- MCCategory
  Webhooks = {arb}
  Profits = {20, 23}
  Cycles = {c1, c2}
  Cooldown = 2
  TopPerCategory = 2
  AlertLimit = 1
  MaxRetries = 2
  MaxTime = 2
INVARIANTS TypeOK NoRepeat NoneMissed
PROPERTY DispatchEnds
