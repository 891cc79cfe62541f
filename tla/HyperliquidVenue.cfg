SPECIFICATION Spec
CONSTANTS
  i1 = i1
  i2 = i2
  Intents = {i1, i2}
  Notional <- MCNotional
  Limit <- MCLimit
  RoundsUp = {i1}
  MinNotional = 2
  Grain = 2
  Prices = {1, 2}
  MaxFills = 2
  PageLimit = 3
  Ttl = 1
  MinWindow = 1
  MaxOrphans = 1
  MaxAttempts = 2
  MaxClock = 2
INVARIANTS
  OneBoundedOrder
  VerdictIsVenueTruth
  OrphansCounted
  OrphansBounded
CHECK_DEADLOCK FALSE
