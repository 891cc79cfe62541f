SPECIFICATION Spec
CONSTANTS
  g1 = g1
  p1 = p1
  i1 = i1
  Global = Global
  Grants = {g1}
  Principals = {p1}
  Intents = {i1}
  Issuers = {w1, w2}
  Configured = {w1, w2}
  PrincipalOf <- MCPrincipalOf
  GrantOf <- MCGrantOf
  Deadline <- MCDeadline
  MaxPermitTTL = 1
  MaxClockSkew = 1
  VenueSkew = 2
  MaxEpoch = 2
  MaxFence = 4
  MaxClock = 3
  MaxAttempts = 2
  Size = 1
  Primitive = "PAY"
  Rivals = {}
  Lies <- NoLies
  MaxFaults = 1
INVARIANTS
  RuntimeInv
  LedgerInv
  FenceCountsEvents
  AtMostOneAdmission
  EffectsAreBacked
  TerminalDisarmed
  NoStrandedHold
PROPERTIES
  BlockIsDurable
  RetryOnDeadPermits
  NoConsumptionAcrossAStop
SYMMETRY RuntimeSymmetry
