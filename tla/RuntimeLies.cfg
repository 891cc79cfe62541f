SPECIFICATION Spec
CONSTANTS
  g1 = g1
  p1 = p1
  i1 = i1
  Global = Global
  Grants = {g1}
  Principals = {p1}
  Intents = {i1}
  Issuers = {w1}
  Configured = {w1}
  PrincipalOf <- MCPrincipalOf
  GrantOf <- MCGrantOf
  Deadline <- MCDeadline
  MaxPermitTTL = 1
  MaxClockSkew = 0
  VenueSkew = 0
  MaxEpoch = 1
  MaxFence = 4
  MaxClock = 1
  MaxAttempts = 2
  Size = 2
  Primitive = "TRADE"
  Rivals = {"foreign"}
  Lies <- AnyAnswer
  MaxFaults = 1
INVARIANTS
  RecordedFillKeepsBudget
PROPERTIES
  SettledHistoryKept
