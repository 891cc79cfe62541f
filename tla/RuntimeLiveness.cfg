SPECIFICATION FairSpec
CONSTANTS
  g1 = g1
  p1 = p1
  i1 = i1
  Global = Global
  Grants = {g1}
  Principals = {p1}
  Intents = {i1}
  Issuers = {w1}
  Configured = {w1}
  PrincipalOf <- MCPrincipalOf
  GrantOf <- MCGrantOf
  Deadline <- ShortDeadline
  MaxPermitTTL = 1
  MaxClockSkew = 0
  VenueSkew = 0
  MaxEpoch = 2
  MaxFence = 4
  MaxClock = 2
  MaxAttempts = 2
  Size = 1
  Primitive = "PAY"
  Rivals = {}
  Lies <- NoLies
  MaxFaults = 1
PROPERTIES
  EveryIntentEnds
