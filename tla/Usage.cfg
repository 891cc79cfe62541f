SPECIFICATION Spec
CONSTANTS
  p1 = p1
  Global = Global
  Intents = {i1, i2}
  Grants = {g1, g2}
  Versions = {1, 2}
  Principals = {p1}
  Owner <- MCOwner
  Turnover <- MCTurnover
  Actions <- MCActions
  MaxAttempts = 2
  TurnoverWindow = 1
  ActionWindow = 1
  Amounts = {1}
  RiskStates = {1, 2}
  Caps = {1}
  CapScopes = {Global}
  Answers = {"up", "readonly"}
  Lag = 1
  MaxClock = 2
  MaxCapVersion = 1
  MaxBackupRows = 0
INVARIANTS
  TypeOK
  TurnoverBounded
  VelocityBounded
  RiskSingleUse
  ExposureCapped
PROPERTIES
  NoStaleCaps
SYMMETRY UsageSymmetry
