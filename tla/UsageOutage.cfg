SPECIFICATION Spec
CONSTANTS
  p1 = p1
  Global = Global
  Intents = {i1, i2}
  Grants = {g1, g2}
  Versions = {2}
  Principals = {p1}
  Owner <- MCOwner
  Turnover <- MCTurnover
  Actions <- MCActions
  MaxAttempts = 0
  TurnoverWindow = 1
  ActionWindow = 1
  Amounts = {0, 1}
  RiskStates = {1}
  Caps = {1}
  CapScopes = {Global}
  Answers = {"up", "readonly", "down"}
  Lag = 1
  MaxClock = 2
  MaxCapVersion = 2
  MaxBackupRows = 0
INVARIANTS
  TighteningCommits
