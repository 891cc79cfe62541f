SPECIFICATION Spec
CONSTANTS
  g1 = g1
  g2 = g2
  Grants = {g1}
  Scopes <- OneScope
  Answers = {"up"}
  Copies = {1}
  MaxEpoch <- FourEach
  MaxFence <- FourEach
INVARIANTS
  ClosedForGood
