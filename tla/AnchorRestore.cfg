SPECIFICATION Spec
CONSTANTS
  g1 = g1
  g2 = g2
  Grants = {g1, g2}
  Scopes <- SharedScope
  Answers = {"up", "readonly", "down"}
  Copies = {1}
  MaxEpoch <- Epochs
  MaxFence <- Fences
INVARIANTS
  AnchorInv
  NoAuthorityTwice
PROPERTIES
  RegressedEndsStopped
