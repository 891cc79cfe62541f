SPECIFICATION Spec
CONSTANTS
  Intents = {i1, i2}
  Keys = {TRUE, FALSE}
  MaxId = 3
  MaxDamage = 2
INVARIANTS
  LossNeverLaundered
  MovesRecorded
  HeadsHold
  DeletionIsNotLegacy
SYMMETRY EvidenceSymmetry
