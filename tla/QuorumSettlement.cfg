SPECIFICATION Spec
CONSTANTS
  Key = k
  Keys = {k}
  Size = 2
  Sources = 4
  Quorum = 3
  Faulty = {2, 3}
  Lies <- MCLies
INVARIANTS
  VerdictWasTrue
  HonestQuorumDecides
  VerdictsAdvance
