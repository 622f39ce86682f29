SPECIFICATION IdleSpec
CONSTANTS
  K = 2
  N = 4
  D = 2
  Group = 2
  Tries = 1
  HashSize = 2
  Chains <- ThreeChains
INVARIANT
  SpaceProofOpensChallenged
CHECK_DEADLOCK FALSE
