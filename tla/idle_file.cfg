SPECIFICATION IdleFairSpec
CONSTANTS
  K = 2
  N = 4
  D = 2
  Group = 2
  Tries = 1
  HashSize = 2
  Chains <- ThreeChains
INVARIANTS
  MapTypeOK
  RootsAreMerkle
  LabelsRight
  CommitProofsVerify
  SpaceProofsVerify
PROPERTIES
  ImplementsStream
  FileEnds
CHECK_DEADLOCK FALSE
