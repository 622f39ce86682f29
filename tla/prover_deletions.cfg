SPECIFICATION ProverSpec
CONSTANTS
  Callers = {c1}
  TNum = 2
  K = 1
  FileSize = 1
  Space = 3
  Batches = {1}
  Deletions = {d1, d2}
  DelNums = {1, 2}
  CommitNums = {1, 2}
  SubAccSize = 2
  MaxElements = 4
INVARIANTS
  ProverTypeOK
  CommitedFilesBuilt
  AttestedKeepRoots
  DeletionSparesGeneration
  LedgerCovers
  DeletionsWorkAlone
PROPERTY GenSpec
SYMMETRY DeletionSymmetry
CHECK_DEADLOCK FALSE
