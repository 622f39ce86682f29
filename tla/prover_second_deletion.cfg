SPECIFICATION ProverFairSpec
CONSTANTS
  Callers = {c1}
  TNum = 2
  K = 1
  FileSize = 1
  Space = 3
  Batches = {1, 2}
  Deletions = {d1, d2}
  DelNums = {1}
  CommitNums = {1, 2}
  SubAccSize = 2
  MaxElements = 2
PROPERTIES
  QuietDeletionEnds
CHECK_DEADLOCK FALSE
