SPECIFICATION ProverSpec
CONSTANTS
  Callers = {c1}
  TNum = 2
  K = 1
  FileSize = 1
  Space = 4
  Batches = {1, 2}
  Deletions = {}
  DelNums = {1}
  CommitNums = {1, 2}
  SubAccSize = 2
  MaxElements = 3
INVARIANTS
  UncommitedKeepRoots
