SPECIFICATION PoisSpec
CONSTANTS
  Callers = {c1}
  TNum = 1
  K = 1
  FileSize = 1
  Space = 5
  Batches = {1}
  Deletions = {}
  DelNums = {}
  CommitNums = {1, 2}
  SubAccSize = 2
  MaxElements = 5
  MaxBufSize = 5
INVARIANT CountedOnce
CHECK_DEADLOCK FALSE
