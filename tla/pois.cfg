SPECIFICATION PoisFairSpec
CONSTANTS
  Callers = {c1}
  TNum = 1
  K = 1
  FileSize = 1
  Space = 4
  Batches = {1}
  Deletions = {d1}
  DelNums = {1, 2}
  CommitNums = {1, 2}
  SubAccSize = 2
  MaxElements = 5
  MaxBufSize = 2
INVARIANTS
  PoisTypeOK
  BufferLedger
  CountedOnceUnlessStale
  LedgersAgree
  AccProofAccepted
  SpaceProofAccepted
PROPERTIES
  DeletionProofAccepted
  RoundEnds
  DeletionSettles
CHECK_DEADLOCK FALSE
