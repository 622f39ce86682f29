SPECIFICATION GenFairSpec
CONSTANTS
  Callers = {c1, c2}
  TNum = 2
  K = 1
  FileSize = 1
  Space = 4
  Batches = {1, 2}
INVARIANTS
  GenTypeOK
  NoIndexTwice
  EveryIndexAccounted
PROPERTIES
  SendingReturns
  AddedIsCounted
