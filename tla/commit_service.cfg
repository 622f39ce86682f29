SPECIFICATION ServiceFairSpec
CONSTANTS
  MaxFiles = 2
  MaxCommitProofThread = 1
  ChanCap = 1
  MinTicks = 1
  Patience = 2
INVARIANT CommitedAreOffered
PROPERTIES
  RefusalCarriedOut
  CloseStops
