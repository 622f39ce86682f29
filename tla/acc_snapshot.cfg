SPECIFICATION AccSpec
CONSTANTS
  l1 = l1
  l2 = l2
  l3 = l3
  l4 = l4
  l5 = l5
  l6 = l6
  l7 = l7
  l8 = l8
  l9 = l9
  Adders = {u1}
  Deleters = {u1}
  Readers = {r1}
  E = 2
  Labels <- FourLabels
  AddNums = {1, 2}
  DelNums = {1, 2}
  FileFails = {FALSE}
INVARIANTS
  SnapshotChainVerifies
CHECK_DEADLOCK FALSE
