SPECIFICATION AccSpec
CONSTANTS
  l1 = l1
  l2 = l2
  l3 = l3
  l4 = l4
  l5 = l5
  l6 = l6
  l7 = l7
  l8 = l8
  l9 = l9
  Adders = {u1, u2}
  Deleters = {}
  Readers = {r1}
  E = 2
  Labels <- FiveLabels
  AddNums = {1}
  DelNums = {1, 2}
  FileFails = {FALSE}
INVARIANTS
  OneUpdate
  FullChainVerifies
CHECK_DEADLOCK FALSE
