SPECIFICATION Spec
CONSTANTS
  c1 = c1  c2 = c2  n1 = n1  n2 = n2  d1 = d1  d2 = d2
  Key = {c1, c2}
  Node = {n1}
  Slice <- TwoSlices
  Device = {d1, d2}
  Published <- DeviceLists
  Result <- OneNodeResults
  Total <- OneNodeTotal
  NoNode = NoNode
  NoResult = NoResult
  MaxUsage = 1
CHECK_DEADLOCK FALSE
PROPERTIES RebuildRecomputesUsage
