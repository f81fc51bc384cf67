SPECIFICATION Spec
CONSTANTS
  c1 = c1  c2 = c2  n1 = n1  n2 = n2  d1 = d1  d2 = d2
  Key = {c1, c2}
  Node = {n1, n2}
  Slice <- OneSlice
  Device = {d1}
  Published <- OneDevice
  Result <- TwoNodeResults
  Total <- TwoNodeTotal
  NoNode = NoNode
  NoResult = NoResult
  MaxUsage = 2
CHECK_DEADLOCK FALSE
INVARIANTS CachedClaimsCounted
