SPECIFICATION Spec
CONSTANTS
  n1 = n1  n2 = n2  d1 = d1  d2 = d2  p1 = p1  p2 = p2  u1 = u1 
  Node = {n1, n2}
  Device = {d1, d2}
  Uuid = {u1}
  NoUuid = NoUuid
  Pod = {p1, p2}
  Allocation <- Allocations
INVARIANTS SeriesOnce PodSharesComplete PodSeriesHasDevice
