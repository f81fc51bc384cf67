SPECIFICATION Spec
CONSTANTS
  r1 = r1  r2 = r2  r3 = r3  d1 = d1  p = p  q = q
  Request = {r3}
  Deletion = {d1}
  DryRuns = {{}}
  Workload = {q}
  WorkloadOf <- PodNames
  Generated = {r3}
  Work <- Works
  Listed <- Lists
  UserClaims <- SharedClaims
  Modes = {FALSE}
  User = User
  Nobody = Nobody
  Namespace <- NamespaceText
  OwnerText <- OwnerTexts
  SlotText <- SlotTexts
  Dash = "-"
  Char <- Letters
  MaxLength = 7
  HashLength = 2
  Hash <- HashOf
CHECK_DEADLOCK FALSE
INVARIANTS DeletedPodReclaimed
