SPECIFICATION Spec
CONSTANTS
  r1 = r1  r2 = r2  r3 = r3  d1 = d1  p = p  q = q
  Request = {r1, r2}
  Deletion = {}
  DryRuns = {{}}
  Workload = {p}
  WorkloadOf <- PodNames
  Generated = {}
  Work <- Works
  Listed <- Lists
  UserClaims <- SharedClaims
  Modes = {TRUE}
  User = User
  Nobody = Nobody
  Namespace <- NamespaceText
  OwnerText <- OwnerTexts
  SlotText <- SlotTexts
  Dash = "-"
  Char <- Letters
  MaxLength = 7
  HashLength = 2
  Hash <- HashOf
CHECK_DEADLOCK FALSE
PROPERTIES RollbackSparesOthers
