SPECIFICATION Spec
CONSTANTS
  r1 = r1  r2 = r2  d1 = d1  d2 = d2  j = j
  Request = {r1, r2}
  Deletion = {d1, d2}
  DryRuns <- SomeDryRuns
  Workload = {j}
  WorkloadOf <- JobNames
  Generated = {}
  Work <- Works
  Listed <- Lists
  UserClaims <- ConflictingClaims
  User = User
  Nobody = Nobody
  Namespace <- NamespaceText
  OwnerText <- OwnerTexts
  SlotText <- SlotTexts
  Dash = "-"
  Char <- Letters
  MaxLength = 7
  HashLength = 2
  Hash <- HashOf
CHECK_DEADLOCK FALSE
INVARIANTS RollbackComplete JobKeepsTemplates NamedJobReclaimed
PROPERTIES RollbackSparesOthers Reserves
