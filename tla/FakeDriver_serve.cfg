SPECIFICATION Spec
CONSTANTS
  a = a  b = b  worker = worker  k = k  m = m  l1 = l1  l2 = l2  q1 = q1  q2 = q2
  c1 = c1
  NodeName = worker
  Labels = {l1}
  BadSelector = BadSelector
  NoName = NoName
  Quantity = {q1, q2}
  Unset = Unset
  Failed = Failed
  Configs <- MCConfigs
  Edits <- MCEdits
  Claim = {c1}
  Driver = Driver  Other = Other
  OtherDevice = b
  MaxTrouble = 2
INVARIANTS FreshClaimPrepared
PROPERTIES ServedAsWritten FatalReported ClaimServed
