SPECIFICATION Spec
CONSTANTS
  s1 = s1  s2 = s2  c1 = c1  c2 = c2
  Object <- Objects
  MaxChanges = 3
CHECK_DEADLOCK FALSE
INVARIANTS ReadyWhileServed NothingMissed
PROPERTIES BecomesReady CacheFollows StopsOnSignal
