SPECIFICATION FairSpec
CONSTANTS
  w1 = w1
  w2 = w2
  s1 = s1
  s2 = s2
  a1 = a1
  Dead = Dead
  None = None
  Messages = {m1}
  Workers = {w1, w2}
  Sweepers = {s1, s2}
  Admins = {a1}
  MaxAttempts = 2
  Bound = 3
  Scenarios <- AllScenarios
INVARIANTS TypeOK OneOwner
PROPERTIES NeverLost OrphanRecovered
CHECK_DEADLOCK FALSE
