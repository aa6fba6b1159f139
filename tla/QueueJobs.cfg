SPECIFICATION FairSpec
CONSTANTS
  NJobs = 2
  Workers = {w1, w2}
  Admins = {a1}
  Payloads = {"swap", "batch", "route", "poolless", "mail", "empty"}
  Units = {"s1", "s2", "s3", "l1", "l2", "m1"}
  KindOf <- MCKindOf
  UnitsOf <- MCUnitsOf
  NoPool = {"s3"}
  Attempts = 2
  MaxMade = 2
  Scenarios <- AllScenarios
  None = None
INVARIANTS TypeOK NothingTwice RetriesResume FailuresOnRecord
PROPERTY EveryJobEnds
CHECK_DEADLOCK FALSE
