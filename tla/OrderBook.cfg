SPECIFICATION FairSpec
CONSTANTS
  u1 = u1
  u2 = u2
  b1 = b1
  b2 = b2
  s1 = s1
  s2 = s2
  st = st
  tr = tr
  p1 = p1
  p2 = p2
  w1 = w1
  None = None
  Users = {u1, u2}
  Orders = {b1, b2, s1, s2, st, tr}
  Dto <- MCDto
  Holding <- MCHolding
  Prices = {4, 6}
  Procs = {p1, p2}
  Sweeps = {w1}
  Changes <- MCChanges
  Scenarios <- AllScenarios
INVARIANTS TypeOK AmountsBalance
PROPERTIES FillsWithinLimits NothingRevived EveryCallEnds
CHECK_DEADLOCK FALSE
