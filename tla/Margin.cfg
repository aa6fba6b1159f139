SPECIFICATION FairSpec
CONSTANTS
  u1 = u1
  p1 = p1
  p2 = p2
  p3 = p3
  s1 = s1
  a1 = a1
  a2 = a2
  None = None
  Users = {u1}
  Positions = {p1, p2, p3}
  Dto <- MCDto
  Deposit <- MCDeposit
  Pair <- MCPair
  Prices = {4, 6, 8, 16}
  Sweeps = {s1}
  Accruals = {a1, a2}
  Date <- OneDay
  Scenarios <- AllScenarios
  MaxHour = 2
  MaxSettled = 2
INVARIANTS TypeOK AccountsSettle
PROPERTIES LiquidationJustified DueIsLiquidated
