SPECIFICATION Spec
CONSTANTS
  NTiers = 1
  Reqs = {r1, r2}
  NoReq = NoReq
  Target <- MCTarget
  FeePct <- MCFeePct
  Balances = {3}
  Shortfalls = {2}
  Replenishments = {}
  Fees = {}
  Preferred = {0}
INVARIANT BalanceIsSumOfLedger
