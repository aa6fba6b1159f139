SPECIFICATION FairSpec
CONSTANTS
  NTiers = 2
  Reqs = {r1, r2}
  NoReq = NoReq
  Target <- MCTarget
  FeePct <- MCFeePct
  Balances = {1, 3}
  Shortfalls = {0, 2, 4}
  Replenishments = {2}
  Fees = {2}
  Preferred = {0, 2}
INVARIANTS TypeOK NoOverdraft LedgerConserved ShortfallAccounted NoDeadlock
PROPERTY EveryCallEnds
