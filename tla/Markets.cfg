SPECIFICATION Spec
CONSTANTS
  None = None
  u1 = u1
  u2 = u2
  u3 = u3
  v1 = v1
  v2 = v2
  v3 = v3
  Users = {u1, u2, u3}
  Calls = {c1, c2}
  Proposer = u1
  Holding <- HoldingValue
  MinTokens = 5
  Quorum = 40
  PassPercent = 51
  Period = 1
  Terms = {0}
  MaxStarts = 4
  MaxDelegations = 1
  MaxNow = 1
  Providers = {l1, l2}
  FeeBps = 2500
  Amounts = {4, 6}
  MaxRequests = 3
  Clients = {k1, k2}
  Tokens <- TokensValue
  Channels = {"trades", "admin"}
  AdminChannels = {"admin"}
  Away = Away
  Gone = Gone
  Accounts = {p1, p2, p3}
  Phones = {p1}
  Events = {v1, v2, v3}
  EventOf <- EventOfValue
INVARIANTS
  TypeOK
  TotalsMatchRows
PROPERTIES
  StepsKeepValue
CHECK_DEADLOCK FALSE
