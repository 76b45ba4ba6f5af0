SPECIFICATION MCSpec
CONSTANTS
  Message = {m1}
  Sender = s
  Sdk = {}
  Pull = {p1, p2}
  SendKey = {k1}
  Choice = {"accepted", "deferred"}
  TTL = 2
  ClaimWindow = 1
  MayRevoke = TRUE
  MaxClock = 1
  MaxSend = 1
  MaxCall = 2
  MaxPull = 2
  Name = {a}
  Proc = {q1}
  Mcp = {q1}
  Budget = 1
  Window = 1
  Ttl = 1
  Margin = 1
  GrantLife = 2
  Page = 2
  MaxMembers = 2
  MaxId = 2
  MaxGoal = 2
  MaxTime = 1
  Target = {t1, t2}
  Call = {c1, c2, c3, c4}
  DiscoveryBudget = 2
  SendBudget = 1
  Parts = {"mailbox", "bridge"}
INVARIANTS
  AnswersAreTrue
  TurnKeepsBudget
SYMMETRY Symmetric
CHECK_DEADLOCK FALSE
