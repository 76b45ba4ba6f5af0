SPECIFICATION MCSpec
CONSTANTS
  Message = {m1}
  Sender = s
  Sdk = {w1, w2}
  Pull = {p1}
  SendKey = {}
  Choice = {"accepted", "deferred"}
  TTL = 2
  ClaimWindow = 1
  MayRevoke = FALSE
  MaxClock = 2
  MaxSend = 1
  MaxCall = 2
  MaxPull = 1
  Name = {a, b}
  Proc = {q1, q2}
  Mcp = {q1}
  Budget = 1
  Window = 1
  Ttl = 1
  Margin = 1
  GrantLife = 2
  Page = 2
  MaxMembers = 2
  MaxId = 2
  MaxGoal = 2
  MaxTime = 1
  Target = {t1}
  Call = {c1}
  DiscoveryBudget = 2
  SendBudget = 1
  Parts = {"mailbox", "workspace"}
INVARIANTS
  SdkConflictsAreLate
  SendsAreSound
  SessionsAreSound
SYMMETRY Symmetric
CHECK_DEADLOCK FALSE
