SPECIFICATION MCSpec
CONSTANTS
  s = s
  t = t
  t2 = t2
  r1 = r1
  r2 = r2
  a1 = a1
  a2 = a2
  g1 = g1
  g2 = g2
  steer = steer
  suggest = suggest
  NoRun = NoRun
  NoRef = NoRef
  NoGrant = NoGrant
  Incarnation = {s, t, t2}
  TaskWord = {"idle"}
  TaskOf <- MCTaskOf
  Runtime = {r1, r2}
  AdapterRef = {a1, a2}
  ContextRef = {a1}
  Registration <- MCRegistration
  Grant = {g1, g2}
  GrantOf <- MCGrantOf
  Message = {steer}
  Envelope <- MCEnvelope
  ClaimWindow = 1
  MaxTime = 2
  MaxTaskRev <- MCMaxTaskRev
  MaxAttempt = 2
  MaxClaim = 0
  Parts = {"delivery"}
INVARIANTS
  SubmissionsAgree
  UnknownNotRelabelled
  RevokedWorkInvalidated
PROPERTIES
  AuthorityLossIsFinal
CHECK_DEADLOCK FALSE
