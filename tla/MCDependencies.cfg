SPECIFICATION DependenciesSpec
CONSTANTS
  p1 = p1
  p2 = p2
  t = t
  r1 = r1
  r2 = r2
  m1 = m1
  m2 = m2
  d1 = d1
  d2 = d2
  owner = owner
  policy = policy
  Incarnation = {p1, p2, t}
  TaskWord = {"waiting", "running"}
  TaskOf <- MCTaskOf
  Runtime = {r1, r2}
  NoRun = NoRun
  AdapterRef = {}
  NoRef = NoRef
  Registration <- MCRegistration
  MaxTime = 1
  MaxTaskRev <- MCMaxTaskRev
  Principal = {owner, policy}
  Policy = {policy}
  OwnerOf <- MCOwnerOf
  Dependency = {d1, d2}
  Terms <- MCTerms
  NoTerms = NoTerms
  Unrelated = Unrelated
  Relationship = {"r"}
  Message = {m1, m2}
  Event <- MCEvent
  NoMessage = NoMessage
  MaxVersion = 3
INVARIANTS
  SatisfactionsSound
PROPERTIES
  UnlockSound
SYMMETRY Symmetry
CHECK_DEADLOCK FALSE
