SPECIFICATION EvidenceSpec
CONSTANTS
  i = i
  r = r
  v = v
  t = t
  ai = ai
  ar = ar
  av = av
  e1 = e1
  e2 = e2
  e3 = e3
  e4 = e4
  m = m
  d = d
  ch = ch
  owner = owner
  seed = seed
  Incarnation = {i, r, v, t}
  TaskWord = {"running"}
  TaskOf <- MCTaskOf
  Runtime = {}
  NoRun = NoRun
  AdapterRef = {ai, ar, av}
  NoRef = NoRef
  Registration <- MCRegistration
  MaxTime = 0
  MaxTaskRev <- MCMaxTaskRev
  Principal = {owner}
  Policy = {}
  OwnerOf <- MCOwnerOf
  Dependency = {d}
  Terms <- MCTerms
  NoTerms = NoTerms
  Unrelated = Unrelated
  Relationship = {"r"}
  Message = {m}
  Event <- MCEvent
  NoMessage = NoMessage
  MaxVersion = 2
  Execution = {e1, e2, e3, e4}
  ActorOf <- MCActorOf
  TurnRef = {ai, ar, av}
  Tool <- MCTool
  ToolsOf <- MCToolsOf
  MaxAction = 1
  Chain = {ch}
  RolesOf <- MCRolesOf
  ChainOf <- MCChainOf
  MessageOf <- MCMessageOf
  Commit = {seed, c1}
  Seed = seed
  Finding = {f1}
  NoDependency = NoDependency
  Foreign = Foreign
  MaxAtOnce = 1
INVARIANTS
  ChainsBack
PROPERTIES
  LossIsFinal
CHECK_DEADLOCK FALSE
