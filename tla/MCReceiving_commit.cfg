SPECIFICATION MCSpec
CONSTANTS
  s = s
  r = r
  as = as
  ar = ar
  m1 = m1
  k1 = k1
  p = p
  d = d
  b = b
  Incarnation = {s, r}
  TaskWord = {"idle"}
  TaskOf <- MCTaskOf
  Runtime = {}
  NoRun = NoRun
  AdapterRef = {as, ar}
  NoRef = NoRef
  Registration <- MCRegistration
  MaxTime = 0
  MaxTaskRev <- MCReceiverMoves
  Execution = {d}
  ActorOf <- MCActorOf
  TurnRef = {as, ar}
  Tool <- MCTool
  ToolsOf <- MCToolsOf
  MaxAction = 1
  Message = {m1}
  SenderOf <- MCSenderOf
  TargetOf <- MCTargetOf
  ToolFor <- MCToolFor
  MessageOf <- MCMessageOf
  Epoch = {k1}
  NoEpoch = NoEpoch
  NoExecution = NoExecution
  NoCall = NoCall
  Direct = {m1}
  Decision = {"accepted"}
  Expiring = {m1}
  Linked = {m1}
  GivenUp = {d}
  MaxLog = 5
  Proposal = {pr1}
  Grant = {g1, g2}
  Version = {1, 2}
  ProposalTerms = {t1}
  Approver = {policy, owner}
  PolicyApprover = policy
  SourceOwner = owner
  TargetOwner = owner
  MaxSummary = 2
  MaxClock = 1
  Parts = {"attention", "relationships"}
INVARIANTS
  ClaimsOpen
  GrantsKept
PROPERTIES
  HeldForGood
  SummariesFinal
SYMMETRY Symmetric
CHECK_DEADLOCK FALSE
