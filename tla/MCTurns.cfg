SPECIFICATION MCSpec
CONSTANTS
  t = t
  t2 = t2
  a1 = a1
  a2 = a2
  ax = ax
  e1 = e1
  e2 = e2
  publish = publish
  review = review
  other = other
  n1 = n1
  n2 = n2
  d1 = d1
  d2 = d2
  Incarnation = {t, t2}
  TaskWord = {"idle"}
  TaskOf <- MCTaskOf
  Runtime = {}
  NoRun = NoRun
  AdapterRef = {a1, a2, ax}
  ContextRef = {a1, a2}
  NoRef = NoRef
  Registration <- MCRegistration
  MaxTime = 0
  MaxTaskRev <- MCMaxTaskRev
  Execution = {e1, e2}
  ExecutionOf <- MCExecutionOf
  TurnRef = {a1, a2}
  Turn = {n1, n2}
  NoTurn = NoTurn
  Selection = {publish, review, other}
  SelectionOf <- MCSelectionOf
  Result = {d1, d2}
  NoResult = NoResult
  MaxAction = 2
  NoNative = NoNative
  NoChoice = NoChoice
  Accepted = accepted
  Process = {pump1, pump2}
  Native = {l1, l2, l3}
  Choice = {accepted, rejected}
  Tools = 2
  Parts = {"coordinator", "activation"}
INVARIANTS
  ReceiptExact
  OnlyTheBoundTurnActs
  JournalsKept
PROPERTIES
  FrozenWithActor
  ImplementsTurnLife
  ImplementsActivation
SYMMETRY Symmetric
CHECK_DEADLOCK FALSE
