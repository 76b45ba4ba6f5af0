SPECIFICATION MCSpec
CONSTANTS
  s = s
  t = t
  r1 = r1
  a1 = a1
  a2 = a2
  g1 = g1
  steer = steer
  w1 = w1
  w2 = w2
  NoRun = NoRun
  NoJob = NoJob
  NoRef = NoRef
  NoGrant = NoGrant
  Incarnation = {s, t}
  TaskWord = {"idle"}
  TaskOf <- MCTaskOf
  Runtime = {r1}
  AdapterRef = {a1, a2}
  ContextRef = {}
  Registration <- MCRegistration
  Grant = {g1}
  GrantOf <- MCGrantOf
  Message = {steer}
  Envelope <- MCEnvelope
  Worker = {w1, w2}
  Supports <- MCSupports
  ClaimWindow = 1
  MaxTime = 1
  MaxTaskRev <- MCMaxTaskRev
  MaxAttempt = 2
  MaxClaim = 0
  Owner = {o1, o2}
  PumpReceiver = {r1}
  PumpMessage = {n1, n2}
  ReceiverOf <- MCReceiverOf
  Subscribed = {n1}
  Pinned = {n1}
  Perishable = {}
  CallbackOf <- MCFinalizes
  Revocable = {n1}
  Drained = {r1}
  CrashAt <- MCAnywhere
  MaxCrash = 1
  MaxEpoch = 2
  MaxMove <- MCMovesOnce
  NoOwner = NoOwner
  NoMessage = NoMessage
  Parts = {"dispatcher", "pump"}
INVARIANTS
  EffectsKnown
PROPERTIES
  AtMostOnce
  PublishesAlone
  StaleOwnerFenced
  ImplementsInOrder
CHECK_DEADLOCK FALSE
