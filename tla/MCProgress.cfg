SPECIFICATION MCFairSpec
CONSTANTS
  r1 = r1
  r2 = r2
  m2 = m2
  m3 = m3
  NoOwner = NoOwner
  NoMessage = NoMessage
  ReceiverOf <- MCReceiverOf
  Owner = {o1}
  PumpReceiver = {r1, r2}
  PumpMessage = {m1, m2, m3}
  Subscribed = {m1, m2}
  Pinned = {m1, m2}
  Perishable = {m1, m2}
  CallbackOf <- MCMixed
  Revocable = {}
  Drained = {r1}
  CrashAt <- MCOutsideTurns
  MaxCrash = 1
  MaxEpoch = 2
  MaxMove <- MCMoves
  Kinds = {"run", "start", "create", "suggest", "accept", "validate", "probe", "new", "absent"}
  Call = {c1, c2}
  Budget = 1
  Faults = {"exit", "timeout", "boundary", "remote", "tool", "protocol"}
  Calm = {"run"}
  Opener = {p1, p2}
  Row = {d1}
  NextOpens = TRUE
  Parts = {"one", "two", "adapter", "schema"}
INVARIANTS
  CallsAccounted
  StoresKept
PROPERTIES
  NoTurnAfterwards
  EveryMessageDealt
  OperationEnds
CHECK_DEADLOCK FALSE
