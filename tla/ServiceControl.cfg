CONSTANTS
  c1 = c1
  c2 = c2
  a = a
  b = b
  Client = {c1, c2}
  Target = {a, b}
  None = None
  Agent = Agent
  Dead = Dead
  MaxBegins = 2
  MaxReboots = 1
  r1 = r1
  r2 = r2
  r3 = r3
  w1 = w1
  w2 = w2
  u = u
  s = s
  Request = {r1}
  Conn = {w1, w2}
  Upgrade = {u}
  Switch = {s}
  MaxConnections = 2
  QueueMax = 2
  Flaky = TRUE
  MaxRestarts = 2
  MaxInterrupts = 1
SPECIFICATION SideSpec
INVARIANTS
  AppliersHoldLock
  CapacityExact
  AcceptingRestored
PROPERTIES
  ExactTransaction
  PendingResolved
  ClosedForgotten
  NoRequestCut
CHECK_DEADLOCK FALSE
