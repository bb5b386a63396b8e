CONSTANTS
  Request = {r1}
  Conn = {w1}
  Upgrade = {}
  Switch = {s}
  MaxConnections = 2
  QueueMax = 1
  Flaky = FALSE
  MaxRestarts = 1
  MaxInterrupts = 0
SPECIFICATION DrainSpec
PROPERTIES
  NoTurnCut
