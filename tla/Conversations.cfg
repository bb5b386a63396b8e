CONSTANTS
  Turn = {a, b, c}
  Unknown = Unknown
  Opaque = Opaque
  Migrates = TRUE
  MayRefuse = TRUE
  Caller = {a, b, c}
  Place = {x, y}
  MaxTail = 2
  Short = 1
  Crashes = 1
  NoOne = NoOne
  Keys = {lease, target, response, checkpoint}
  Durable = {target, response, checkpoint}
  Responses = {response}
  Checkpoints = {checkpoint}
  Cleared = {target}
  Versions = {1, 2}
  Sizes = {1, 2}
  MaxBytes = 3
  None = None
SPECIFICATION SideSpec
SYMMETRY Alike
INVARIANTS
  HistoryTrue
  
  WaitCovers
  AskedOnce
  MadeIsKept
  BytesExact
  
CHECK_DEADLOCK FALSE
