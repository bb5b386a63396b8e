CONSTANTS
  p1 = p1
  p2 = p2
  o = o
  d = d
  work = work
  x = x
  y = y
  Process = {p1}
  Official = o
  Default = d
  Other = {work}
  Content = {x, y}
  None = None
  Torn = Torn
  MaxRevision = 2
  MaxFiles = 5
  MaxCrashes = 1
SPECIFICATION Spec
INVARIANTS
  NextRevisionFree
