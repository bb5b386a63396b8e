CONSTANTS
  p1 = p1
  p2 = p2
  o = o
  d = d
  work = work
  x = x
  y = y
  Process = {p1, p2}
  Official = o
  Default = d
  Other = {work}
  Content = {x, y}
  None = None
  Torn = Torn
  MaxRevision = 3
  MaxFiles = 4
  MaxCrashes = 1
  Proc = {l1, l2, l3}
  Dead = Dead
  Free = Free
  OneBreaker = TRUE
  InTime = TRUE
  MaxDeaths = 3
  parent = parent
  child = child
  k1 = k1
  k2 = k2
  Branch = {parent, child}
  Parent <- ParentOf
  Response = {r1}
  Imported = {i1}
  Compaction = {k1, k2}
  EventItem = {1, 2, 3, 4}
  Given <- Saved
  Plans <- Recoveries
  MaxVersions = 3
  MaxPrunes = 1
  MaxRecords = 4
  MaxLost = 1
  Unbound = Unbound
  Absent = Absent
SPECIFICATION SideSpec
INVARIANTS
  NamedWhole
  NoLostEdit
  
  
PROPERTIES
  Immutable
  PointerNotStolen
  DeadLockBroken
  ImplementsExclusiveLock
  KeepsTheLog
CHECK_DEADLOCK FALSE
