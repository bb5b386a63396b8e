CONSTANTS
  parent = parent
  child = child
  k1 = k1
  k2 = k2
  Branch = {parent, child}
  Parent <- ParentOf
  Response = {r1}
  Imported = {i1}
  Compaction = {k1, k2}
  EventItem = {1, 2, 3, 4}
  Given <- Saved
  Plans <- Recoveries
  MaxVersions = 3
  MaxPrunes = 1
  Absent = Absent
SPECIFICATION ArchiveSpec
INVARIANTS
  ReferencesKept
CHECK_DEADLOCK FALSE
