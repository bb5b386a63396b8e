CONSTANTS
  t1 = t1
  t2 = t2
  t3 = t3
  Turn = {t1, t2, t3}
  Maximum = {1, 2}
  MaxReloads = 2
  MaxLimiters = 4
  TimeoutMs = 3
  MaxChunks = 3
  ItemsPerRound = 2
  Rounds = 2
  MaxDeltas = 1
  Absent = Absent
  Requests = 3
  MaxRounds = 2
  QuotaHits = TRUE
  None = None
SPECIFICATION SideSpec
INVARIANTS
  SlotsExact
  ClientReads
  PairsWhole
  KeptBeforeTold
  OneVoice
PROPERTIES
  WaiterServed
  GivenUpInSilence
  
  RequestEnds
CHECK_DEADLOCK FALSE
