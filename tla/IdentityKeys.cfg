CONSTANTS
  p = p
  c1 = c1
  u1 = u1
  u2 = u2
  u3 = u3
  Asker = {i1, i2}
  Token = {a1, a2}
  NoToken = NoToken
  FreshMs = 2
  SkipMs = 2
  MaxClock = 2
  MaxLogins <- LoginsOf
  Thread = {p, c1}
  Parent <- ParentOf
  TurnOf <- ThreadOf
  ClientKey = {k}
  Unset = Unset
  TtlMs = 2
  MaxLineages = 3
  MaxTime = 3
  MaxSecrets = 2
  MaxRequests = 5
  MaxKills = 1
SPECIFICATION SideSpec
SYMMETRY Alike
INVARIANTS
  AnsweredTrue
PROPERTIES
  KeyKept
CHECK_DEADLOCK FALSE
