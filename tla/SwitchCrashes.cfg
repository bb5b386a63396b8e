CONSTANTS
  Unset = Unset
  r1 = r1
  r2 = r2
  direct = direct
  hand = hand
  Router = {r1, r2}
  Base = {direct, hand}
  Direct = direct
  EditContent = {hand}
  ToolModeOnly <- Alike
  MaxAttempts = 2
  MaxEdits = 0
  MaxCrashes = 2
  MaxRestarts = 1
SPECIFICATION FairSpec

  
PROPERTIES
  RefinesAtomicSwitch
  CommandEnds
