CONSTANTS
  Unset = Unset
  r1 = r1
  r2 = r2
  direct = direct
  hand = hand
  Router = {r1, r2}
  Base = {direct, hand}
  Direct = direct
  EditContent = {r1, r2, hand}
  ToolModeOnly <- Distinct
  MaxAttempts = 2
  MaxEdits = 1
  MaxCrashes = 1
  MaxRestarts = 0
SPECIFICATION Spec
SYMMETRY Symmetry

  
  
PROPERTIES
  EditAtRestSurvives
