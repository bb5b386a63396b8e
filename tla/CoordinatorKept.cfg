CONSTANTS
  Client = {c1, c2}
  Target = {a, b}
  None = None
  Agent = Agent
  Dead = Dead
  MaxBegins = 2
  MaxReboots = 0
SPECIFICATION SwitcherSpec
PROPERTIES
  CoordinatorKept
