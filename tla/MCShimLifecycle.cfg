SPECIFICATION FairSpec
CONSTANTS
  Pythons = {p1, p2}
  Natives = {n1}
  Nobody = Nobody
  Arguments = {"plain", "code"}
  HasTool = TRUE
  MaxStates = 2
INVARIANTS
  HookedIsAlive
  HooksMatchState
  OnlyArgumentsBlock
PROPERTY CallsReturn
CHECK_DEADLOCK FALSE
