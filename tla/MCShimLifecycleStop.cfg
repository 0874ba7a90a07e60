SPECIFICATION Spec
CONSTANTS
  Pythons = {p1}
  Natives = {n1}
  Nobody = Nobody
  Arguments = {"plain"}
  HasTool = FALSE
  MaxStates = 1
INVARIANT HooksHaveState
CHECK_DEADLOCK FALSE
