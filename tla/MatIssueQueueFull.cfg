SPECIFICATION Spec
CONSTANTS
  N = 3
  CntMod = 8
  Rows = {1, 2}
  MaxCfg = 1
  Allowed = {"dual", "overrun"}
INVARIANT CountInRange
