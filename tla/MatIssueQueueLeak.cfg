SPECIFICATION Spec
CONSTANTS
  N = 3
  CntMod = 8
  Rows = {1}
  MaxCfg = 1
  Allowed = {}
INVARIANT FinishedArePopped
