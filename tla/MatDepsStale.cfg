SPECIFICATION DSpec
CONSTANTS
  N = 3
  CntMod = 8
  Rows = {1}
  MaxCfg = 0
  Allowed = {}
  Regs = {0, 1}
  Ops <- MCOps
  Cases = {"stale"}
INVARIANT MapsLastWriter
