SPECIFICATION DSpec
CONSTANTS
  N = 3
  CntMod = 8
  Rows = {1, 4}
  MaxCfg = 0
  Allowed = {}
  Regs = {0, 1}
  Ops <- MCOps
  Cases = {}
INVARIANTS RawOrder WarOrder SourcesComeTrue
