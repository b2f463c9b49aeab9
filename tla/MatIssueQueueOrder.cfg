SPECIFICATION Spec
CONSTANTS
  N = 3
  CntMod = 8
  Rows = {1, 2}
  MaxCfg = 2
  Allowed = {"dual"}
INVARIANTS TypeOK AgeOrder OneIssue CfgBarrier IssuedOnce CounterCovers
