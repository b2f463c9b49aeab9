SPECIFICATION FairSpec
CONSTANTS
  N = 2
  CntMod = 8
  Rows = {1}
  MaxCfg = 1
  Allowed = {"dual", "flush"}
INVARIANTS IssuedOnce CfgBarrier
PROPERTY WaitingIssues
