SPECIFICATION FairSpec
CONSTANTS
  N = 2
  Sizes <- SizesReal
  MaxReq = 2
  CfgInFlight = FALSE
  ReplayOnBypass = FALSE
INVARIANTS TypeOK AgeOrder OneGrant GrantIfReady FrozenHasRequest ThawedHasNoRequest NoOrphanRequest OneFinish CountersAgree
PROPERTIES AgePreserved ImplementsLoads LoadsFinish
