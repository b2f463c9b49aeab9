SPECIFICATION Spec
CONSTANTS
  N = 2
  Sizes <- SizesReal
  MaxReq = 2
  CfgInFlight = FALSE
  ReplayOnBypass = TRUE
INVARIANT ThawedHasNoRequest
