SPECIFICATION Spec
CONSTANTS
  Sections <- MCSections
  Symbols <- MCSymbols
  Targets = {1}
  Max = 2
  MaxTrace = 7
INVARIANT SearchFindsCover
PROPERTY MatchingDepth
CHECK_DEADLOCK FALSE
