SPECIFICATION Spec
CONSTANTS
  NR_WP = 3
  Single = {pc}
  Compound = {pc_plus_4}
  Bad = {open_paren}
  Unlexed = {no_token}
INVARIANTS PoolPartition UsedAreValid CompoundNotMissed
PROPERTIES AbortIsFinal ContinueStopsForCause
CHECK_DEADLOCK FALSE
