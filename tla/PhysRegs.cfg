SPECIFICATION FairSpec
CONSTANTS
  NA = 1
  NP = 4
  Width = 2
  RetireWidth = 3
INVARIANTS TypeOK OneMapping OneOwner MirrorExact RenameFollowsRetired FlushAfterWriteBack WaitsForResult
PROPERTIES ReleasedAreFreed
