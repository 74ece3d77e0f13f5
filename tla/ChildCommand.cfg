SPECIFICATION FairSpec
CONSTANTS
  Limit = 2
  PipeSize = 2
  MaxOutput = 5
INVARIANTS TypeOK OnlyWaitOutlives
PROPERTIES ImplementsCommand CallReturns ChildIsNotBlocked
CHECK_DEADLOCK FALSE
