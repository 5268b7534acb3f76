CONSTANTS
  NumBlocks = 4
  Wrap = 4
  MaxRetries = 3
  MaxAsks = 2
  MaxFaults = 3
  MaxVersions = 2
SPECIFICATION FairSpec
CHECK_DEADLOCK FALSE
INVARIANTS TypeOK ReceivedIsPrefix DoneDelivered
PROPERTIES TransferEnds SurvivesFaults
