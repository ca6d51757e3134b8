CONSTANTS
  MaxWorkers = 2
  MaxEpoch = 1
SPECIFICATION FairSpec
PROPERTY ReconnectStarts
CHECK_DEADLOCK FALSE
