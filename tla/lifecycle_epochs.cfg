CONSTANTS
  MaxWorkers = 2
  MaxEpoch = 1
SPECIFICATION Spec
INVARIANT EpochNamesOnePipeline
CHECK_DEADLOCK FALSE
