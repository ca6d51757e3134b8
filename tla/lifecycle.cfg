CONSTANTS
  MaxWorkers = 2
  MaxEpoch = 1
SPECIFICATION FairSpec
INVARIANTS TypeOK OneCaptureThread NoLostThread ActivePipelineRuns EpochChain
PROPERTIES EpochsMonotone StoppedCameraQuiesces
CHECK_DEADLOCK FALSE
