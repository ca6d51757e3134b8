CONSTANTS
  Job = {j1, j2, j3}
  Track = {1}
  Text = {p, q}
  Listed = {}
  MaxPending = 3
  Window = 3
  MaxTracks = 1
  MaxEpoch = 1
  NoText = NoText
SPECIFICATION PlatesSpec
INVARIANT LabelsOfThisEpoch
CHECK_DEADLOCK FALSE
