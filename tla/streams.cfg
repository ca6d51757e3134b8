CONSTANTS
  Parts = {"detector", "playback", "viewers", "plates", "video"}
  Reader = {r1, r2, r3}
  Writer = {w1, w2}
  Model = {m1, m2}
  NoModel = NoModel
  Frames = 2
  MaxRequests = 3
  NoSeek = NoSeek
  Viewer = {v1, v2}
  MaxCaptured = 3
  Job = {j1, j2}
  Track = {1, 2}
  Text = {p, q}
  Listed = {p}
  MaxPending = 2
  Window = 2
  MaxTracks = 1
  MaxEpoch = 1
  NoText = NoText
  Clip <- Clips
  Limit = {0, 2}
  Stride = {0, 9}
  MostFrames = 3
  MostStride = 2
  SkipLoneFaces = TRUE
SPECIFICATION StreamsSpec
INVARIANTS TypesOK InferencesKeepDetector NoSleeperForgotten OldReadsEndWithTheEpoch FacesOfThisFrame NoViewerForgotten
PROPERTIES SeekSurvives WaitersGetThrough RequestsTakeEffect ViewersCatchUp
CHECK_DEADLOCK FALSE
