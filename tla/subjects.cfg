CONSTANTS
  Parts = {"presence", "identity", "association", "handover", "rules", "faces"}
  Fence = {"default", "line"}
  Gap = {0, 1}
  OutsideFrames = 3
  UnseenFrames = 3
  MissFrames = 2
  Cooldown = 2
  ExitDebounce = 2
  Bucket = 3
  MaxAge = 7
  MaxClock = 7
  IdentityTrack = {1, 2}
  FaceEntry = {crit}
  PlateEntry = {plate}
  Critical = {crit}
  MaxScore = 2
  RedFrom = 2
  HideAge = 0
  CriticalHideAge = 1
  GlitchAge = 1
  MaxIdentityAge = 1
  MaxHits = 2
  NoEntry = NoEntry
  Detection <- Detections
  Person = "person"
  MaxDetections = 3
  MaxFrames = 2
  Cameras <- CameraOrder
  Track = {1, 2}
  Class = {"person"}
  Name = {n1}
  Threat = {0, 2}
  PlateText = {p}
  Dossier = {d1, d2, d3}
  MaxDossiers = 1
  HandoverWindow = 0
  ActiveFor = 0
  MaxTime = 1
  Unknown = Unknown
  RuleTrack = {1}
  Loiter = 2
  RuleCooldown = 2
  Outside = 2
  Hysteresis = 1
  MaxKeys = 1
  KeepFor = 4
  MaxRuleTime = 5
  Far = 1
  Frame <- Pictures
  Lock = {"none", "critical"}
  MaxCost = 75
SPECIFICATION SubjectsSpec
INVARIANTS TypesOK PresenceIsFresh NoResidue ExitsFollowIntrusions OneTrackPerEntry
INVARIANTS StrongestOverlapFirst LookupsLeadToDossiers LoiterMeansDwell AssignmentIsCheapest
CHECK_DEADLOCK FALSE
