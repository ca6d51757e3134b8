CONSTANTS
  Fence = {"polygon"}
  Gap = {0, 1}
  OutsideFrames = 15
  UnseenFrames = 3
  MissFrames = 5
  Cooldown = 4
  ExitDebounce = 3
  Bucket = 10
  MaxAge = 7
  MaxClock = 26
SPECIFICATION Spec
PROPERTY ReturneeRealerts
CHECK_DEADLOCK FALSE
