CONSTANTS
  Save = {t1, t2}
  Fence = {f1}
  NoFence = NoFence
  NoRow = NoRow
  MaxEpoch = 1
SPECIFICATION DurabilitySpec
PROPERTY DisabledStaysDown
