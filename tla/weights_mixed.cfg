CONSTANTS
  Model = {m0, m1}
  BaseModel = m0
  Writer = {d1, d2}
  Deleter = {}
  Activator = {}
  NoModelFile = NoModelFile
  Shipped = Shipped
SPECIFICATION Spec
INVARIANT InstalledIsWhole
CHECK_DEADLOCK FALSE
