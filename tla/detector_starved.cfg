CONSTANTS
  Reader = {r1, r2}
  Writer = {w1, w2}
  Model = {m1}
  NoModel = NoModel
SPECIFICATION FairSpec
PROPERTY SwapCompletes
