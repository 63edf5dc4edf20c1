SPECIFICATION Spec
CONSTANTS
  TxStart = 6144
  TxEnd = 8191
  DataLen = 1500
  StatusLen = 7
  Chains <- FullChains
  Frames = {f1, f2}
INVARIANT BufferHoldsFrame
