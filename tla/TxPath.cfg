SPECIFICATION Spec
CONSTANTS
  TxStart = 20
  TxEnd = 31
  DataLen = 9
  StatusLen = 2
  Chains <- SmallChains
  Frames = {f1, f2}
INVARIANT StaysInTxBuffer
PROPERTY SendsFrame
