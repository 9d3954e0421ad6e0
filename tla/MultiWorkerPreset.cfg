SPECIFICATION Spec
CONSTANTS
  BlockSize = 3
  Keys <- MCKeys
  Senders <- MCSenders
  Starts <- GoodStarts
INVARIANT ReadsInPresetOrder
