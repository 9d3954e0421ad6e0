SPECIFICATION Spec
CONSTANTS
  BlockSize = 2
  Keys <- MCKeys
  Senders <- MCSenders
  Starts <- GoodStarts
INVARIANT OutputsInBlockOrder
