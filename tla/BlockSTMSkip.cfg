SPECIFICATION STMSpec
SYMMETRY Interchangeable
CHECK_DEADLOCK FALSE
CONSTANTS
  NumTxns = 2
  Threads = {w1, w2}
  NoCondvar = NoCondvar
  MaxIncarnation = 9
  Keys <- MCKeys
  Storage <- MCStorage
  VM <- MCVM
  Blocks <- EndedBlocks
INVARIANTS
  SkippedHaveNoEffect
