SPECIFICATION STMSpec
CHECK_DEADLOCK FALSE
CONSTANTS
  NumTxns = 3
  Threads = {w1, w2}
  NoCondvar = NoCondvar
  MaxIncarnation = 9
  Keys <- MCKeys
  Storage <- MCStorage
  VM <- MCVM
  Blocks <- MCBlocks
INVARIANTS
  OutcomeIsSequential
  ReadsSettled
  OutputsSettled
  MemoryAssertionsHold
  NoStaleEstimate
PROPERTY Termination
