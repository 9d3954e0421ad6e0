SPECIFICATION Spec
SYMMETRY Interchangeable
CHECK_DEADLOCK FALSE
CONSTANTS
  NumTxns = 2
  Threads = {w1, w2, w3}
  NoCondvar = NoCondvar
  MaxIncarnation = 1
INVARIANTS
  TypeOK
  AssertionsHold
  DoneIsOver
  NoLostWakeup
  OneHolder
PROPERTIES
  StatusDiagram
