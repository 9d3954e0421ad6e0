SPECIFICATION Spec
CHECK_DEADLOCK FALSE
CONSTANTS
  Stored = {s}
  Limit = 3
  MaxOps = 5
  Values <- MCValues
INVARIANT KeysUnique
