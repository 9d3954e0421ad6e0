SPECIFICATION Spec
SYMMETRY Interchangeable
CHECK_DEADLOCK FALSE
CONSTANTS
  Threads = {w1, w2, w3}
  Modules = {m1, m2}
  MaxRecords = 4
INVARIANTS
  TypeOK
  RaceAlwaysFound
  NoFalseAlarm
