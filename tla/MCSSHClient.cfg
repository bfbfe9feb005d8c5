SPECIFICATION Spec
CONSTANTS
  t1 = t1
  t2 = t2
  Tasks <- TwoTasks
  MaxOps = 4
  MaxCancels = 1
  MaxBreaks = 1
INVARIANTS
  TypeOK
  NoLeakedConnection
PROPERTIES
  NewerChangeWins
  ImplementsRegister
  GivenUpCommandsEnd
CHECK_DEADLOCK FALSE
