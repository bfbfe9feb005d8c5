\* docs/connecting.md:52: a new login invalidates the operations that still run.
SPECIFICATION FairSpec
CONSTANTS
  t1 = t1
  t2 = t2
  image = image
  Tasks <- TwoTasks
  Names <- OneImage
  Chunks = 2
  MaxOps = 2
  MaxCancels = 0
  MaxTransitions = 2
PROPERTIES
  OperationsEndWithSession
CHECK_DEADLOCK FALSE
