\* Two tasks on older firmware with a caller's own HTTP session: every
\* operation ends, and the core implements the session register.
SPECIFICATION FairSpec
CONSTANTS
  t1 = t1
  t2 = t2
  t3 = t3
  Tasks <- TwoTasks
  Operations <- EndingOperations
  MaxOps = 3
  MaxCancels = 1
  KeepCredentials = TRUE
  ExternalSession = TRUE
  AuthDisabled = TRUE
  CurrentContract = FALSE
PROPERTIES
  EveryOperationEnds
  ImplementsRegister
CHECK_DEADLOCK FALSE
