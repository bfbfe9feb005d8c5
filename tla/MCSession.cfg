\* Three tasks, all operations that race for the session.
SPECIFICATION Spec
CONSTANTS
  t1 = t1
  t2 = t2
  t3 = t3
  Tasks <- ThreeTasks
  Operations <- AllOperations
  MaxOps = 3
  MaxCancels = 1
  KeepCredentials = TRUE
  ExternalSession = FALSE
  AuthDisabled = FALSE
  CurrentContract = TRUE
SYMMETRY Symmetry
INVARIANTS
  TypeOK
  GenerationNamesSession
  LoginHasNoRival
  SessionOwnsState
  NoOrphanConnection
PROPERTIES
  LateRejectionIsHarmless
  ResultsStayInSession
  FailedLoginDropsOldAccount
CHECK_DEADLOCK FALSE
