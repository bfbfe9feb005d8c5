\* docs/connecting.md: logging out drops the kept credentials.
SPECIFICATION FairSpec
CONSTANTS
  t1 = t1
  t2 = t2
  t3 = t3
  Tasks <- ThreeTasks
  Operations <- LogoutOperations
  MaxOps = 4
  MaxCancels = 0
  KeepCredentials = TRUE
  ExternalSession = FALSE
  AuthDisabled = FALSE
  CurrentContract = TRUE
PROPERTIES
  LogoutEndsReauthentication
CHECK_DEADLOCK FALSE
