\* An application update whose restart meets late answers, logins and logouts.
SPECIFICATION Spec
CONSTANTS
  MaxInstalls = 2
  MaxFaults = 2
  MaxOthers = 3
  MaxPart = 3
  Minimums <- SomeMinimums
INVARIANTS
  TypeOK
  CacheNamesRunningVersion
  GatesFollowVersionOrder
PROPERTIES
  InstallFollowsRestart
  LoneInstallSucceeds
CHECK_DEADLOCK FALSE
