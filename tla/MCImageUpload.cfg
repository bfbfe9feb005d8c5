\* Uploads of one name to a Pro or a non-Pro device, with a new login in between.
SPECIFICATION FairSpec
CONSTANTS
  t1 = t1
  t2 = t2
  image = image
  Tasks <- TwoTasks
  Names <- OneImage
  Chunks = 2
  MaxOps = 2
  MaxCancels = 2
  MaxTransitions = 2
INVARIANTS
  TypeOK
  FailedUploadCleansUp
PROPERTIES
  UploadIsWhole
  NoSilentOverwrite
  EveryUploadEnds
CHECK_DEADLOCK FALSE
