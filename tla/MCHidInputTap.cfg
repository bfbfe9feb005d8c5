\* docs/api.md:113: key_tap releases, and still releases when it is cancelled.
SPECIFICATION FairSpec
CONSTANTS
  t1 = t1
  t2 = t2
  left = left
  right = right
  Tasks <- TwoTasks
  Buttons <- OneButton
  Operations <- Taps
  Binary = TRUE
  Halves <- Boundaries
  MaxOps = 1
  MaxCancels = 1
  MaxForgets = 0
PROPERTIES
  CancelledTapReleases
CHECK_DEADLOCK FALSE
