\* mouse.py:153 and test_mouse.py: an unsent press must not turn later movement into a drag.
SPECIFICATION Spec
CONSTANTS
  t1 = t1
  t2 = t2
  left = left
  right = right
  Tasks <- TwoTasks
  Buttons <- OneButton
  Operations <- AllOperations
  Binary = TRUE
  Halves <- Boundaries
  MaxOps = 2
  MaxCancels = 0
  MaxForgets = 0
INVARIANTS
  NoPhantomPress
CHECK_DEADLOCK FALSE
