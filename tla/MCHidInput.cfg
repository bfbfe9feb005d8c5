\* Two tasks that share mouse and keyboard, on firmware with the binary protocol.
SPECIFICATION Spec
CONSTANTS
  t1 = t1
  t2 = t2
  left = left
  right = right
  Tasks <- TwoTasks
  Buttons <- TwoButtons
  Operations <- SomeOperations
  Binary = TRUE
  Halves <- Boundaries
  MaxOps = 3
  MaxCancels = 1
  MaxForgets = 1
SYMMETRY Symmetry
INVARIANTS
  TypeOK
  UnsentPressNeverDrags
  ClickLeavesNoButton
  ReportsKeepTheirValue
PROPERTIES
  HeldPressesStay
  InputArrivesInOrder
CHECK_DEADLOCK FALSE
