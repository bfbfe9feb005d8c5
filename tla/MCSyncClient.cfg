\* Two threads of an application, one of which Ctrl-C interrupts.
SPECIFICATION Spec
CONSTANTS
  main = main
  other = other
  Threads <- TwoThreads
  Main = main
  MaxCalls = 3
  MaxInterrupts = 1
INVARIANTS
  TypeOK
  InterruptComesFirst
  NothingStaysOpen
PROPERTIES
  CallsEnd
CHECK_DEADLOCK FALSE
