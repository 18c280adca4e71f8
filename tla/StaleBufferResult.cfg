SPECIFICATION BufferSpec
CONSTANTS
  MaxGeneration = 1
  MaxLoad = 2
  Backlog = 2
INVARIANTS SettledByOwnResults
CHECK_DEADLOCK FALSE
