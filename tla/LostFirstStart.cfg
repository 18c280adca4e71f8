SPECIFICATION Spec
CONSTANTS
  QueueCapacity = 3
  MaxGeneration = 2
  MaxLoad = 1
  MaxRequests = 2
  MaxEntries = 2
INVARIANT FirstStartReported
CHECK_DEADLOCK FALSE
