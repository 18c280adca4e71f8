SPECIFICATION Spec
CONSTANTS
  QueueCapacity = 3
  MaxGeneration = 1
  MaxLoad = 2
  MaxRequests = 2
  MaxEntries = 2
PROPERTY DiagnosisOfOwnLoad
CHECK_DEADLOCK FALSE
