SPECIFICATION Spec
CONSTANTS
  QueueCapacity = 2
  MaxGeneration = 3
  MaxLoad = 2
  MaxRequests = 3
  MaxEntries = 3
INVARIANTS EventsOfTheRightLoad NothingIsLost
PROPERTIES EvidenceIsOwn
CHECK_DEADLOCK FALSE
