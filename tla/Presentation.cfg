SPECIFICATION FairSpec
CONSTANTS
  Addresses = {1, 2}
  MaxEvents = 2
  MaxAttempts = 2
  RetryDelay = 2
  FrameCeiling = 1
  Sizes = {1, 2}
INVARIANTS SurfaceIsAsBelieved
PROPERTIES LoopKeepsTime PresentationRecovers
