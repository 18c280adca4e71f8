SPECIFICATION SessionSpec
CONSTANTS
  AttemptDelays <- MCAttemptDelays
  SteadyWindow = 1
  AdmissionBudget = 3
  ShortReopensBeforeRecreation = 1
  MaxGeneration = 1
  MaxLoad = 2
  StreamEndDelay = 1
  MaxStreamEnds = 1
PROPERTIES EveryStallActedOn
