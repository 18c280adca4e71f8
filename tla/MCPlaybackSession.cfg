SPECIFICATION SessionSpec
CONSTANTS
  AttemptDelays <- MCAttemptDelays
  SteadyWindow = 1
  AdmissionBudget = 2
  ShortReopensBeforeRecreation = 1
  MaxGeneration = 2
  MaxLoad = 2
  StreamEndDelay = 1
  MaxStreamEnds = 1
INVARIANTS CommandsSettledInTurn WatchesWhatPlays SessionIsUpToDate
PROPERTIES ImplementsEpisode StallActedOn
