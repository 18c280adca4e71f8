SPECIFICATION Spec
CONSTANTS
  AttemptDelays <- MCAttemptDelays
  SteadyWindow = 2
  AdmissionBudget = 7
  ShortReopensBeforeRecreation = 2
  MaxGeneration = 1
  MaxLoad = 5
INVARIANTS RecoveryNeverStrands IInv
PROPERTIES CommandIsFresh RecoveryWithinBudget SteadyIsEarned
  MandatoryRecreationSticks FailedIsFinal HeuristicRecreationOnce CleanPlaybackConfirms
