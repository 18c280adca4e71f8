SPECIFICATION Spec
CONSTANTS
  MaxGeneration = 2
  MaxLoad = 2
  Backlog = 1
  SampleTimes = {1, 2}
  Fills = {0, 1}
  StallConfirmation = 2
  MinStall = 3
  OpenConfirmation = 3
  MinOpen = 3
  CacheGrace = 3
  MinCache = 3
  DecodeConfirmation = 3
  MinDecode = 3
  Limit = 5
  MaterialRewind = 3
  MaterialGap = 2
  Tolerance = 0
  ConfirmationWindow = 2
  BaselineMaxAge = 2
  Cooldown = 4
  RateWindow = 3
  MaxRecoveries = 1
  Elapsed = {1}
  Moves <- MCMoves
  CacheMoves <- MCCacheMoves
  Gaps = {0, 1, 2}
  RetryInterval = 2
  PowerGrace = 3
  Writers = {w1}
  Versions = {v1, v2}
  Accounts = {a, b}
  NoAccount = none
  Capacities = {0, 1, 2, 3}
  MaxLines = 9
  Buffers = {0, 3, 6}
  InitialTarget = 3
  TargetIncrement = 2
  MaxTarget = 6
  MinSpeed = 97
  MaxSpeed = 103
  Gain = 1
  UpdateInterval = 2
  MaxStalls = 3
  SamplingPause = 1
  MaxTime = 5
  MaxDeliveryLoad = 1
  Instances = {i1, i2}
  MaxSession = 3
  MaxLogLines = 1
  Seconds = {s1}
  Copies = 2
  MaxSaved = 2
  CaptureWindow = 1
  Places = {0, 1}
  MaxEdgeLoads = 3
  MaxCompared = 2
  LastEvent = 4
  EffectCounts = {0, 1, 2}
  Channels = {c1, c2}
  MaxPlays = 3
  MaxProviders = 2
  Attempts = 2
  VideoHeights = {1, 2}
  WindowHeights = {2, 4}
  MaxScale = 4
  MaxChosen = 2
  CategoryLists <- MCCategoryLists
  ChannelLists <- MCChannelLists
  NoId = ""
  Vee = v
  Dot = dot
  Other = other
  Tags <- MCTags
  MaxComponentDigits = 2
  Current <- MCCurrent
  MaxVolume = 2
  UnityVolume = 1
  DamagedFiles <- MCDamagedFiles
INVARIANTS
  PartsTypeOK PhaseSettles StallsAreToldFromPlayback
  OneAccount SnapshotIsLatest ControllerIsHonest EvidenceIsKept
  ViewerSeesWhatPlays CorrelationNamesOneChannel FrameFollowsModes PreferencesKept
  ReportIsOfItsRecovery BrowserShowsTheCatalogue OffersTheNewRelease FilterComesToRest
PROPERTIES
  RecoversOnlyLostGround PowerFollowsPlayback ChargesOnlySilence
  ImplementsAtomicFile ImplementsEventLoop
CHECK_DEADLOCK FALSE
