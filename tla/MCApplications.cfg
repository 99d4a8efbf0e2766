SPECIFICATION ApplicationsSpec
CONSTANTS
  d1 = d1
  b1 = b1
  Deadline = {d1}
  DeadlineMin = 1
  DeadlineMax = 2
  Beater = {b1}
  HeartbeatMin = 1
  HeartbeatMax = 2
  State = {"idle", "busy"}
  InitialState = "idle"
  AllowedTargets <- Alternating
  Configurations <- SmallConfigurations
  Cycle = 1
  ApiCycle = 2
  Jitter = 2
  LatestStart = 1
  MaxTime = 8
  ReferenceCycle = 1
  MinIndications = 1
  MaxIndications = 1
  Tolerance = 2
  ChannelSize = 2
  EventsSize = 2
  BufferSize = 4
  LastInstant = 5
  MaxReports = 3
  MaxRequests = 3
  app = app
  mw1 = mw1
  mw2 = mw2
  find = find
  App = app
  Dispatcher = {mw1, mw2}
  Discovery = find
  NoThread = NoThread
  SampleCount = 2
  MaxResults = 3
CONSTRAINT
  ApplicationsHorizon
CHECK_DEADLOCK FALSE
INVARIANTS
  FaultIsDetected
  BadStopIsKept
  SilenceIsDetected
  
  PollingIsExact
  BrokenChannelIsNotAlive
  NothingBeyondSync
  NoResultIsStranded
  ResultsInOrder
  
PROPERTIES
  ErrorsAreReal
  SilentAfterError
