SPECIFICATION LmControlSpec
CONSTANTS
  App = App
  Dispatcher = {mw1}
  Discovery = Discovery
  NoThread = NoThread
  SampleCount = 2
  MaxResults = 2
CHECK_DEADLOCK FALSE
INVARIANT
  EverySettlingIsSeen
