SPECIFICATION MCSpec
CONSTANTS
  p1 = p1
  p2 = p2
  Pid <- TwoPids
  NoPid = NoPid
  Profiles <- AllProfiles
  Retries = 0
  Overtaking = FALSE
  prod1 = prod1
  prod2 = prod2
  cons1 = cons1
  cons2 = cons2
  Producer = {prod1, prod2}
  Consumer = {cons1, cons2}
  Capacity = 2
  Pushes <- MCPushes
  NoItem = NoItem
  work = work
  alive = alive
  Sender = {work, alive}
  EventCapacity = 3
  MaxEvents = 2
  TimeoutsMs <- MCTimeoutsMs
  NoConfig = NoConfig
INVARIANTS
  
  
  ActivatedHasReported
  RoomInMap
PROPERTIES
  TaskEnds
  CrashIsNoticed
  RingIsFifo
  StopEndsWorkers
  PoolDrains
  LostEventResets
