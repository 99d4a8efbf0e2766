SPECIFICATION MCSpec
CONSTANTS
  d1 = d1
  b1 = b1
  Deadline = {d1}
  DeadlineMin = 1
  DeadlineMax = 2
  Beater = {b1}
  HeartbeatMin = 3
  HeartbeatMax = 4
  State = {"idle", "busy"}
  InitialState = "idle"
  AllowedTargets <- Alternating
  Configurations <- OnlyHeartbeat
  Cycle = 5
  ApiCycle = 5
  Jitter = 0
  LatestStart = 1
  MaxTime = 11
CHECK_DEADLOCK FALSE
INVARIANT
  MultipleIsOutOfRange
