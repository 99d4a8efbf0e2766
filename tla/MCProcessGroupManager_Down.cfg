SPECIFICATION Safety
CONSTANTS
  p1 = p1
  p2 = p2
  run = run
  fallback = fallback
  off = off
  none = none
  unknown = unknown
  c1 = c1
  Process <- MCProcess
  RunTarget <- MCRunTarget
  DependsOn <- Pair
  SelfTerminating <- NoneSelfTerminating
  Off = off
  Fallback = fallback
  Initial = run
  NoRunTarget = none
  Client <- NoClient
  Supervised <- NoneSupervised
  Unknown = unknown
CHECK_DEADLOCK FALSE
INVARIANT DownMeansStopped
