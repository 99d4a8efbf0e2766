SPECIFICATION Spec
CONSTANTS
  p1 = p1
  p2 = p2
  run = run
  fallback = fallback
  off = off
  none = none
  unknown = unknown
  c1 = c1
  Process <- OneProcess
  RunTarget <- MCRunTarget
  DependsOn <- Single
  SelfTerminating <- NoneSelfTerminating
  Off = off
  Fallback = fallback
  Initial = run
  NoRunTarget = none
  Client <- OneClient
  Supervised <- NoneSupervised
  Unknown = unknown
CHECK_DEADLOCK FALSE
PROPERTY RequestIsCompleted
