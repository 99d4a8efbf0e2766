SPECIFICATION GraphSafety
CONSTANTS
  p1 = p1
  p2 = p2
  p3 = p3
  run = run
  fallback = fallback
  off = off
  none = none
  Process <- MCProcess
  RunTarget <- MCRunTarget
  DependsOn <- FanOut
  SelfTerminating <- NoneSelfTerminating
  Off = off
  Fallback = fallback
  Initial = run
  NoRunTarget = none
INVARIANT SuccessIsAlive
