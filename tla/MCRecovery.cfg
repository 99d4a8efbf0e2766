SPECIFICATION RecoverySpec
CONSTANTS
  p1 = p1
  p2 = p2
  run = run
  fallback = fallback
  off = off
  none = none
  unknown = unknown
  c1 = c1
  Process <- MCProcess
  RunTarget <- MCRunTarget
  DependsOn <- Chain
  SelfTerminating <- NoneSelfTerminating
  Off = off
  Fallback = fallback
  Initial = run
  NoRunTarget = none
  Client <- NoClient
  Supervised <- OneSupervised
  Unknown = unknown
  comp1 = comp1
  comp2 = comp2
  comp3 = comp3
  Component <- MCComponent
  ProcessId <- MCProcessId
  MapCapacity = 3
  EarlyReuse = FALSE
  Os = Os
INVARIANTS
  TerminationIsOwn
  ClashIsResolved
PROPERTIES
  FailureRequestsFallback
  TransitionSettles
  TreeIsPidMap
