SPECIFICATION NodesSpec
CONSTANTS
  p1 = p1
  p2 = p2
  p3 = p3
  run = run
  fallback = fallback
  off = off
  none = none
  Process <- MCProcess
  RunTarget <- MCRunTarget
  DependsOn <- FanOut
  SelfTerminating <- OneSelfTerminating
  Off = off
  Fallback = fallback
  Initial = run
  NoRunTarget = none
  act1 = act1
  act2 = act2
  Activator = {act1, act2}
  NoActivator = none
  Setups <- MCSetups
  MaxStarts = 2
INVARIANTS
  OneTaskPerProcess
  InFlightMatchesState
  StartOrder
  SuccessIsRequestedTarget
  NoOrphan
  StopsBeforeStarts
  InitialActivationIsInitial
  
