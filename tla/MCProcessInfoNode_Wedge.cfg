SPECIFICATION Spec
CONSTANTS
  p1 = p1
  p2 = p2
  Pid <- TwoPids
  NoPid = NoPid
  Profiles <- AllProfiles
  Retries = 0
  Overtaking = FALSE
INVARIANTS
  TerminatingIsInProgress
