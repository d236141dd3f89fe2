SPECIFICATION Spec
CONSTANTS
  MaxHosts = 2
  Failures = {}
INVARIANTS
  ConnectedToStarted
CHECK_DEADLOCK FALSE
