SPECIFICATION FairSpec
CONSTANTS
  MaxHosts = 3
  Failures <- AllFailures
INVARIANTS
  TypeOK
  ExitReported
PROPERTIES
  OneInit
  StopEnds
  StartEnds
  LifeSpec
CHECK_DEADLOCK FALSE
