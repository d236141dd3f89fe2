SPECIFICATION Spec
CONSTANTS
  Ids = {a, b, c}
  HostId = host
  NoZone = none
  Templates <- TextOnly
  AvailableVTs = {}
  HostVT = 2
  LeaveForDefault = {}
  CleanUp = TRUE
  CopiesImage = TRUE
  Restores = TRUE
  Faults = {"create", "kill"}
  Asserts = TRUE
INVARIANTS
  SwitchingReachesAll
  NothingLeaked
SYMMETRY Renaming
VIEW WithoutReply
