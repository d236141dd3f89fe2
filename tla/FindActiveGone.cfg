SPECIFICATION Spec
CONSTANTS
  Ids = {a, b}
  HostId = host
  NoZone = none
  Templates <- GraphicalOnly
  AvailableVTs = {5, 6}
  HostVT = 2
  LeaveForDefault = {a}
  CleanUp = FALSE
  CopiesImage = FALSE
  Restores = FALSE
  Faults = {"vt"}
  Asserts = TRUE
INVARIANTS
  ActiveKnown
