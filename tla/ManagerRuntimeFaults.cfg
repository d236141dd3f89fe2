SPECIFICATION Spec
CONSTANTS
  Ids = {a, b}
  HostId = host
  NoZone = none
  Templates <- GraphicalOnly
  AvailableVTs = {5, 6}
  HostVT = 2
  LeaveForDefault = {}
  CleanUp = FALSE
  CopiesImage = FALSE
  Restores = FALSE
  Faults = {"lxc", "cgroup", "die", "vt", "kill"}
  Asserts = FALSE
INVARIANTS
  RequestPersisted
  EnabledTellsZones
  ZonesDistinct
SYMMETRY Renaming
VIEW WithoutReply
