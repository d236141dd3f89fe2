SPECIFICATION Spec
CONSTANTS
  Ids = {a, b}
  HostId = host
  NoZone = none
  Templates <- TextOnly
  AvailableVTs = {}
  HostVT = 2
  LeaveForDefault = {}
  CleanUp = TRUE
  CopiesImage = TRUE
  Restores = FALSE
  Faults = {"db", "create", "image", "file", "kill"}
  Asserts = TRUE
INVARIANTS
  ListedHaveRows
SYMMETRY Renaming
VIEW WithoutReply
CONSTRAINT OnlyActiveRuns
