SPECIFICATION Spec
CONSTANTS
  Ids = {a, b}
  HostId = host
  NoZone = none
  Templates <- GraphicalOnly
  AvailableVTs = {5, 6}
  HostVT = 2
  LeaveForDefault = {a, b}
  CleanUp = FALSE
  CopiesImage = FALSE
  Restores = FALSE
  Faults = {}
  Asserts = TRUE
INVARIANTS
  TypeOK
  ActiveKnown
  DefaultKnown
  RestartRecovers
  OneForeground
  FocusFollows
  AnswersTrue
  ScreenShowsActive
  EnabledTellsZones
PROPERTIES
  GoingDownKeepsState
SYMMETRY Renaming
