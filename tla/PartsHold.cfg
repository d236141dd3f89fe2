SPECIFICATION PartsSpec
CONSTANTS
  f1 = f1
  l1 = l1
  m1 = m1
  m2 = m2
  ta = ta
  tb = tb
  FileDecls = {f1}
  MountDecls = {m1, m2}
  LinkDecls = {l1}
  ValidLinks = {}
  Targets = {ta, tb}
  Target <- MCTarget
  Above <- MCAbove
  BusyTargets = {ta, tb}
  ProvisionTemplate <- MCTemplate
  MaxDecls = 2
  MaxApplied = 3
  NetZones = {z1}
  Bridges = {br}
  PhysDevs = {eth}
  ZoneDevs = {d1, d2}
  NumVeths = 2
  Addresses = {ip}
  NumParts = 3
  MaxSeq = 3
  UsecPerMs = 2
  MsPerSec = 2
  MAX_TIME_WINDOW_SEC = 2
  MAX_NUMBER_OF_EVENTS = 4
  numberOfEvents = 3
  timeWindowMs = 3
  MaxTime = 14
  NumTerminals = 2
  IO_BUFFER_SIZE = 2
  PtyCapacity = 1
  MaxTyped = 3
  MaxProduced = 1
  Containers <- MCContainers
  Candidates <- MCCandidates
  InetAddresses <- MCInetAddresses
  FreeNames <- MCFreeNames
  MaxConfigs = 2
  MaxStarts = 2
  Callers = {"t1", "t2"}
  MaxClientCalls = 2
  Width = 4
  UidRanges <- MCUidRanges
  GidRanges <- MCGidRanges
  mPtsGID = 1
  MaxMaps = 2
  ProvisionTargets <- MCProvisionTargets
  UnderTarget <- MCUnderTarget
  HostMounts <- MCHostMounts
  SetUps <- MCSetUps
  CommandLines <- MCCommandLines
  NumListed = 1
  MaxLines = 3
  BusClients = {"b1", "b2"}
  IpcClients = {"i1"}
  MaxBusCalls = 3
  Devices = {"tty", "loop"}
  Paths = {"p"}
  MaxRequests = 3
  NAMESPACES <- MCNamespaces
  Requested <- MCRequested
  Guards = {"c1", "c2"}
  Subsystems <- MCSubsystems
  Groups <- MCGroups
  NameWithin <- MCNameWithin
  PathWithin <- MCPathWithin
  Provided = {"mount"}
  Values = {"maps"}
  Refused = {"maps"}
  MaxObjects = 3
INVARIANTS
  PartsTypeOK
  ProvisionsKept
  NoHalfPairs
  InputsExact
  RelaySound
  InterfacesWired
  StatusSound
  SettingsHold
  InitConfined
  SessionTruthful
  BusSound
  EntrantsConfined
CHECK_DEADLOCK FALSE
