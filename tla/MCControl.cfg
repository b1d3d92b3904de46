SPECIFICATION Spec
CONSTANTS
  Parts = {"control", "file", "tree", "live", "cloud"}
  MaxVersion = 3
  MaxLayers = 3
  MaxSessions = 2
  CommandCapacity = 1
  Uis = {u1}
  InitialSettings <- MCInitialSettings
  Intents <- MCIntents
  UiRequests <- MCUiRequests
  MaxIntents = 1
  MaxUiRequests = 2
  Lives = {1, 3}
  Minimums = {2}
  MaxClock = 2
  MaxTokens = 2
  Callers = {"a", "b"}
  Ports = {"p"}
  RefreshWindow = 1
  MaxFlows = 2
  MaxCalls = 2
  Looks = {"l1"}
  EarlyClients = FALSE
  MaxChanges = 2
  MaxUpdates = 1
  MaxFailures = 1
  MaxStarts = 2
  MaxShells = 2
  MaxKids = 4
  MaxFaults = 2
  Boots = {"b1"}
  NoBoot = "no boot"
  BootBits <- LiveBits
  Generations = {1}
  SequenceNumbers = {1, 2}
  Times = {0, 1}
  Payloads = {"live", "late", "off"}
  ValidPayloads = {"live", "late", "off"}
  HeadingPayloads = {}
  PayloadAge <- LiveAge
  LiveLimit = 0
  DelayedLimit = 1
  Capacity = 3
  Regions = {"A"}
  Poses = {"in", "out"}
  PoseOf <- LivePose
  InRegion <- LiveMap
  MapSize <- LiveSize
  MapSettings = {"s"}
  MaxSettingsVersion = 2
  MaxEventsPerTick = 2
  Windows = {"p1", "p2"}
  NoWindow = "none"
  TheRegion = "A"
INVARIANTS ControlSafe  ProcessesAreAccounted LivePreviewIsTrusted SessionIsOwn
CHECK_DEADLOCK FALSE
