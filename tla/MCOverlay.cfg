SPECIFICATION Spec
CONSTANTS
  Parts = {"loop", "host", "hotkeys", "binding"}
  Boots = {"b1"}
  NoBoot = "no boot"
  BootBits <- OneBoot
  Generations = {1}
  SequenceNumbers = {1, 2}
  Times = {0, 1}
  Payloads = {"west", "east"}
  ValidPayloads = {"west", "east"}
  HeadingPayloads = {}
  PayloadAge <- LoopAge
  LiveLimit = 0
  DelayedLimit = 1
  Capacity = 3
  Regions = {"A", "B"}
  Poses = {"w", "e"}
  PoseOf <- LoopPose
  InRegion <- LoopRegion
  MapSize <- LoopSize
  MapSettings = {"mini", "expanded"}
  MaxSettingsVersion = 2
  MaxEventsPerTick = 2
  FirstRegion = "A"
  SelectRegion <- LoopSelect
  NoRegion = "none"
  EnabledSettings = {"mini", "expanded"}
  ExpandedSettings = {"expanded"}
  Windows = {"w1", "w2"}
  Observations <- Looks
  MaxFaults = 1
  NoWindow = NoWindow
  Actions <- MCActions
  Chords = {"c1", "c2"}
  MaxRegistrationFaults = 1
  NoHotkey = "no hotkey"
  Instances = {"i1", "i2", "i3"}
  Pids = {"p1", "p2"}
  Builds = {"b1", "b2"}
  Profile = "b1"
  Chunks = 2
  None = None
INVARIANTS DisplayIsBacked WindowStaysInPlace ReaderIsBound
 
CHECK_DEADLOCK FALSE
