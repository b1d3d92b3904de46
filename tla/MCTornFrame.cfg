SPECIFICATION Spec
CONSTANTS
  Parts = {"frames"}
  MaxFrames = 2
  MaxVisibility = 0
  MaxStarts = 2
  MaxUploadFailures = 0
  KilledAnywhere = TRUE
  ReaderMayStop = FALSE
  Retry = 1
  HideGrace = 1
  IntentTimeout = 2
  AckTimeout = 3
  MaxOwnChanges = 0
  MaxEscapes = 0
  Threads = {"t1", "t2"}
  MaxGames = 0
  MaxFaults = 0
  Changes = 0
  MaxButtons = 0
  MaxModes = 0
  MaxDrags = 3
  DragLengths <- MCDragLengths
  LaneMax = 3
  MaxRecenters = 1
  MaxSelections = 0
  MaxHostStarts = 2
  Objects = {"o1", "o2"}
  Null = "null"
  Zero = "zero"
  Invalid = "invalid"
  Halves = {"zero", "invalid", "h1"}
  Interval = 3
  Lateness = 2
  MaxTime = 0
  MaxChanges = 3
  MaxSamples = 4
INVARIANTS WholeFrame
CHECK_DEADLOCK FALSE
