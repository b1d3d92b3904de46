SPECIFICATION Spec
CONSTANTS
  Parts = {"frames", "drags", "buttons", "capture", "renderer", "pump", "cadence"}
  MaxFrames = 2
  MaxVisibility = 1
  MaxStarts = 2
  MaxUploadFailures = 1
  KilledAnywhere = FALSE
  ReaderMayStop = TRUE
  Retry = 1
  HideGrace = 1
  IntentTimeout = 2
  AckTimeout = 3
  MaxOwnChanges = 2
  MaxEscapes = 2
  Threads = {"t1", "t2"}
  MaxGames = 2
  MaxFaults = 2
  Changes = 4
  MaxButtons = 0
  MaxModes = 0
  MaxDrags = 3
  DragLengths <- MCDragLengths
  LaneMax = 3
  MaxRecenters = 1
  MaxSelections = 0
  MaxHostStarts = 2
  Objects = {"o1", "o2"}
  Null = "null"
  Zero = "zero"
  Invalid = "invalid"
  Halves = {"zero", "invalid", "h1"}
  Interval = 3
  Lateness = 2
  MaxTime = 16
  MaxChanges = 3
  MaxSamples = 3
INVARIANTS WholeFrame PanAccounted CaptureNeedsEscape AttachIsSafe PublishedWasTrue
PROPERTIES NothingGoesBack
CHECK_DEADLOCK FALSE
