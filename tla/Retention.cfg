SPECIFICATION Spec
CONSTANTS
  Sorted <- TwoDatasets
  Root = "a"
  Bpool = {"b"}
  WindowDays = 2
  MaxAges = {0}
  Pause = 3
  MaxPauses = 1
  MonthLen = 4
  RepeatGap = 1
  MaxTime = 8
  MaxBackups = 2
  MaxEvents = 1
  MaxSessions = 1
  MarkFaults = TRUE
INVARIANTS CompleteTrue Reachable
PROPERTY PruneRight
CHECK_DEADLOCK FALSE
