SPECIFICATION FairMonSpec
CONSTANTS
  Drives = {d1}
  d1 = d1
  NoDrive = NoDrive
  MaxRuns = 2
  MaxFaults = 1
INVARIANTS TrueResults NoGhost ClearTrue
PROPERTIES ResultsStay EndingEnds
