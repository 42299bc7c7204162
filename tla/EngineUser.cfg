SPECIFICATION FairSpec
CONSTANTS
  r = r
  b = b
  d1 = d1
  d2 = d2
  Rpool = {r}
  Bpool = {}
  Drives = {d1}
  NoDrive = NoDrive
  MaxTxg = 4
  MaxFaults = 2
  Mounted <- Copies
  Prunable <- Copies
  Excludable = {r}
INVARIANTS NoRollback Untroubled
PROPERTIES ResumeKept RunEnds
CHECK_DEADLOCK FALSE
