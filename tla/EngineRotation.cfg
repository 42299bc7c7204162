SPECIFICATION Spec
CONSTANTS
  r = r
  b = b
  d1 = d1
  d2 = d2
  Rpool = {r}
  Bpool = {b}
  Drives = {d1, d2}
  NoDrive = NoDrive
  MaxTxg = 4
  MaxFaults = 1
  Mounted = {}
  Prunable = {}
  Excludable = {}
SYMMETRY Rotation
INVARIANT BaseKept
PROPERTIES OthersKept CompleteIsWhole Chained
CHECK_DEADLOCK FALSE
