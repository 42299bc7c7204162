SPECIFICATION Spec
CONSTANTS
  MaxPoints = 3
  MaxActs = 3
  MaxFaults = 1
INVARIANTS LeavesOut WholeTrue 
PROPERTIES Destroys
