SPECIFICATION FairSpec
CONSTANTS
  MaxRuns = 2
  MaxFaults = 2
  MaxGuests = 2
 
PROPERTIES  Released
