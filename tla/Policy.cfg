SPECIFICATION FairSpec
CONSTANTS
  Others <- SomeOthers
  First <- SomeFirst
  Zvols <- SomeZvols
  Inside <- SomeInside
  MaxChanges = 2
  MaxFaults = 1
  
PROPERTIES Drains
