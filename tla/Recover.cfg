\* Any three failed commands, signals or kills, over the runs of one recovery.
CONSTANTS
    Drives <- SomeDrives
    MaxFaults = 3
SPECIFICATION Spec
INVARIANTS NoZvols 
PROPERTIES EraseSafe Restores
