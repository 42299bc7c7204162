SPECIFICATION Spec
CONSTANTS
    Disks = {a, b}
    Sys = sys
    Box = box
    Names = {"backup", "backup2"}
    MaxGuids = 3
    MaxRuns = 2
    MaxFaults = 2
    MaxMoves = 1
    Overlap = FALSE
PROPERTIES EntriesKept AnchorsTrue 
