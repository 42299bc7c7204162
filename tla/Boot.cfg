\* Two kernels, one fault, one drive plugged in and one package installed.
CONSTANTS
    Kernels = {1, 2}
    MaxFaults = 1
    MaxPlugs = 1
    MaxApt = 1
SPECIFICATION Spec
INVARIANT Guarded
PROPERTIES BannersTrue PointWhole Finishes
