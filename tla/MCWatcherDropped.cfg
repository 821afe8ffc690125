CONSTANTS
    Pids = {p1}
    Bystander = none
    Vals <- MCUidVals
    InspectableUids = {0, 1}
    MaxBirths = 1
    Cap = 1
    Deep = 2
    FilterUids = {1}
    FilterExes = {}
    ExcludeKernel = FALSE
    ReadErrors = FALSE
SPECIFICATION Spec
PROPERTIES ExitedMeansGone
CHECK_DEADLOCK FALSE
