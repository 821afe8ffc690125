CONSTANTS
    Pids = {p1}
    Bystander = none
    Vals <- MCUidVals
    InspectableUids = {0, 1}
    MaxBirths = 1
    Cap = 1
    Deep = 2
    FilterUids = {}
    FilterExes = {}
    ExcludeKernel = FALSE
    ReadErrors = FALSE
SPECIFICATION FairSpec
PROPERTIES OwnerChangeReported
CHECK_DEADLOCK FALSE
