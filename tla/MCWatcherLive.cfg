CONSTANTS
    Pids = {p1}
    Bystander = none
    Vals <- MCCapVals
    InspectableUids = {1}
    MaxBirths = 2
    Cap = 1
    Deep = 1
    FilterUids = {}
    FilterExes = {}
    ExcludeKernel = FALSE
    ReadErrors = FALSE
SPECIFICATION FairSpec
INVARIANTS StatusTold
PROPERTIES Promise ExitedMeansGone StartReported ExitReported StatusChangeReported StopEndsRun
CHECK_DEADLOCK FALSE
