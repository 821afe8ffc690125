CONSTANTS
    Pids = {p1, p2}
    Bystander = p2
    Vals <- MCNetnsVals
    InspectableUids = {0, 1}
    MaxBirths = 2
    Cap = 1
    Deep = 1
    FilterUids = {0}
    FilterExes = {}
    ExcludeKernel = TRUE
    ReadErrors = TRUE
SPECIFICATION MCSpec
INVARIANTS TypeOK KnownIsTold FilterRespected NetnsTold
CHECK_DEADLOCK FALSE
