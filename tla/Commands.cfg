CONSTANTS
    Pids = {2, 5}
    Looks <- MCLooks
    SaverSees = {0, 3}
    ViewerSees = {3}
    Filters <- MCFilters
    End = End
    MaxMoves = 3
    NsTypes = {net, mnt, time}
    Supported = {net, mnt}
    Ids = {1, 2}
    MaxShifts = 2
    Slots = {1, 2}
    Mappings <- MCMappings
    MaxTouches = 2
SPECIFICATION CommandsSpec
INVARIANTS CommandsTypeOK SteadyNeverDiffers QuietDiffExact SteadyListed SteadyCompared AbsentWasUnseen SettledCounted
PROPERTIES LoadedIsLatest
CHECK_DEADLOCK FALSE
