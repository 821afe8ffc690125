CONSTANTS
    Pids = {2, 3}
    Uids = {0}
    MaxBirths = 3
    ReadErrors = FALSE
SPECIFICATION TreeSpec
INVARIANTS TreeShowsAll
CHECK_DEADLOCK FALSE
