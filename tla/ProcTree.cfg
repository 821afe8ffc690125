CONSTANTS
    Pids = {2, 3, 4}
    Uids = {0, 1}
    MaxBirths = 3
    ReadErrors = FALSE
SPECIFICATION TreeSpec
INVARIANTS TreeTypeOK TreeComplete ChainIsPath ChainEnds PruneKeepsAncestry SubtreeIsBeneath
CHECK_DEADLOCK FALSE
