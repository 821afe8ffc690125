CONSTANTS
    Pids = {11, 12}
    FdNums = {0, 3}
    Inodes = {1, 2}
    Protos = {1, 2}
    ProtoOf <- MCProtoOf
    MaxChanges = 0
SPECIFICATION NetSpec
INVARIANTS EverySocketListed
CHECK_DEADLOCK FALSE
