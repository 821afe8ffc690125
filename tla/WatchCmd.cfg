CONSTANTS
    Pids = {p1}
    Cap = 2
    MaxEvents = 3
    MaxStarts = 2
    MaxFails = 1
SPECIFICATION CmdFairSpec
INVARIANTS CmdTypeOK LogFollows ShownIsLogged GluedByAccident
PROPERTIES SignalEnds EventHandled
CHECK_DEADLOCK FALSE
