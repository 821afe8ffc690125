CONSTANTS
    Shapes <- MCShapes
    Levels <- MCLevels
    MaxChanges = 2
SPECIFICATION ProfileSpec
INVARIANTS ProfileTypeOK  ReasonsHold QuickNeverHigh QuietAccessExact
CHECK_DEADLOCK FALSE
