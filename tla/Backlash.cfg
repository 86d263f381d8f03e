CONSTANTS
    Offsets <- MCOffsets
    MinMove = 1
    HISTORY_DEPTH = 5
    MIN_COMP_AMOUNT = 4
    MAX_COMP_AMOUNT = 8
    Settings <- MCSettings
    MaxDec = 7
SPECIFICATION Spec
 
PROPERTY AdjustmentBounded
CHECK_DEADLOCK FALSE
