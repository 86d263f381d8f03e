CONSTANTS
    RaSpeed = 2
    DecSpeed = 1
    Plays = {0, 3, 6, 10, 29, 40}
    CalDuration = 4
    CalDistance = 10
    MaxRa = 6
    MaxDec = 6
    MaxMove = 10
    MaxSteps = 4
    MaxClearing = 8
    MaxFaults = 2
SPECIFICATION FairSpec
INVARIANTS RatesExact RetraceSafe EndsNearStart DecReturns
PROPERTY CalibrationEnds
CHECK_DEADLOCK FALSE
