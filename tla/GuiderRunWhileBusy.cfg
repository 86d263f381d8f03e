\* A star that is selected while the last calibration move is under way.
CONSTANTS
    HasAO = FALSE  AutoExposure = FALSE  UserDecMode = "AUTO"  MaxAttempts = 2
    Commands <- Selecting
SPECIFICATION Spec
INVARIANT GuiderNotBusy
