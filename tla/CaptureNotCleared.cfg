\* A stop in the middle of an exposure, then a full pause before the image comes.
CONSTANTS
    HasAO = FALSE  AutoExposure = FALSE  UserDecMode = "AUTO"  MaxAttempts = 2
    Commands <- Pausing
SPECIFICATION Spec
INVARIANT CaptureCleared
