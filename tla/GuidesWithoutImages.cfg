\* A capture that is stopped while a guide operation is under way.
CONSTANTS
    HasAO = FALSE  AutoExposure = FALSE  UserDecMode = "AUTO"  MaxAttempts = 2
    Commands <- Stopping
SPECIFICATION Spec
INVARIANT GuidesOnImages
