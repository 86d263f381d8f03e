\* An AO that bumps the scope behind it; captures and settling come to an end.
CONSTANTS
    HasAO = TRUE  AutoExposure = FALSE  UserDecMode = "NORTH"  MaxAttempts = 2
    Commands <- Guiding
SPECIFICATION FairSpec
INVARIANTS RequestCountExact FrameNotBusy InTurn StoppedIsTold GuidingReady
           CaptureCleared
PROPERTIES StopEnds SettlingEnds
