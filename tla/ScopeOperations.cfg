\* A scope that is the only mount; the operations of the event server, and the
\* commands that abort and disturb them.
CONSTANTS
    HasAO = FALSE  AutoExposure = TRUE  UserDecMode = "NORTH"  MaxAttempts = 2
    Commands <- Operating
SPECIFICATION Spec
INVARIANTS SessionInv OneAnswer DecModeRestored ExposureInFlight CaptureAlive
PROPERTY ImplementsOperations
