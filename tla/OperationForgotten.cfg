\* Is every guide operation answered?
CONSTANTS
    HasAO = FALSE  AutoExposure = FALSE  UserDecMode = "AUTO"  MaxAttempts = 2
    Commands <- Answering
SPECIFICATION FairSpec
PROPERTY OperationAnswered
