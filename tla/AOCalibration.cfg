\* The AO with a travel that leaves no step from its centre, or two.
CONSTANTS
    Travels <- MCTravels
    CalSteps = 2
    Samples = 2
    MaxErrors = 1
    Amounts <- MCAmounts
    MaxManual = 1
    Interfere = FALSE
SPECIFICATION FairSpec
INVARIANTS CalibrationInv PositionKnown WithinTravel CalibrationExact AssertionsHold
PROPERTIES EndsNearCentre CalibrationEnds
