\* clear_calibration while the AO calibrates.
CONSTANTS
    Travels <- MCTravels
    CalSteps = 2
    Samples = 2
    MaxErrors = 1
    Amounts <- MCAmounts
    MaxManual = 1
    Interfere = FALSE
SPECIFICATION Spec
INVARIANTS CalibrationHasState
