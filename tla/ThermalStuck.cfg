CONSTANTS
    Callers = {a1}
    Temps = {0, 3, 5}
    Thresholds <- MfrThresholds
    GraceValues = {1}
    DeclockGraces = {0}
    MaxGrace = 1
SPECIFICATION FairSpec
PROPERTY
    CriticalSleeps
CHECK_DEADLOCK FALSE
