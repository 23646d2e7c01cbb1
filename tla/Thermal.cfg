CONSTANTS
    Callers = {a1}
    Temps = {0, 1, 2, 3, 4, 5, 6}
    Thresholds <- MfrThresholds
    GraceValues = {0, 1, 2}
    DeclockGraces = {0, 2}
    MaxGrace = 2
SPECIFICATION Spec
INVARIANTS
    ProtectionInProportion
PROPERTY
    NotFasterTooSoon
CHECK_DEADLOCK FALSE
