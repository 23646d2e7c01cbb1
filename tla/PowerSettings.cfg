CONSTANTS
    Callers = {a1, a2}
    States = {"ON", "DEEP"}
    Default = "ON"
    MaxOps = 3
    MaxRestarts = 2
SPECIFICATION Spec
SYMMETRY CallerSymmetry
INVARIANTS
    SettingsSurvive
    StandbyFollowsSources
CHECK_DEADLOCK FALSE
