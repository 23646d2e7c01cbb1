CONSTANTS
    Clients = {1, 2}
    Callers = {1, 2}
    Samples = {30, 90}
    HdmiOut = TRUE
    Values = {0, 2, 4}
    MaxSteps = 6
    MaxLanguageSteps = 8
    MaxFrameCalls = 5
    MaxResetCalls = 3
    MaxUptime = 7
    MaxVideoCalls = 3
    MaxAudioCalls = 2
SPECIFICATION Spec
INVARIANTS
    ClientsFollowState
    FileFollowsSettings
    CollectionHasTimer
    AnnouncedOnce
    RebootIsEarned
    CachesAreReal
    MuteIsTold
CHECK_DEADLOCK FALSE
