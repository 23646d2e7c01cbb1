CONSTANTS
    Callers = {1, 2}
    MaxCalls = 3
    MaxDuration = 2
    MaxThreads = 2
    MaxModeCalls = 3
    MaxDeaths = 2
    MaxScripts = 3
    MaxUploadCalls = 4
    MaxFirmwareCalls = 4
    MaxStoreCalls = 2
    Clients = {1, 2}
    MaxDiagCalls = 3
    Messages = {"POWERON", "SAD"}
    MaxSleeps = 1
    MaxMsgCalls = 3
SPECIFICATION Spec
INVARIANTS
    FilesFollowMode
    ScriptIsRecorded
    RegionFitsTerritory
    ChangesAreTold
    CachedModeIsReal
PROPERTIES
    TimedModeEnds
    UploadEnds
    AsyncAnswered
    DestructorEnds
    MessagesAreSent
    DeinitializeEnds
CHECK_DEADLOCK FALSE
