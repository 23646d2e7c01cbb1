CONSTANTS
    Callers = {a1, a2}
    Clients = {c1}
    None = None
    BootStates = {"ON", "DEEP"}
    MaxRequests = 2
    ClientsAnswer = TRUE
    TimeoutsHappen = TRUE
    PlatformMayFail = TRUE
SPECIFICATION FairSpec
PROPERTIES
    SessionsComplete
    CallsReturn
CHECK_DEADLOCK FALSE
