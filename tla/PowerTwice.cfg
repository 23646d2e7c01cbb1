CONSTANTS
    Callers = {a1, a2}
    Clients = {c1}
    None = None
    BootStates = {"ON"}
    MaxRequests = 3
    ClientsAnswer = TRUE
    TimeoutsHappen = TRUE
    PlatformMayFail = FALSE
SPECIFICATION Spec
INVARIANTS
    CompletedAtMostOnce
CHECK_DEADLOCK FALSE
