CONSTANTS
    Callers = {a1, a2}
    Clients = {c1, c2}
    None = None
    BootStates = {"ON"}
    MaxRequests = 3
    ClientsAnswer = TRUE
    TimeoutsHappen = FALSE
    PlatformMayFail = FALSE
SPECIFICATION Spec
INVARIANTS
    CompletionIsOrderly
    CancelledNotApplied
    AgreesWhenQuiet
CHECK_DEADLOCK FALSE
