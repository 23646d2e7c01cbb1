CONSTANTS
    MaxJobs = 3
    MaxRequests = 5
    MaxRetries = 2
SPECIFICATION FairSpec
INVARIANTS
    ActivationIsReal
PROPERTIES
    LeavesDeepSleep
CHECK_DEADLOCK FALSE
