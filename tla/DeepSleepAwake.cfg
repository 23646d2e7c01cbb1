CONSTANTS
    MaxJobs = 3
    MaxRequests = 5
    MaxRetries = 2
SPECIFICATION Spec
PROPERTY SleepsOnlyInDeepSleep
CHECK_DEADLOCK FALSE
