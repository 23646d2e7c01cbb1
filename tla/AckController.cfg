CONSTANTS
    Clients = {c1, c2}
    TransactionId = 1
    Offsets = {0, 1, 2}
    MaxTime = 4
SPECIFICATION FairSpec
INVARIANTS
    CompletesAtMostOnce
    NeverLeftHanging
    AckedMeansAll
    DelaysAreHonoured
PROPERTIES
    EventuallyCompletes
    ImplementsCompletion
CHECK_DEADLOCK FALSE
