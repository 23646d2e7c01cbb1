CONSTANT MaxEvents = 4
SPECIFICATION FairSpec
INVARIANTS
    ConnectedHasType
    SilentInStandby
PROPERTY
    SadBeforeAudio
PROPERTIES
    WaitForSadEnds
    
CHECK_DEADLOCK FALSE
