CONSTANTS
    MaxFileBytes = 3
    MaxServed = 4
    MaxBuffer = 4
SPECIFICATION FairSpec
CHECK_DEADLOCK FALSE
INVARIANTS
    TypeOK
    ExactSize
    ChangeNoticed
PROPERTIES
    ReadLoopEnds
