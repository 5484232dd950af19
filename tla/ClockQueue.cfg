SPECIFICATION FairSpec
CONSTANTS
    Callbacks = {c1, c2}
    MaxTime = 2
    PreMax = 2
    MaxItems = 3
INVARIANTS
    TypeOK
    Scanned
PROPERTIES
    RefinesTimer
    DueIsCalled
