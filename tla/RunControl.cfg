SPECIFICATION FairSpec
CONSTANTS
    MaxRan = 2
    Breakpoints = TRUE
    Commands = {"halt", "resume", "reset", "reg"}
    MaxSteps = 2
    HaltWatchdog = 1
    ResumeWatchdog = 1
INVARIANTS
    TypeOK
    ProgbufExclusive
    HaltHolds
    NoStickyError
    StepRunsOne
PROPERTY
    HaltRequestServed
