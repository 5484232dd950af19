SPECIFICATION Spec
CONSTANTS
    MaxRan = 2
    Breakpoints = FALSE
    Commands = {"resume"}
    MaxSteps = 2
    HaltWatchdog = 1
    ResumeWatchdog = 5
INVARIANT
    StepsExecuted
