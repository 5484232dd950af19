SPECIFICATION Spec
CONSTANTS
    MaxRan = 2
    Breakpoints = TRUE
    Commands = {"halt", "resume"}
    MaxSteps = 2
    HaltWatchdog = 1
    ResumeWatchdog = 1
INVARIANT
    HaltRequestCleared
