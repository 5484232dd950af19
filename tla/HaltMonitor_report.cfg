SPECIFICATION MonSpec
CONSTANTS
    MaxRan = 2
    Breakpoints = TRUE
    Commands = {"resume", "reg"}
    MaxSteps = 0
    HaltWatchdog = 0
    ResumeWatchdog = 0
INVARIANT
    ReportsNewHalt
