SPECIFICATION Spec
CONSTANTS
    MaxProcesses = 2
    MaxTicks = 3
    BatchFreq = 1
    UserNames <- OwnNames
    Uninitialised <- Junk
INVARIANTS
    ScheduledHasMemory
