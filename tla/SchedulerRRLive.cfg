SPECIFICATION Spec
CONSTANTS
    Process = {p1, p2}
    Core = {c1, c2}
    Algorithm = "RR"
    Quantum = 2
    DelaysPerExec = 1
    SleepTicks = 2
    Programs <- LongPrograms
    Spurious = FALSE
    NoProcess = NoProcess

PROPERTIES EveryProcessTerminates ShutdownCompletes
