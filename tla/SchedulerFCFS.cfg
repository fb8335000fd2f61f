SPECIFICATION Spec
CONSTANTS
    Process = {p1, p2}
    Core = {c1, c2}
    Algorithm = "FCFS"
    Quantum = 2
    DelaysPerExec = 1
    SleepTicks = 2
    Programs <- MixedPrograms
    Spurious = FALSE
    NoProcess = NoProcess
INVARIANTS InOnePlace RunningOnCore
PROPERTIES EveryProcessTerminates ShutdownCompletes
