SPECIFICATION Spec
CONSTANTS
    Process = {p1}
    Core = {c1, c2}
    Algorithm = "RR"
    Quantum = 2
    DelaysPerExec = 1
    SleepTicks = 2
    Programs <- LoopPrograms
    Spurious = FALSE
    NoProcess = NoProcess

INVARIANTS ViolatedIsTerminated
