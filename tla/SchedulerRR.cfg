SPECIFICATION Spec
CONSTANTS
    Process = {p1, p2, p3}
    Core = {c1, c2}
    Algorithm = "RR"
    Quantum = 1
    DelaysPerExec = 1
    SleepTicks = 2
    Programs <- MixedPrograms
    Spurious = TRUE
    NoProcess = NoProcess
SYMMETRY Symmetry
INVARIANTS TypeOK InOnePlace RunnableRegistered CoreAccounting RunningOnCore NoRunWhileAsleep WorkConserving StoppedStaysEmpty
PROPERTIES TerminatedForGood
