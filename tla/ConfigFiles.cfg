SPECIFICATION Spec
CONSTANTS
    Files <- ShortFiles
INVARIANTS
    FramesFillMemory
    RollsInRange
    LastLineWins
