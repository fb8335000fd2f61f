SPECIFICATION Spec
CONSTANTS
    Process = {p1, p2}
    Times <- Hours
INVARIANTS
    FinishedInOrder
    SteadyShownOnce
SYMMETRY Symmetry
