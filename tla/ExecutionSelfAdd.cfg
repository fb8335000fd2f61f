SPECIFICATION Spec
CONSTANTS
    Self = p1
    VirtualBytes = 8
    Slots = 2
    MaxAttempts = 3
    Code <- SelfAddCode
    Programs <- SelfAdd
INVARIANTS
    AddedOnce
