SPECIFICATION Spec
CONSTANTS
    VirtualBytes = 65536
    Slots = 32
    MaxCustomInstructions = 2
    Lines <- SomeLines
    Nesting <- Depth
    Texts <- SomeTexts
CHECK_DEADLOCK FALSE
INVARIANTS
    BuiltAsTyped
