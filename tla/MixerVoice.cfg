SPECIFICATION MixSpec
CONSTANTS
    Samples = {"a", "b"}
    Shapes <- SmallShapes
    Steps = {0, 1, 7}
    Offsets = {0, 5}
    TickSize = 2
    BidirAdjust = 1
    ResetAtEnd = FALSE
INVARIANTS
    StaysInSample
    DataRestored
PROPERTIES
    PausedIsSilent
    SwapsAtLoopStart
    TicksEnd
