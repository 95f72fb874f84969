\* Two moves between two frames, away from the order that plays and back; violated.
SPECIFICATION Spec
CONSTANTS
    NumChn = 2
    Trackers <- ImpulseTracker
    Songs <- PlainSongs
    MaxSequences = 3
    RowLimit = 4
    OrderLimit = 8
    CountMod = 4
    TimeCap = 30
    Speed = 1
    MaxLoops = 1
    MaxCalls = 2
    Calls = {"set"}
    Modes = {}
INVARIANTS
    RowInPattern
CHECK_DEADLOCK FALSE
