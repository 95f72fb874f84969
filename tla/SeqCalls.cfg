\* Two position calls of any kind, at any moment; an Impulse Tracker module.
SPECIFICATION Spec
CONSTANTS
    NumChn = 2
    Trackers <- ImpulseTracker
    Songs <- CallSongs
    MaxSequences = 3
    RowLimit = 4
    OrderLimit = 8
    CountMod = 4
    TimeCap = 30
    Speed = 1
    MaxLoops = 1
    MaxCalls = 2
    Calls = {"next", "prev", "set", "row", "stop", "restart", "seek", "rescan"}
    Modes <- NoMarkers
INVARIANTS
    TypeOK
    RowExists
    EndPointFits
PROPERTIES
    PositionIsPlayed
CHECK_DEADLOCK FALSE
