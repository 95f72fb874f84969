\* Nobody interferes; the flow of Scream Tracker 3.21 and of Protracker modules.
SPECIFICATION FairSpec
CONSTANTS
    NumChn = 2
    Trackers <- TwoTrackers
    Songs <- FlowSongs
    MaxSequences = 3
    RowLimit = 12
    OrderLimit = 8
    CountMod = 4
    TimeCap = 30
    Speed = 1
    MaxLoops = 1
    MaxCalls = 0
    Calls = {}
    Modes = {}
INVARIANTS
    MainSequenceClosed
PROPERTIES
    LoopsAreCounted
    JumpsComeFromRow
CHECK_DEADLOCK FALSE
