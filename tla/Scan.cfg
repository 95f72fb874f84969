\* Order lists with markers, and loops of two channels, under four trackers' rules.
SPECIFICATION ScanSpec
CONSTANTS
    NumChn = 2
    Trackers <- AllRules
    Songs <- ScanSongs
    MaxSequences = 2
    RowLimit = 4
    OrderLimit = 8
    CountMod = 4
    TimeCap = 30
INVARIANTS
    SequencesCoverOrders
    SequencesArePlayable
    LoopsAreActive
PROPERTIES
    SequencesKeepOrders
    ScanAdvances
    ScanTerminates
CHECK_DEADLOCK FALSE
