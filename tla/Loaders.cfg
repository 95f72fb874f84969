CONSTANTS
    Loaders <- AllLoaders
    KnownFlaws <- Flaws
    KnownLeaks <- Leaks
    DefaultChn = 4
SPECIFICATION LoadSpec
INVARIANTS
    TablesHold
    LoadedIsComplete
    NothingForgotten
    ConvertedIsModule
