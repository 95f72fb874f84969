\* Two tracks, three voices: a track can fill the pool with background notes
\* and steal its own or the other's.
SPECIFICATION Spec
CONSTANTS
    NumTracks = 2
    NumVoc = 3
    Virtual = TRUE
    Instruments = {0, 1}
    Levels = {0, 1}
    Nnas = {0, 2}
    Dcas = {0, 3}
INVARIANTS
    TablesAgree
    RelocationHitsIdle
PROPERTIES
    StealsQuietest
    ForegroundKept
    ImplementsPool
