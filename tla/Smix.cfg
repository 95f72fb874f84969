SPECIFICATION SmixSpec
CONSTANTS
    NumTracks = 3
    NumVoc = 3
    Virtual = TRUE
    Instruments = {1}
    Levels = {0}
    Nnas = {0, 1}
    Dcas = {0}
    SongTracks = 1
    NumSlots = 2
    Blocks = {b1, b2, b3}
    NULL = NULL
    SONG = SONG
    KEY_CUT = KEY_CUT
    NoEvent = NoEvent
    ReleasesEmpty = FALSE
INVARIANTS
    VoicesPlayLoaded
    CountsAgree
PROPERTIES
    OthersPlayOn
