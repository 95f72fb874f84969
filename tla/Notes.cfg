CONSTANTS
    NumTracks = 1
    NumVoc = 2
    Virtual = TRUE
    Instruments = {0, 1, 2}
    Levels = {0, 1}
    Nnas = {0, 1, 2, 3}
    Dcas = {0, 2, 3}
    Samples = {0, 1}
    Full = 2
    MaxIdx = 6
    MaxKeys = 2
    Speed = 2
    Songs <- AllSongs
SPECIFICATION FairNotes
INVARIANTS SampleAgrees BackgroundIsQuiet DelaysStayInRow
PROPERTIES SustainHolds DyingNotesEnd
