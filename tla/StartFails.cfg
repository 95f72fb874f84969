SPECIFICATION ContextSpec
CONSTANTS
    FrameSizes = {1, 2, 3}
    BufferSizes = {0, 1, 2, 4}
    Loops = {0, 1, 2}
    MaxFrames = 4
    MaxPlayers = 2
    Failing = {"open", "dirname", "module", "scan_cnt", "scan", "buffer", "buf32",
               "extras"}
INVARIANTS
    StartReports
CHECK_DEADLOCK FALSE
