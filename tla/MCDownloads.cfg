SPECIFICATION MCSpec
CONSTANTS
    Scenes = {"sessions", "called", "faults", "copies"}
    Pieces <- MCPieces
    PieceLen <- MCPieceLen
    CheckpointUnits = 1
    MaxAppend = 2
    Faults = {}
    WritesSettle = TRUE
    Crashes = FALSE
    Absent = Absent
    Corrupt = Corrupt
    d1 = d1
    d2 = d2
    c1 = c1
    Direct = {d1, d2}
    Callback = {c1}
    Honest = {}
    BlockUnits = 2
    Windows <- MCWindows
    MaxStarts = 2
    NoPiece = NoPiece
INVARIANTS
    SessionsSound
    PayloadBacks
    CompletedIsWhole
    DiskKeepsUp
PROPERTIES
    PrefixKept
CHECK_DEADLOCK FALSE
