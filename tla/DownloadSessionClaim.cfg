SPECIFICATION MCSpec
CONSTANTS
    Scenes = {"called"}
    Pieces <- MCPieces
    PieceLen <- MCPieceLen
    CheckpointUnits = 1
    MaxAppend = 2
    Faults = {}
    WritesSettle = TRUE
    Crashes = FALSE
    Absent = Absent
    Corrupt = Corrupt
    d1 = d1
    d2 = d2
    c1 = c1
    Direct = {d1, d2}
    Callback = {c1}
    Honest = {d1}
    BlockUnits = 2
    Windows <- MCWindows
    MaxStarts = 1
    NoPiece = NoPiece
INVARIANT ClaimExclusive
CHECK_DEADLOCK FALSE
