SPECIFICATION Spec
CONSTANTS
    Pieces <- MCPieces
    PieceLen <- MCPieceLen
    CheckpointUnits = 2
    MaxAppend = 2
    Faults = {}
    WritesSettle = TRUE
    Crashes = TRUE
    Absent = Absent
    Corrupt = Corrupt
INVARIANT SizeAdoptable
