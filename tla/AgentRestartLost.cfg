\* One update of the control endpoint beside startup and reconnect.
SPECIFICATION MCSpec
CONSTANTS
    Scenes = {"restart"}
    Pieces <- MCPieces
    PieceLen <- MCPieceLen
    CheckpointUnits = 1
    MaxAppend = 2
    Faults = {}
    WritesSettle = TRUE
    Crashes = FALSE
    Absent = Absent
    Corrupt = Corrupt
    d1 = d1
    d2 = d2
    Direct = {d1, d2}
    Callback = {}
    Honest = {d1}
    BlockUnits = 2
    Windows <- MCWindows
    MaxStarts = 1
    NoPiece = NoPiece
    ShHashes = {"h1", "h2"}
    ShSources <- MCShSources
    ShLoopback = {"l"}
    ShPermits = 1
    ShParallel = 2
    ShRounds = 2
    ShKadBelow = 1
    ShMaxRetries = 1
    ShMaxSpawns = 1
    NoHash = "none"
    ArUpdates = {"u1"}
    ArJobs = {}
    ArSearch = {}
    ArConfigs <- MCConfigs
    ArFirst <- MCFirst
    ArIps = {1}
    ArMaxGens = 3
    NoActor = "nobody"
PROPERTY RestartHonoured
CHECK_DEADLOCK FALSE
