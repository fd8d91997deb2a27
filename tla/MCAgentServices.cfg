\* Every scene of the agent's services.
CONSTANTS
    Scenes = {"serial", "moved", "overlap", "calm", "flaky", "raced", "discover", "check",
              "tcp", "sound", "faults", "aborted", "applied", "keyword", "source", "notes",
              "snoop", "report", "replay"}
    ArUpdates = {"u1", "u2"}
    ArJobs = {"j", "d"}
    ArSearch = {"j"}
    ArConfigs <- MCConfigs
    ArFirst <- MCFirst
    ArIps = {1, 2}
    ArMaxGens = 3
    NoActor = "nobody"
    NmSpecs <- MCSpecs
    NmOrder <- MCOrder
    NmLease = 5
    NmMargin = 1
    NmFloor = 3
    NmMaxStarts = 2
    NmMaxTicks = 9
    KfContacts = {1, 2, 3, 4}
    KfIp <- MCIp
    KfPorts = {1, 2, 3}
    KfInternal = 1
    KfAttempts = 4
    KfReporters = 3
    KfCount = 2
    KfLimit = 2
    KfProbes = {1, 2, 3}
    KfMaxRounds = 2
    KfNone = KfNone
    PuBatch <- MCBatch
    PuBad = {9}
    PuSynthetic = {3, 4, 5}
    PuSeeds = 3
    PuDrip = 2
    PuDefer = 2
    PuMaxTime = 3
    PuNone = PuNone
    KsTargets = {"t1", "t2"}
    KsIds = {"f1", "f2", "f3"}
    KsIps = {"a", "b"}
    KsPorts = {1, 2}
    KsSizes = {0, 1, 2}
    KsEnabled = TRUE
    KsTtl = 2
    KsCapacity = 3
    KsPerFile = 1
    KsIndex = 4
    KsKeywordMax = 3
    KsHotMargin = 2
    KsLimit = 3
    KsPageMax = 2
    KsWeight <- MCWeight
    KsMaxTime = 2
    SnKeys = {1, 2, 3, 4}
    SnFamily <- MCSnFamily
    SnUsable = {1, 2, 3, 4}
    SnWindow = 1
    SnMax <- MCMax
    SnCooldown <- MCCooldown
    SnDedup = 1
    SnGate = 2
    SnHitMax = 3
    SnMaxObs = 3
    SnMaxTime = 2
    KxRequest <- MCRequest
    PrFamilies = {"keyword", "source", "notes"}
    PrIds = {"r1", "r2", "r3"}
    PrMappable = {"r1", "r2"}
    PrK = 1
    PrFanout = 2
    PrBatch = 2
    PrDepth = 1
    PrThin = 2
    PrStopAfter = 2
SPECIFICATION Spec
INVARIANTS
    StoredIsAlive
    SettledAlone
    MappingsAccounted
    ChecksSound
    AnnouncedIsOffered
    ObservationsKept
    ReplayAccounted
PROPERTIES
    StatsHonest
    StoreHonest
    DemandHonoured
CHECK_DEADLOCK FALSE
