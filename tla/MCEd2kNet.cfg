SPECIFICATION MCSpec
CONSTANTS
  Scenes = {"files", "mixed", "active", "hunt", "peer", "listener", "jobs"}
  SlReqs = {"k", "s", "s2", "c"}
  SlKind <- MCSlKind
  SlCapacity = 1
  SlProbes = TRUE
  SlRotates = TRUE
  SlMaxSessions = 2
  SlMaxNews = 2
  NoReq = "none"
  Probe = "probe"
  AcServers <- MCAcServers
  AcMax = 3
  AcMaxPages = 2
  NoServer = "none"
  ShHashes = {"h1"}
  ShSources <- MCShSources
  ShLoopback = {"l"}
  ShPermits = 1
  ShParallel = 2
  ShRounds = 2
  ShKadBelow = 1
  ShMaxRetries = 1
  ShMaxSpawns = 2
  NoHash = "none"
  PtMaxPad = 1
  PtMaxPackets = 2
  PtMaxTimeouts = 1
  SjTasks = {"j1", "j2", "j3"}
  SjJob <- MCSjJob
  SjBatch = 1
  SjMost = 2
  SjMock = TRUE
  SjNone = "none"
  c1 = c1
  c2 = c2
  p1 = p1
  p2 = p2
  f1 = f1
  f2 = f2
  NoFile = NoFile
  NoHandle = NoHandle
  Conns <- MCConns
  Peers <- MCPeers
  FriendPeers <- MCFriendPeers
  Files <- MCFiles
  ActiveSlots = 1
  WaitingCapacity = 1
  WaitingTimeout = 1
  GrantedTimeout = 0
  UploadTimeout = 0
  FilePriority = 7
  FriendBonus = 100
  MaxTime = 2
  MaxConnections = 3
INVARIANTS
    ServerHonest
    OutcomeEarned
    StreamAgreed
    ToldIsDelivered
    JobsAccounted
    AnswerMatchesQueue
PROPERTIES
    CompletedNeverFails
    OrphansAgeOut
CHECK_DEADLOCK FALSE
