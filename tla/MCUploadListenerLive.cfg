CONSTANTS
    Scenes = {"listener", "dialogue"}
    PdCalls = {"dialled", "callback"}
    PdCaps <- MCPdCaps
    PdInfos = {{}, {"sec", "sx"}}
    PdAsks = {1, 2}
    c1 = c1
    c2 = c2
    p1 = p1
    p2 = p2
    f1 = f1
    NoFile = NoFile
    NoHandle = NoHandle
    Conns <- MCConns
    Peers <- MCPeers
    FriendPeers <- MCFriendPeers
    Files <- MCFiles
    ActiveSlots = 1
    WaitingCapacity = 1
    WaitingTimeout = 1
    GrantedTimeout = 0
    UploadTimeout = 0
    FilePriority = 7
    FriendBonus = 100
    MaxTime = 1
    MaxConnections = 3

SPECIFICATION MCSpec
PROPERTIES
    ConnectionsCatchUp
    GatedWithoutStall
CHECK_DEADLOCK FALSE
