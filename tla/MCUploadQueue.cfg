CONSTANTS
    p1 = p1
    p2 = p2
    p3 = p3
    f1 = f1
    f2 = f2
    Peers <- MCPeers
    FriendPeers <- MCFriendPeers
    Files <- MCFiles
    ActiveSlots = 1
    WaitingCapacity = 1
    WaitingTimeout = 2
    GrantedTimeout = 0
    UploadTimeout = 1
    FilePriority = 7
    FriendBonus = 100
    MaxTime = 3
    MaxConnections = 3

SPECIFICATION MCSpec
SYMMETRY MCSymmetry
INVARIANTS
    QueueConsistent
    SlotsUsed
    RoomKept
PROPERTIES
    RankDecides
    PlacesKept
CHECK_DEADLOCK FALSE
