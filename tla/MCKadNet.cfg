SPECIFICATION Spec
CONSTANTS
    Scenes = {"routing", "rpc", "seal", "lookup"}
    RtIds <- MCRtIds
    RtIps = {"a1", "a2", "a3", "b1", "lan"}
    RtPorts = {1}
    RtLanIps = {"lan"}
    RtSubnet <- MCRtSubnet
    RtK = 2
    RtKBase = 1
    RtKK = 1
    RtDepthLimit = 2
    RtBinSubnetMax = 1
    RtSubnetMax = 2
    RtMaxSize = 3
    RpcAddrs <- MCRpcAddrs
    RpcCalls = 2
    RpcQuestions <- MCRpcQuestions
    RpcNotices = {"HELLO_RES"}
    RpcInbound = {"RES", "FIREWALLED_RES", "HELLO_RES", "HELLO_RES_ACK", "SEARCH_KEY_REQ"}
    RpcVersions = {5, 8}
    RpcClasses = {"Interactive"}
    RpcBudget <- MCRpcBudget
    RpcFloodMax <- MCRpcFloodMax
    RpcMaxPackets = 2
    RpcMaxNotices = 1
    LkContacts <- MCLkContacts
    LkK = 2
    LkAlpha = 2
    LkReqCount <- MCLkReqCount
    LkFanout = 2
    LkTolerance = 2
    LkEntries = {"e1", "e2", "bad"}
    LkBadEntries = {"bad"}
    LkCap = 1
    LkBuffer = 1
    LkMaxPages = 2
INVARIANTS
    TableSound
    BroadcastOnlyAsked
    CallsBacked
    LookupSound
PROPERTIES
    SplitsLoseNothing
    ImplementsCalls
    LookupEnds
CHECK_DEADLOCK FALSE
