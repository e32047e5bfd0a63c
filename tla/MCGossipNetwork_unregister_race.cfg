\* The owner closes connections while the constructor's broadcast is queued.
CONSTANTS
    n1 = n1
    n2 = n2
    n3 = n3
    f1 = f1
    s1 = s1
    Node = {n1, n2}
    Foreign = {}
    ForeignTargets = {}
    ForeignServer = {}
    PeerList <- MCPeerList
    MaxCid = 5
    MaxBroadcast = 1
    MaxFeed = 0
    ForeignTypes <- MCAllTypes
    ForeignFormats = {"ok"}
    Crashable = {}
SPECIFICATION Spec
INVARIANT UnregisterIsLast
CHECK_DEADLOCK FALSE
