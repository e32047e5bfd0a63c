\* n1 dials n2 and n3; its owner may call close_connections.
CONSTANTS
    n1 = n1
    n2 = n2
    n3 = n3
    f1 = f1
    s1 = s1
    Node = {n1, n2, n3}
    Foreign = {}
    ForeignTargets = {}
    ForeignServer = {}
    PeerList <- MCFanOutPeerList
    MaxCid = 3
    MaxBroadcast = 0
    MaxFeed = 0
    ForeignTypes <- MCAllTypes
    ForeignFormats = {"ok"}
    Crashable = {}
SPECIFICATION Spec
PROPERTY ClosedPeersForgotten
CHECK_DEADLOCK FALSE
