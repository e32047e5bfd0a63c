\* n2 registers with n1 and then its process dies.
CONSTANTS
    n1 = n1
    n2 = n2
    n3 = n3
    f1 = f1
    s1 = s1
    Node = {n1, n2}
    Foreign = {}
    ForeignTargets = {}
    ForeignServer = {}
    PeerList <- MCOneWayPeerList
    MaxCid = 2
    MaxBroadcast = 0
    MaxFeed = 0
    ForeignTypes <- MCAllTypes
    ForeignFormats = {"ok"}
    Crashable = {n2}
SPECIFICATION Spec
PROPERTY DeadPeersUnregistered
CHECK_DEADLOCK FALSE
