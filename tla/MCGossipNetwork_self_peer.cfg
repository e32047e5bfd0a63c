\* n1's peer list names n1 itself.
CONSTANTS
    n1 = n1
    n2 = n2
    n3 = n3
    f1 = f1
    s1 = s1
    Node = {n1, n2}
    Foreign = {}
    ForeignTargets = {}
    ForeignServer = {}
    PeerList <- MCSelfPeerList
    MaxCid = 4
    MaxBroadcast = 1
    MaxFeed = 0
    ForeignTypes <- MCAllTypes
    ForeignFormats = {"ok"}
    Crashable = {}
SPECIFICATION Spec
PROPERTY EveryRequestAcked
CHECK_DEADLOCK FALSE
