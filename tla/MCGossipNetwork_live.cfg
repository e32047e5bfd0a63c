\* n1 dials n2 and n3, n2 dials n3; n2 may crash; no foreign endpoint.
CONSTANTS
    n1 = n1
    n2 = n2
    n3 = n3
    f1 = f1
    s1 = s1
    Node = {n1, n2, n3}
    Foreign = {}
    ForeignTargets = {}
    ForeignServer = {}
    PeerList <- MCChainPeerList
    MaxCid = 4
    MaxBroadcast = 1
    MaxFeed = 0
    ForeignTypes <- MCAllTypes
    ForeignFormats = {"ok"}
    Crashable = {n2}
SPECIFICATION Spec
PROPERTY BroadcastDelivered
PROPERTY EveryRequestAcked
CHECK_DEADLOCK FALSE
