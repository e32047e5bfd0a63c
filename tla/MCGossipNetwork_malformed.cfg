\* n2 dials n1 while a foreign client sends n1 bytes that do not parse.
CONSTANTS
    n1 = n1
    n2 = n2
    n3 = n3
    f1 = f1
    s1 = s1
    Node = {n1, n2}
    Foreign = {f1}
    ForeignTargets = {n1}
    ForeignServer = {}
    PeerList <- MCOneWayPeerList
    MaxCid = 3
    MaxBroadcast = 0
    MaxFeed = 0
    ForeignTypes <- MCGossipOnly
    ForeignFormats = {"badEnvelope", "badContent"}
    Crashable = {}
SPECIFICATION Spec
PROPERTY EveryRequestAcked
CHECK_DEADLOCK FALSE
