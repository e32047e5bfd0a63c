\* n1 dials a foreign server that answers its requests and pushes it a
\* well-formed gossip/msg.
CONSTANTS
    n1 = n1
    n2 = n2
    n3 = n3
    f1 = f1
    s1 = s1
    Node = {n1}
    Foreign = {}
    ForeignTargets = {}
    ForeignServer = {s1}
    PeerList <- MCOnlyForeignPeerList
    MaxCid = 3
    MaxBroadcast = 0
    MaxFeed = 0
    ForeignTypes <- MCGossipOnly
    ForeignFormats = {"ok"}
    Crashable = {}
SPECIFICATION Spec
PROPERTY PushedMessagesAcked
CHECK_DEADLOCK FALSE
