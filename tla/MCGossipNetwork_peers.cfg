\* Two validators that dial each other; n2 may crash; the owner may close.
CONSTANTS
    n1 = n1
    n2 = n2
    n3 = n3
    f1 = f1
    s1 = s1
    Node = {n1, n2}
    Foreign = {}
    ForeignTargets = {}
    ForeignServer = {}
    PeerList <- MCPeerList
    MaxCid = 5
    MaxBroadcast = 1
    MaxFeed = 1
    ForeignTypes <- MCAllTypes
    ForeignFormats = {"ok"}
    Crashable = {n2}
SPECIFICATION Spec
INVARIANT TypeOK
INVARIANT RepliesMatchPendingFutures
INVARIANT RegisterFirst
CHECK_DEADLOCK FALSE
PROPERTY ChannelSafety
