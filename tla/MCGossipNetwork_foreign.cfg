\* n2 dials n1 while a foreign client sends n1 anything, parseable or not;
\* n1 dials a foreign server that pushes it anything, parseable or not.
CONSTANTS
    n1 = n1
    n2 = n2
    n3 = n3
    f1 = f1
    s1 = s1
    Node = {n1, n2}
    Foreign = {f1}
    ForeignTargets = {n1}
    ForeignServer = {s1}
    PeerList <- MCForeignServerPeerList
    MaxCid = 4
    MaxBroadcast = 1
    MaxFeed = 0
    ForeignTypes <- MCGossipPingAck
    ForeignFormats = {"ok", "badContent", "badEnvelope"}
    Crashable = {}
SPECIFICATION Spec
INVARIANT RepliesMatchPendingFutures
INVARIANT PushedPingsAnswered
CHECK_DEADLOCK FALSE
