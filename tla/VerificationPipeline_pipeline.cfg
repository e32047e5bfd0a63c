\* Three items from the constructor and three gossip/msg from the server
\* thread, the owner free to call Network.stop at any point or never.
CONSTANTS
    MaxFeed = 3
    MaxGossip = 3
SPECIFICATION Spec
INVARIANT TypeOK
PROPERTY EveryItemDispatchedUnlessStopped WorkersExitOnStop
CHECK_DEADLOCK FALSE
