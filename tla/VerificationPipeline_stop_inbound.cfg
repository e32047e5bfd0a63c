\* One gossip/msg from the server thread, which may come after stop().
CONSTANTS
    MaxFeed = 0
    MaxGossip = 1
SPECIFICATION Spec
INVARIANT InboundDrainedOnExit
CHECK_DEADLOCK FALSE
