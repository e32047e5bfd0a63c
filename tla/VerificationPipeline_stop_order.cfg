\* One item from the constructor and none from the server thread, so that
\* only the order in which stop() releases the two workers is at stake.
CONSTANTS
    MaxFeed = 1
    MaxGossip = 0
SPECIFICATION Spec
INVARIANT NothingForwardedAfterDispatcherExit
CHECK_DEADLOCK FALSE
