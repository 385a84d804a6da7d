SPECIFICATION FairSpec
CONSTANT Requests = {"retry", "test"}
INVARIANTS HeartbeatIsCurrent LastSaysOffline NoModelLeft IdleIsReadyOrError
PROPERTIES Stops
CHECK_DEADLOCK FALSE
