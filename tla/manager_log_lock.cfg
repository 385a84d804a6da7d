SPECIFICATION Spec
CONSTANT Requests = {"retry", "test"}
INVARIANTS LogIsNotAwaitedUnderLock
CHECK_DEADLOCK FALSE
