SPECIFICATION Spec
CONSTANTS
    MaxAttempts = 2
    MaxJobs = 2
    MaxChunks = 3
INVARIANTS
    NotBlockedByDelivery
CHECK_DEADLOCK FALSE
