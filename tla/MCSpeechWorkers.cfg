SPECIFICATION FairSpec
CONSTANTS
    MaxAttempts = 3
    maximum_backoff = 6
    MaxFailures = 4
INVARIANTS
    ResultsAreDelivered
    BackoffMatchesFailures
    NoBusyLoop
PROPERTIES
    StopsEventually
CHECK_DEADLOCK FALSE
