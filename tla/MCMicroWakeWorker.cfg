SPECIFICATION FairSpec
CONSTANTS
    MaxAttempts = 2
    MaxJobs = 3
    MaxChunks = 3
INVARIANTS
    TypeOK
    AwaitedJobIsServed
    CommandNotDropped
    SessionLeavesLittle
    NoBusyLoop
PROPERTIES
    StopsEventually
    ListensAgain
CHECK_DEADLOCK FALSE
