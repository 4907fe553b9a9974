SPECIFICATION FairSpec
CONSTANTS
    MaxAttempts = 2
    MaxJobs = 3
INVARIANTS
    NoAbandonedJob
    DropsAreCounted
PROPERTIES
    ImplementsMailbox
    EverySubmissionSettles
CHECK_DEADLOCK FALSE
