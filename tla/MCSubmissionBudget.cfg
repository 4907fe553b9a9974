SPECIFICATION BudgetSpec
CONSTANTS
    Minute = 2
    Hour = 3
    Day = 5
    max_requests_per_minute = 2
    max_audio_seconds_per_hour = 3
    max_audio_seconds_per_day = 4
    Durations = {1, 2}
    MaxDelay = 1
    MaxTime = 6
    MaxLag = 1
INVARIANTS
    AdmissionsHold
    LimitsHold
    RetryIsExact
    FileIsBounded
CHECK_DEADLOCK FALSE
