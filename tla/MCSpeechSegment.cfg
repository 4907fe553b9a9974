SPECIFICATION Spec
CONSTANTS
    PrebufferCount = 2
    SilenceCount = 2
    MinimumCount = 4
    MinimumSpeechCount = 2
    MaximumCount = 6
    MaxFed = 12
INVARIANTS
    RetainedIsOneRun
    CountersMatchSegment
    PreRollKept
    CompletedIsUsable
PROPERTIES
    NoAudioTwice
CHECK_DEADLOCK FALSE
