SPECIFICATION FairSpec
CONSTANTS
    Blank = Blank
    SectionChoices <- MCSectionChoices
    PassiveChoices <- MCPassiveChoices
    SourceChoices <- MCSourceChoices
INVARIANTS
    NothingLeftRunning
    EveryModeAsConfigured
PROPERTIES
    StopsEventually
CHECK_DEADLOCK FALSE
