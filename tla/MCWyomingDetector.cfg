SPECIFICATION FairSpec
CONSTANT MaxChunks = 3
INVARIANTS
    SameStream
    NothingLeftBehind
PROPERTY EndsOnStop
CHECK_DEADLOCK FALSE
