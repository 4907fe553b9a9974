SPECIFICATION TextSpec
CONSTANTS
    Chars <- MCChars
    Spaces = {"space"}
    Separators = {"space", "quote"}
    Bytes <- MCBytes
    Composed <- MCComposed
    Folded <- MCFolded
    Decomposed <- MCDecomposed
    WordLists <- MCWordLists
    MIN_NORMALIZED_ALIAS_LENGTH = 2
    MAX_EVENT_BYTES = 20
    Metadata = {10, 11, 12, 16}
    MaxText = 5
INVARIANTS
    EncodedIsLongest
    CommandIsRest
    WakeWordAloneIsNoCommand
CHECK_DEADLOCK FALSE
