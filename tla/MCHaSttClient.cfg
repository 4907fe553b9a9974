SPECIFICATION FairSpec
CONSTANTS
    Handlers = {h1, h2}
    Texts = {t1, t2}
    Invalid = Invalid
    None = None
    SEND_CHUNK_BYTES = 4
    MaxLength = 6
    MaxMessages = 6
    MaxUnread = 2
INVARIANTS
    AudioInOrder
    OutcomeIsHonest
PROPERTIES
    EndsByDeadline
CHECK_DEADLOCK FALSE
