SPECIFICATION FairSpec
CONSTANTS
    Payloads = {command, event}
    MaxCalls = 2
PROPERTIES
    ImplementsAtLeastOnce
    ClosedStaysClosed
    CallsReturn
CHECK_DEADLOCK FALSE
