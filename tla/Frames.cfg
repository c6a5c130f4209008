SPECIFICATION Spec
CONSTANTS
    Base = 4
    LongBytes = 4
    Short = 2
    MaxMessage = 17
    ClientFrames <- StreamFrames
    IdleTimeouts = {0}
    Chunks = 0
    MaxFrames = 3
    MaxPings = 0
INVARIANTS MessagesIntact FragmentsBounded
PROPERTIES RightCloseCode
CHECK_DEADLOCK FALSE
