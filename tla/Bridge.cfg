SPECIFICATION FairSpec
CONSTANTS
    Base = 4
    LongBytes = 4
    Short = 2
    MaxMessage = 17
    ClientFrames <- SessionFrames
    IdleTimeouts = {0, 1}
    Chunks = 1
    MaxFrames = 2
    MaxPings = 2
INVARIANTS AckNotLost
PROPERTIES OnlyExpectedPongCounts BridgeEnds IdleTunnelEnds
CHECK_DEADLOCK FALSE
