CONSTANTS
    RingFrames = 4
    MaxPushes = 9
    PullSizes <- MCPullSizes
SPECIFICATION FairSpec
INVARIANTS
    NoDataRace
    DeliveredInOrder
PROPERTIES
    UnreadUntouched
    ImplementsLossyFifo
