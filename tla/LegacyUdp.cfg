SPECIFICATION UdpFairSpec
CONSTANTS
    ThreadCount = 3
    Backlog = 4
INVARIANT ScansWholeVectors
PROPERTY StopReturns
