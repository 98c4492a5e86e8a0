\* Requests sent whole (2), in three parts (10) and, at a multiple of
\* MaxPacket, in four parts (12), on a server with two threads.
SPECIFICATION FairSpec
CONSTANTS
    Sizes = {2, 10, 12}
    MaxPacket = 4
    Threads = 2
    BufferUnits = 3
    MaxRequests = 1
    MaxReplies = 1
INVARIANTS
    OnlyEchoes
    JoinedOnce
    JoinedIsWhole
PROPERTY SessionEnds
