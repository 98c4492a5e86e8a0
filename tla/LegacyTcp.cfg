\* A client that comes back, so that several connections have workers at a time:
\* those it has left are still being wound up, and there may be no free thread.
SPECIFICATION FairSpec
CONSTANTS
    Clients = {k1}
    Conns = {c1, c2}
    NoConn = NoConn
    Ids = {0, 1, 2}
    MaxThreads = 2
    MaxSends = 2
CHECK_DEADLOCK FALSE
INVARIANTS
    SlotsAreOwned
    NoMoreAnswersThanPackets
PROPERTY SlotIsFreed
