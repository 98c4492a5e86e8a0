SPECIFICATION FairSpec
CONSTANTS
    Conns = {c1, c2}
    MaxPings = 2
INVARIANT ConnectedHandleLives
PROPERTIES
    PingsArePromises
    PingResolves
    DestructorReturns
