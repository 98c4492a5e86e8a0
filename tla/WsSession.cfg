\* Each of the three session classes, restarted at will.
SPECIFICATION FairSpec
CONSTANT MaxMessages = 3
INVARIANTS
    ReportsOnce
    NothingLost
    NoHandlerOutlives
PROPERTIES
    EndIsReported
    ReleasedGoes
