\* A client that may pipeline or wait: every order of reads, writes, late answers
\* and deadline.  The statuses of the kinds left out are among those of "otherVerb".
SPECIFICATION FairSpec
CONSTANTS
    Kinds = {"served", "deferred", "throws", "otherVerb", "malformed"}
    MaxRequests = 3
INVARIANTS
    AnswersMatch
    OnlyDeadlineClobbers
    OneReader
    OneLateRequest
    DeadlineArmed
PROPERTIES
    EventuallyClosed
    ComesToRest
