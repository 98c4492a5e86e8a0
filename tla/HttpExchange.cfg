\* A client that calls request() and one that calls requestAsync(), against a
\* processor that answers at any time or throws.
SPECIFICATION ExchangeFairSpec
CONSTANTS
    Kinds = {"deferred", "throws"}
    MaxRequests = 2
INVARIANT
    AnswerIsMine
PROPERTIES
    CallReturns
    AsyncResolves
