\* Every interleaving of the server's two threads, whose processor may call
\* stop(), with a client of any history of calls.
SPECIFICATION ExchangeFairSpec
CONSTANTS
    Backlog = 2
    ProcessorMayStop = TRUE
INVARIANTS
    NoTerminate
    OneBufferUser
    NoThreadAtClose
    ServingIsArmed
    AstrayWasTold
PROPERTIES
    RunsOnce
    StopReturns
