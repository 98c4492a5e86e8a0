\* A second connect() after the first connection ended.
SPECIFICATION FairSpec
CONSTANTS
    Conns = {c1, c2}
    MaxPings = 0
PROPERTY ConnectIsCarriedOut
