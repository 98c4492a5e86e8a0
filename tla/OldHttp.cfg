\* Three connections against restarts, exceptions and a stop() at any point.
SPECIFICATION Spec
CONSTANTS
    Peers = {p1, p2, p3}
    NoPeer = NoPeer
    MaxAccepts = 3
INVARIANTS
    NeverDeaf
    SessionsSurvive
