\* One peer is enough.
SPECIFICATION Spec
CONSTANT Conns = {c1}
INVARIANT StopClosesAll
