\* Two peers against every interleaving of listen(), stop() and the destructor.
SPECIFICATION FairSpec
CONSTANT Conns = {c1, c2}
INVARIANTS
    RegistryExact
    ThreadIsOwned
PROPERTY StopReturns
