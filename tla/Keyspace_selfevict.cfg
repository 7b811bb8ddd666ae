\* allkeys-random, string keys: a write that evicts its own key.
CONSTANTS
    k1 = k1
    k2 = k2
    k3 = k3
    e = e
    Key <- MCKey2
    EmptyKey = e
    Policies <- MCRandom
    MaxMemory = 140
    MaxList = 0
    MaxOps = 6
SPECIFICATION Spec
SYMMETRY Symmetry2
INVARIANTS MaxMemoryRespected
CHECK_DEADLOCK FALSE
