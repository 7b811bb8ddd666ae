\* Every maxmemory policy, with strings, lists and expiries: the expiry map
\* names only keys that hold data, whatever evictions and deletes came first.
CONSTANTS
    k1 = k1
    k2 = k2
    k3 = k3
    e = e
    Key <- MCKey
    EmptyKey = e
    Policies <- MCAllPolicies
    MaxMemory = 130
    MaxList = 1
    MaxOps = 7
SPECIFICATION Spec
SYMMETRY Symmetry
\* A behaviour ends when the command bound is spent: the server then
\* waits for commands, which is not a deadlock.
CHECK_DEADLOCK FALSE
INVARIANTS TypeOK
