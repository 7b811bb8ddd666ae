\* Every policy, with rewrites: the log stays well formed.
CONSTANTS
    k1 = k1
    k2 = k2
    Key <- MCKey
    Policies <- MCAll
    BufSize = 32
    MaxWrites = 2
    MaxStops = 2
    MaxInodes = 2
SPECIFICATION Spec
SYMMETRY Symmetry
INVARIANTS TypeOK
\* A behaviour ends when the write and stop bounds are spent: the server
\* then idles waiting for commands, which is not a deadlock.
CHECK_DEADLOCK FALSE
PROPERTIES RecoveredIsPrefix
