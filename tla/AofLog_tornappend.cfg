\* Acknowledged writes under the always policy, across crashes, restarts
\* and a clean stop, with no rewrite.
CONSTANTS
    k1 = k1
    k2 = k2
    Key <- MCKey
    Policies <- MCAlways
    BufSize = 32
    MaxWrites = 2
    MaxStops = 2
    MaxInodes = 1
SPECIFICATION Spec
SYMMETRY Symmetry
INVARIANTS NoAckedWriteLost
\* A behaviour ends when the write and stop bounds are spent: the server
\* then idles waiting for commands, which is not a deadlock.
CHECK_DEADLOCK FALSE
