\* gnet server (part_000): one event loop, commands of different connections
\* never interleave.  Safety only, so symmetry is sound.
CONSTANTS
    c1 = c1
    c2 = c2
    c3 = c3
    k1 = k1
    k2 = k2
    Client <- MCClient
    Key <- MCKey
    Nil = Nil
    MaxWrites = 2
    MaxQueue = 1
    EventLoop = TRUE
    Rewatch = FALSE
SPECIFICATION Spec
INVARIANT TypeOK
INVARIANT WatchIndexSound
INVARIANT NoLostDirtyMark
INVARIANT NoSpuriousAbort
INVARIANT LogMatchesStore
INVARIANT ExecIsolated
SYMMETRY Symmetry
