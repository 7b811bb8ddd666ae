\* SAVE on the event loop, with strings, lists and expiries, and restarts
\* that load dump.rdb.
CONSTANTS
    Key <- MCKey
    StrVals <- MCStrVals
    ListElems <- MCListElems
    Writers <- MCSave
    EventLoop = TRUE
    MaxOps = 4
    MaxTime = 2
    MaxRestarts = 2
SPECIFICATION Spec
INVARIANTS TypeOK CodecRoundTrip
PROPERTIES LoadedMatchesLastSave
\* A behaviour ends when the command, clock and restart bounds are spent;
\* the server then waits for commands, which is not a deadlock.
CHECK_DEADLOCK FALSE
