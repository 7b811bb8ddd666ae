\* BGSAVE alone, while goroutine-per-connection clients SET, SET PX and
\* DEL during the save; restarts at any step load dump.rdb.
CONSTANTS
    Key <- MCKey
    StrVals <- MCStrVals
    ListElems <- MCNoLists
    Writers <- MCBg
    EventLoop = FALSE
    MaxOps = 4
    MaxTime = 2
    MaxRestarts = 2
SPECIFICATION Spec
PROPERTIES LoadedMatchesLastSave
\* The bounds end every behaviour; the server then waits for commands.
CHECK_DEADLOCK FALSE
