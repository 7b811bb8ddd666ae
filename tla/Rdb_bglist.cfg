\* BGSAVE with RPUSH: a push after the snapshot reaches the file through
\* the list object the snapshot shares with the live store.
CONSTANTS
    Key <- MCKey
    StrVals <- MCStrVals
    ListElems <- MCListElems
    Writers <- MCBg
    EventLoop = FALSE
    MaxOps = 4
    MaxTime = 2
    MaxRestarts = 2
SPECIFICATION Spec
PROPERTIES LoadedMatchesLastSave
\* The bounds end every behaviour; the server then waits for commands.
CHECK_DEADLOCK FALSE
