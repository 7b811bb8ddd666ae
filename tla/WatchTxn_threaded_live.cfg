\* Goroutine-per-connection server (server.go): index soundness under any
\* interleaving, and EXEC termination under the fairness of the goroutines.
CONSTANTS
    c1 = c1
    c2 = c2
    c3 = c3
    k1 = k1
    k2 = k2
    Client <- MCClient2
    Key <- MCKey
    Nil = Nil
    MaxWrites = 2
    MaxQueue = 1
    EventLoop = FALSE
    Rewatch = FALSE
SPECIFICATION Spec
INVARIANT WatchIndexSound
PROPERTY ExecCompletes
