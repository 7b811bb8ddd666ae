\* Goroutine-per-connection server: an UNWATCH that shifts the index slice
\* while another goroutine iterates it makes the fan-out skip a watcher.
CONSTANTS
    c1 = c1
    c2 = c2
    c3 = c3
    k1 = k1
    k2 = k2
    Client <- MCClient2
    Key <- MCKey
    Nil = Nil
    MaxWrites = 2
    MaxQueue = 1
    EventLoop = FALSE
    Rewatch = FALSE
SPECIFICATION Spec
INVARIANT NoLostDirtyMark
