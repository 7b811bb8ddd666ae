\* Goroutine per connection (server.go), two connections, two keys: the
\* expiry map stays consistent with the data whatever the interleaving.
CONSTANTS
    c1 = c1
    c2 = c2
    k1 = k1
    k2 = k2
    Conn = {c1, c2}
    Key = {k1, k2}
    Val <- MCVal
    Width = 2
    Str = Str
    None = None
    EventLoop = FALSE
    MaxOps = 4
INIT Init
NEXT Next
\* A behaviour ends when the command bound is spent: the server then waits
\* for commands, which is not a deadlock.
CHECK_DEADLOCK FALSE
INVARIANTS TypeOK ExpiryConsistency
