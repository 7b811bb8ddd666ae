----------------------------- MODULE MCWatchTxn -----------------------------
(***************************************************************************)
(* Model-checking instance of WatchTxn: three connections, two keys.      *)
(* Three connections are needed for the fan-out to skip a watcher when    *)
(* another one unwatches; two keys let one client watch a key another     *)
(* client does not write.                                                  *)
(***************************************************************************)
EXTENDS WatchTxn, TLC

CONSTANTS c1, c2, c3, k1, k2

MCClient == {c1, c2, c3}
MCKey == {k1, k2}

\* Two connections: enough for two goroutines to race, small enough to
\* check liveness without symmetry.
MCClient2 == {c1, c2}

Symmetry == Permutations(MCClient) \cup Permutations(MCKey)
=============================================================================
