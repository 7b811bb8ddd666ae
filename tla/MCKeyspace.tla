----------------------------- MODULE MCKeyspace -----------------------------
(* Model values for Keyspace: three one-character keys, and the model     *)
(* value that stands for the key "" (outside Key in these runs).           *)
EXTENDS Keyspace, TLC

CONSTANTS k1, k2, k3, e

MCKey == {k1, k2, k3}
MCKey2 == {k1, k2}

MCNoEviction == {"noeviction"}
MCEvicting == {"allkeys-lru", "volatile-lru", "allkeys-random",
               "volatile-random", "volatile-ttl"}
MCAllPolicies == MCNoEviction \cup MCEvicting
MCRandom == {"allkeys-random"}

Symmetry == Permutations(MCKey)
Symmetry2 == Permutations(MCKey2)
====
