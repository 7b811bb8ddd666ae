------------------------------ MODULE MCAofLog ------------------------------
(* Model values for AofLog: two keys, so that a replay can recover one    *)
(* key's write without another's.                                         *)
EXTENDS AofLog, TLC

CONSTANTS k1, k2

MCKey == {k1, k2}

MCAll == {"always", "everysec", "no"}
MCAlways == {"always"}
MCNo == {"no"}

Symmetry == Permutations(MCKey)
====
