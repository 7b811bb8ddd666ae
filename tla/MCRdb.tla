------------------------------- MODULE MCRdb -------------------------------
(* Bytes for Rdb: the keys "x" and "y", the strings "7" (stored as an int) *)
(* and "a", and the list element "b".                                      *)
EXTENDS Rdb

MCKey == {<<120>>, <<121>>}
MCStrVals == {<<55>>, <<97>>}
MCListElems == {<<98>>}
MCNoLists == {}
MCSave == {"save"}
MCBg == {"bg"}
MCBoth == {"save", "bg"}
====
