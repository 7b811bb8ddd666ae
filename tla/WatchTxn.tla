------------------------------ MODULE WatchTxn ------------------------------
(***************************************************************************)
(* The session and transaction layer of the server: MULTI / EXEC /         *)
(* DISCARD / WATCH / UNWATCH per connection, the server's inverse index    *)
(* key -> watching clients, the key-modified fan-out that marks watchers   *)
(* dirty, and the command-log append that follows every successful write. *)
(*                                                                         *)
(* Two schedulers are modelled, selected by the constant EventLoop:        *)
(*  - FALSE: internal/server/server.go, one goroutine per connection; the  *)
(*    index is guarded by watchedKeyMu but MarkKeyModified iterates the    *)
(*    slice it read after releasing that lock;                             *)
(*  - TRUE:  the gnet server (unnamed/part_000), one event loop, so every  *)
(*    command of one connection runs to completion before any other.       *)
(*                                                                         *)
(* The index entry watchedKeys[k] is a Go slice.  It is modelled as its    *)
(* backing array watchArr[k] (all cap slots) and its length watchLen[k],   *)
(* because removal shifts the backing array in place and a fan-out that    *)
(* is iterating an older slice header over the same array sees the shift. *)
(* A fan-out that iterates an array the index no longer uses sees a frozen *)
(* copy of it: Go never writes an abandoned backing array again.           *)
(*                                                                         *)
(* Data is abstracted: a write command is "a write to key k"; the value    *)
(* written is the identity of the writer, enough to tell two orders of     *)
(* writes apart.  Commands that do not write leave this state unchanged    *)
(* and are not modelled.                                                   *)
(***************************************************************************)
EXTENDS Naturals, Sequences, FiniteSets, FiniteSetsExt

CONSTANTS
    Client,      \* connections (model values)
    Key,         \* keys (model values)
    Nil,         \* no client / no value (model value)
    MaxWrites,   \* bound on committed plus queued writes
    MaxQueue,    \* bound on the commands queued by one MULTI
    EventLoop,   \* TRUE: gnet single event loop; FALSE: goroutine per client
    Rewatch      \* TRUE: WATCH may name a key the client already watches

ASSUME Nil \notin Client
ASSUME MaxWrites \in Nat /\ MaxQueue \in Nat \ {0}
ASSUME EventLoop \in BOOLEAN /\ Rewatch \in BOOLEAN

VARIABLES
    pc,            \* per client: "idle" | "mark" | "log" | "exec" | "gone"
    inTransaction, \* Client.inTransaction
    txQueue,       \* Client.txQueue: the keys of the queued write commands
    watchedKeys,   \* Client.watchedKeys
    isDirty,       \* Client.isDirty
    watchArr,      \* backing array of Server.watchedKeys[k] (<<>> = no entry)
    watchLen,      \* length of the slice Server.watchedKeys[k]
    fanout,        \* per client: the MarkKeyModified loop it is running
    store,         \* key -> client whose write is the current value (or Nil)
    aof,           \* the command log: <<key, writer>> in Append order
    writes,        \* committed plus queued writes, bounded by MaxWrites
    touched        \* ghost: a write hit a key the client watches since WATCH

vars == <<pc, inTransaction, txQueue, watchedKeys, isDirty, watchArr,
          watchLen, fanout, store, aof, writes, touched>>

\* A fan-out: the key and slice length it read, its loop index, whether it
\* still iterates the array the index uses (live) or a frozen copy (view),
\* the pc to return to, and the ghost set of watchers it owes a mark.
NoFanout == [key |-> Nil, n |-> 0, i |-> 1, live |-> TRUE, view |-> <<>>,
             ret |-> "idle", owed |-> {}]

(***************************************************************************)
(* Go slice helpers.                                                       *)
(***************************************************************************)
\* The capacity Go's append gives when it outgrows a pointer slice of cap n.
GrowCap(n) == IF n = 0 THEN 1 ELSE 2 * n

\* Mutant: append writes in place even when the backing array is full.
AppendArrNoGrow(arr, len, c) == [arr EXCEPT ![len + 1] = c]

\* append(s, c) where s = watchedKeys[k]: in place while len < cap, else a
\* new backing array holding the old elements, c, and nil slots.
AppendArr(arr, len, c) ==
    IF len < Len(arr)
    THEN [arr EXCEPT ![len + 1] = c]
    ELSE SubSeq(arr, 1, len) \o <<c>>
           \o [j \in 1..(GrowCap(len) - len - 1) |-> Nil]

\* Mutant: the removal is off by one and drops the element after c.
ShiftOutNext(arr, len, i) ==
    SubSeq(arr, 1, i) \o SubSeq(arr, i + 2, len) \o SubSeq(arr, len, Len(arr))

\* append(clients[:i], clients[i+1:]...): shifts the tail left by one in the
\* same backing array; slot len keeps its old value.
ShiftOut(arr, len, i) ==
    SubSeq(arr, 1, i - 1) \o SubSeq(arr, i + 1, len) \o SubSeq(arr, len, Len(arr))

\* Index of the first occurrence of c in the slice of k, 0 when absent.
FirstIndex(k, c) ==
    LET I == {j \in 1..watchLen[k] : watchArr[k][j] = c}
    IN IF I = {} THEN 0 ELSE Min(I)

(***************************************************************************)
(* Scheduling: under the event loop a client's step may run only while no *)
(* other client is in the middle of a command.                             *)
(***************************************************************************)
Busy(c) == pc[c] \in {"mark", "log", "exec"}

Scheduled(c) == EventLoop => \A d \in Client \ {c} : ~Busy(d)

\* Store.Set and the other writers hold the store's mutex while they call
\* the key-modified handler (store_test.go 1284-1309), so a write commits
\* only while no other write is running its fan-out.
StoreFree(c) == \A d \in Client \ {c} : pc[d] # "mark"

\* Fan-outs iterating the array of k that the index is about to abandon
\* keep a frozen copy of it.
FreezeViews(k, arrNow) ==
    [w \in Client |->
        IF fanout[w].key = k /\ fanout[w].live
        THEN [fanout[w] EXCEPT !.live = FALSE, !.view = arrNow]
        ELSE fanout[w]]

(***************************************************************************)
(* watchKey(c, k), server.go 346-353: c.watchedKeys[k] = true and append c *)
(* to watchedKeys[k] under watchedKeyMu.                                   *)
(***************************************************************************)
WatchKey(c, k) ==
    LET grows == watchLen[k] = Len(watchArr[k])
    IN /\ watchedKeys' = [watchedKeys EXCEPT ![c] = @ \cup {k}]
       /\ watchArr' = [watchArr EXCEPT ![k] = AppendArr(@, watchLen[k], c)]
       /\ watchLen' = [watchLen EXCEPT ![k] = @ + 1]
       /\ fanout' = IF grows THEN FreezeViews(k, watchArr[k]) ELSE fanout

(***************************************************************************)
(* unwatchAll(c), server.go 355-377: under watchedKeyMu, for every key c   *)
(* watches remove the first occurrence of c from watchedKeys[k], deleting  *)
(* the entry when it empties; then clear c.watchedKeys and c.isDirty.      *)
(* Ghosts: pending fan-outs no longer owe c a mark, c is untouched.       *)
(***************************************************************************)
\* The backing array of k after removing c's first occurrence in place.
ShiftedArr(c, k) ==
    IF FirstIndex(k, c) = 0 THEN watchArr[k]
    ELSE ShiftOut(watchArr[k], watchLen[k], FirstIndex(k, c))

\* Mutant: unwatchAll forgets to clear isDirty.
ResetWatchStateKeepDirty(c) ==
    /\ watchedKeys' = [watchedKeys EXCEPT ![c] = {}]
    /\ isDirty' = isDirty
    /\ touched' = [touched EXCEPT ![c] = FALSE]

\* c.watchedKeys = make(...); c.isDirty = false (server.go 375-376).
ResetWatchState(c) ==
    /\ watchedKeys' = [watchedKeys EXCEPT ![c] = {}]
    /\ isDirty' = [isDirty EXCEPT ![c] = FALSE]
    /\ touched' = [touched EXCEPT ![c] = FALSE]

UnwatchAll(c) ==
    LET hit     == {k \in watchedKeys[c] : FirstIndex(k, c) # 0}
        emptied == {k \in hit : watchLen[k] = 1}
    IN /\ watchArr' = [k \in Key |->
                          IF k \in emptied THEN <<>>
                          ELSE IF k \in hit THEN ShiftedArr(c, k)
                          ELSE watchArr[k]]
       /\ watchLen' = [k \in Key |-> IF k \in hit THEN watchLen[k] - 1
                                                    ELSE watchLen[k]]
       /\ fanout' = [w \in Client |->
                        LET f == fanout[w] IN
                        LET freeze == f.key \in emptied /\ f.live IN
                        [f EXCEPT !.live = f.live /\ ~freeze,
                                  !.view = IF freeze THEN ShiftedArr(c, f.key) ELSE @,
                                  !.owed = @ \ {c}]]
       /\ ResetWatchState(c)

(***************************************************************************)
(* A write command of c to k commits in the store, which calls            *)
(* MarkKeyModified(k): it reads the slice header of watchedKeys[k] under  *)
(* the read lock (server.go 380-382) and then iterates it unlocked.  The   *)
(* ghost owed records the clients watching k when the write committed;     *)
(* touched marks its watchers, except the writer itself running its EXEC.  *)
(***************************************************************************)
Commit(c, k, ret) ==
    /\ store' = [store EXCEPT ![k] = c]
    /\ fanout' = [fanout EXCEPT ![c] =
                    [key |-> k, n |-> watchLen[k], i |-> 1, live |-> TRUE,
                     view |-> <<>>, ret |-> ret, owed |-> {d \in Client : k \in watchedKeys[d]}]]
    /\ pc' = [pc EXCEPT ![c] = "mark"]
    /\ touched' = [d \in Client |->
                    touched[d] \/ (k \in watchedKeys[d] /\ ~(d = c /\ ret = "exec"))]

(***************************************************************************)
(* Client commands, processCommand server.go 167-279.                      *)
(***************************************************************************)
Multi(c) ==
    /\ pc[c] = "idle" /\ Scheduled(c)
    /\ ~inTransaction[c]
    /\ inTransaction' = [inTransaction EXCEPT ![c] = TRUE]
    /\ txQueue' = [txQueue EXCEPT ![c] = <<>>]
    /\ UNCHANGED <<pc, watchedKeys, isDirty, watchArr, watchLen, fanout,
                   store, aof, writes, touched>>

\* EXEC on a dirty client: drop the transaction, unwatch, reply null.
ExecAbort(c) ==
    /\ pc[c] = "idle" /\ Scheduled(c)
    /\ inTransaction[c] /\ isDirty[c]
    /\ inTransaction' = [inTransaction EXCEPT ![c] = FALSE]
    /\ txQueue' = [txQueue EXCEPT ![c] = <<>>]
    /\ writes' = writes - Len(txQueue[c])
    /\ UnwatchAll(c)
    /\ UNCHANGED <<pc, store, aof>>

\* Mutant: EXEC runs the queue without checking isDirty.
ExecStartNoCheck(c) ==
    /\ pc[c] = "idle" /\ Scheduled(c)
    /\ inTransaction[c]
    /\ pc' = [pc EXCEPT ![c] = "exec"]
    /\ UNCHANGED <<inTransaction, txQueue, watchedKeys, isDirty, watchArr,
                   watchLen, fanout, store, aof, writes, touched>>

\* EXEC on a clean client starts running the queue.
ExecStart(c) ==
    /\ pc[c] = "idle" /\ Scheduled(c)
    /\ inTransaction[c] /\ ~isDirty[c]
    /\ pc' = [pc EXCEPT ![c] = "exec"]
    /\ UNCHANGED <<inTransaction, txQueue, watchedKeys, isDirty, watchArr,
                   watchLen, fanout, store, aof, writes, touched>>

\* executeCommand on the next queued command.
ExecNext(c) ==
    /\ pc[c] = "exec" /\ Scheduled(c)
    /\ txQueue[c] # <<>> /\ StoreFree(c)
    /\ Commit(c, Head(txQueue[c]), "exec")
    /\ txQueue' = [txQueue EXCEPT ![c] = Tail(@)]
    /\ UNCHANGED <<inTransaction, watchedKeys, isDirty, watchArr, watchLen,
                   aof, writes>>

\* After the loop: leave the transaction and unwatch everything.
ExecDone(c) ==
    /\ pc[c] = "exec" /\ Scheduled(c)
    /\ txQueue[c] = <<>>
    /\ pc' = [pc EXCEPT ![c] = "idle"]
    /\ inTransaction' = [inTransaction EXCEPT ![c] = FALSE]
    /\ UnwatchAll(c)
    /\ UNCHANGED <<txQueue, store, aof, writes>>

Discard(c) ==
    /\ pc[c] = "idle" /\ Scheduled(c)
    /\ inTransaction[c]
    /\ inTransaction' = [inTransaction EXCEPT ![c] = FALSE]
    /\ txQueue' = [txQueue EXCEPT ![c] = <<>>]
    /\ writes' = writes - Len(txQueue[c])
    /\ UnwatchAll(c)
    /\ UNCHANGED <<pc, store, aof>>

\* WATCH k (a WATCH of several keys is several watchKey calls in a row).
Watch(c, k) ==
    /\ pc[c] = "idle" /\ Scheduled(c)
    /\ ~inTransaction[c]
    /\ Rewatch \/ k \notin watchedKeys[c]
    /\ WatchKey(c, k)
    /\ UNCHANGED <<pc, inTransaction, txQueue, isDirty, store, aof, writes, touched>>

Unwatch(c) ==
    /\ pc[c] = "idle" /\ Scheduled(c)
    /\ UnwatchAll(c)
    /\ UNCHANGED <<pc, inTransaction, txQueue, store, aof, writes>>

\* Any other command inside MULTI is queued.
Queue(c, k) ==
    /\ pc[c] = "idle" /\ Scheduled(c)
    /\ inTransaction[c]
    /\ Len(txQueue[c]) < MaxQueue /\ writes < MaxWrites
    /\ txQueue' = [txQueue EXCEPT ![c] = Append(@, k)]
    /\ writes' = writes + 1
    /\ UNCHANGED <<pc, inTransaction, watchedKeys, isDirty, watchArr,
                   watchLen, fanout, store, aof, touched>>

\* A write command outside MULTI runs its handler at once.
Write(c, k) ==
    /\ pc[c] = "idle" /\ Scheduled(c)
    /\ ~inTransaction[c]
    /\ writes < MaxWrites /\ StoreFree(c)
    /\ Commit(c, k, "idle")
    /\ writes' = writes + 1
    /\ UNCHANGED <<inTransaction, txQueue, watchedKeys, isDirty, watchArr,
                   watchLen, aof>>

(***************************************************************************)
(* MarkKeyModified loop, server.go 384-388: one element of the slice per   *)
(* step, read from the live array or from the frozen copy.                 *)
(***************************************************************************)
\* Mutant: the loop index is never advanced.
MarkStepStuck(c) ==
    LET f == fanout[c]
        d == IF f.live THEN watchArr[f.key][f.i] ELSE f.view[f.i]
    IN /\ pc[c] = "mark" /\ Scheduled(c)
       /\ f.i <= f.n
       /\ isDirty' = IF d \in Client THEN [isDirty EXCEPT ![d] = TRUE] ELSE isDirty
       /\ UNCHANGED <<pc, inTransaction, txQueue, watchedKeys, watchArr,
                      watchLen, fanout, store, aof, writes, touched>>

MarkStep(c) ==
    LET f == fanout[c]
        d == IF f.live THEN watchArr[f.key][f.i] ELSE f.view[f.i]
    IN /\ pc[c] = "mark" /\ Scheduled(c)
       /\ f.i <= f.n
       /\ isDirty' = IF d \in Client THEN [isDirty EXCEPT ![d] = TRUE] ELSE isDirty
       /\ fanout' = [fanout EXCEPT ![c].i = @ + 1]
       /\ UNCHANGED <<pc, inTransaction, txQueue, watchedKeys, watchArr,
                      watchLen, store, aof, writes, touched>>

\* Mutant: the loop stops one element early.
MarkDoneEarly(c) ==
    /\ pc[c] = "mark" /\ Scheduled(c)
    /\ fanout[c].i >= fanout[c].n
    /\ pc' = [pc EXCEPT ![c] = "log"]
    /\ UNCHANGED <<inTransaction, txQueue, watchedKeys, isDirty, watchArr,
                   watchLen, fanout, store, aof, writes, touched>>

MarkDone(c) ==
    /\ pc[c] = "mark" /\ Scheduled(c)
    /\ fanout[c].i > fanout[c].n
    /\ pc' = [pc EXCEPT ![c] = "log"]
    /\ UNCHANGED <<inTransaction, txQueue, watchedKeys, isDirty, watchArr,
                   watchLen, fanout, store, aof, writes, touched>>

\* Mutant: commands run by EXEC are not logged.
AppendLogIdleOnly(c) ==
    /\ pc[c] = "log" /\ Scheduled(c)
    /\ aof' = IF fanout[c].ret = "idle" THEN Append(aof, <<fanout[c].key, c>>)
                                         ELSE aof
    /\ pc' = [pc EXCEPT ![c] = fanout[c].ret]
    /\ fanout' = [fanout EXCEPT ![c] = NoFanout]
    /\ UNCHANGED <<inTransaction, txQueue, watchedKeys, isDirty, watchArr,
                   watchLen, store, writes, touched>>

\* executeCommand server.go 298-302: the handler succeeded and the command
\* is a write, so it is appended to the log under the AOF mutex.
AppendLog(c) ==
    /\ pc[c] = "log" /\ Scheduled(c)
    /\ aof' = Append(aof, <<fanout[c].key, c>>)
    /\ pc' = [pc EXCEPT ![c] = fanout[c].ret]
    /\ fanout' = [fanout EXCEPT ![c] = NoFanout]
    /\ UNCHANGED <<inTransaction, txQueue, watchedKeys, isDirty, watchArr,
                   watchLen, store, writes, touched>>

(***************************************************************************)
(* Connection close (handleClient's deferred cleanup, server.go 134-140):  *)
(* unwatch everything and drop the client.  A new connection reuses the    *)
(* slot only once nothing in the index, and no running fan-out, can still *)
(* reach the old one: Go gives the new connection a fresh *Client.         *)
(***************************************************************************)
Disconnect(c) ==
    /\ pc[c] = "idle" /\ Scheduled(c)
    /\ pc' = [pc EXCEPT ![c] = "gone"]
    /\ writes' = writes - Len(txQueue[c])
    /\ txQueue' = [txQueue EXCEPT ![c] = <<>>]
    /\ inTransaction' = [inTransaction EXCEPT ![c] = FALSE]
    /\ UnwatchAll(c)
    /\ UNCHANGED <<store, aof>>

Connect(c) ==
    /\ pc[c] = "gone" /\ Scheduled(c)
    /\ \A k \in Key : FirstIndex(k, c) = 0
    /\ \A d \in Client : pc[d] # "mark"
    /\ pc' = [pc EXCEPT ![c] = "idle"]
    /\ UNCHANGED <<inTransaction, txQueue, watchedKeys, isDirty, watchArr,
                   watchLen, fanout, store, aof, writes, touched>>

Init ==
    /\ pc = [c \in Client |-> "idle"]
    /\ inTransaction = [c \in Client |-> FALSE]
    /\ txQueue = [c \in Client |-> <<>>]
    /\ watchedKeys = [c \in Client |-> {}]
    /\ isDirty = [c \in Client |-> FALSE]
    /\ watchArr = [k \in Key |-> <<>>]
    /\ watchLen = [k \in Key |-> 0]
    /\ fanout = [c \in Client |-> NoFanout]
    /\ store = [k \in Key |-> Nil]
    /\ aof = <<>>
    /\ writes = 0
    /\ touched = [c \in Client |-> FALSE]

Next ==
    \E c \in Client :
        \/ Multi(c) \/ ExecAbort(c) \/ ExecStart(c) \/ ExecNext(c)
        \/ ExecDone(c) \/ Discard(c) \/ Unwatch(c)
        \/ MarkStep(c) \/ MarkDone(c) \/ AppendLog(c)
        \/ Disconnect(c) \/ Connect(c)
        \/ \E k \in Key : Watch(c, k) \/ Queue(c, k) \/ Write(c, k)

\* A connection's goroutine (or the event loop serving it) finishes the
\* command it has started.
Fairness ==
    \A c \in Client :
        /\ WF_vars(ExecNext(c)) /\ WF_vars(ExecDone(c))
        /\ WF_vars(MarkStep(c)) /\ WF_vars(MarkDone(c)) /\ WF_vars(AppendLog(c))

Spec == Init /\ [][Next]_vars /\ Fairness

(***************************************************************************)
(* Properties.                                                             *)
(***************************************************************************)
TypeOK ==
    /\ pc \in [Client -> {"idle", "mark", "log", "exec", "gone"}]
    /\ inTransaction \in [Client -> BOOLEAN]
    /\ txQueue \in [Client -> Seq(Key)]
    /\ watchedKeys \in [Client -> SUBSET Key]
    /\ isDirty \in [Client -> BOOLEAN]
    /\ watchArr \in [Key -> Seq(Client \cup {Nil})]
    /\ \A k \in Key : watchLen[k] \in 0..Len(watchArr[k])
    /\ store \in [Key -> Client \cup {Nil}]
    /\ aof \in Seq(Key \X Client)
    /\ writes \in 0..MaxWrites
    /\ touched \in [Client -> BOOLEAN]

\* Index soundness (WATCH/UNWATCH/disconnect, server.go 346-377): a live
\* client is registered under a key exactly once while it watches that key,
\* and nowhere else; a closed connection is registered nowhere.
WatchIndexSound ==
    \A k \in Key, c \in Client :
        Cardinality({j \in 1..watchLen[k] : watchArr[k][j] = c})
            = IF pc[c] # "gone" /\ k \in watchedKeys[c] THEN 1 ELSE 0

\* No lost invalidation (MarkKeyModified, server.go 379-389): once the
\* fan-out of a write to k has finished, every client that was watching k
\* when the write committed, and has not reset its watches since, is dirty;
\* so its EXEC cannot commit.
NoLostDirtyMark ==
    \A w \in Client :
        pc[w] = "log" => \A c \in fanout[w].owed : isDirty[c]

\* The store a replay of the log would rebuild: LoadAOF executes the logged
\* writes in order, so each key ends with the value of its last logged write.
Replayed(k) ==
    LET I == {j \in 1..Len(aof) : aof[j][1] = k}
    IN IF I = {} THEN Nil ELSE aof[Max(I)][2]

\* Log order (executeCommand, server.go 296-302): whenever no write is
\* between its store commit and its log append, replaying the command log
\* rebuilds exactly the current store.
LogMatchesStore ==
    (\A c \in Client : pc[c] \notin {"mark", "log"})
        => \A k \in Key : Replayed(k) = store[k]

\* EXEC terminates: a client that starts running its queued commands
\* eventually finishes the transaction and serves its next command.
ExecCompletes ==
    \A c \in Client : pc[c] = "exec" ~> pc[c] = "idle"

\* No spurious abort (EXEC, server.go 201-212): a client between commands
\* is dirty, so its next EXEC replies null, only if some write has
\* committed to a key it watches since it started watching that key.
NoSpuriousAbort ==
    \A c \in Client : isDirty[c] /\ pc[c] = "idle" => touched[c]

\* Optimistic locking (EXEC, server.go 196-225): while a transaction's
\* queued commands run, no other write has hit a key the client watches
\* since WATCH; EXEC checks isDirty once, before the loop.
ExecIsolated ==
    \A c \in Client : pc[c] = "exec" => ~touched[c]

=============================================================================
