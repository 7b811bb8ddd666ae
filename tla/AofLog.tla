------------------------------- MODULE AofLog -------------------------------
(***************************************************************************)
(* The append-only command log (internal/persistence/aof.go) as the server *)
(* process uses it: a write's handler updates the store and executeCommand *)
(* appends the command to the AOFWriter, whose bufio buffer, file and      *)
(* fsync depend on the policy; BGREWRITEAOF replaces the file by a         *)
(* rewritten one; the process stops by SHUTDOWN, by SIGTERM or by a crash, *)
(* and on start main.go replays the file through the command handlers and  *)
(* opens a new writer on it with O_APPEND.                                 *)
(*                                                                         *)
(* Files are inodes holding bytes: file[i] is what the OS holds for inode  *)
(* i and synced[i] the prefix an fsync has made durable.  path is the      *)
(* inode the name appendonly.aof refers to, wfd the inode the writer has   *)
(* open.  A command is written in RESP (SerializeArray), the bufio buffer  *)
(* is counted in bytes, a crash keeps any byte prefix of what was not      *)
(* fsynced, and replay runs the RESP parser over the bytes.  A key is one  *)
(* byte (a model value); the value of the n-th write is the digit n, so    *)
(* the store keeps, per key, the index of the write that set it and        *)
(* whether it carries an expiry.  Time is not modelled: expiry is a flag,  *)
(* and no key expires.                                                     *)
(***************************************************************************)
EXTENDS Integers, Sequences, FiniteSets, SequencesExt

CONSTANTS
    Key,        \* keys (model values, one byte each)
    Policies,   \* the appendfsync policies the run may start with
    BufSize,    \* bytes the bufio buffer holds (4096 in bufio.NewWriter)
    MaxWrites,  \* bound on the writes of a behaviour
    MaxStops,   \* bound on crashes and shutdowns
    MaxInodes   \* bound on the files created (1 + rewrites)

ASSUME Policies \subseteq {"always", "everysec", "no"} /\ Policies # {}
ASSUME BufSize \in Nat \ {0} /\ MaxInodes \in Nat \ {0}
ASSUME MaxWrites \in 0..9 /\ MaxStops \in Nat

Inode == 1..MaxInodes

VARIABLES
    up,        \* the server process is running
    policy,    \* AOFWriter.syncPolicy, from the appendfsync flag
    store,     \* key -> [seq, ttl]: the write that set it (0: absent)
    buf,       \* AOFWriter.writer: bytes buffered by bufio
    file,      \* inode -> bytes the OS holds for it
    synced,    \* inode -> length of its durable prefix
    path,      \* inode named by the AOF path
    wfd,       \* inode of AOFWriter.file
    syncing,   \* always: Append has flushed and not yet called file.Sync
    rw,        \* BGREWRITEAOF goroutine: "idle" | "synced"
    rwTmp,     \* inode of the rewrite's temp file
    inodes,    \* inodes created so far
    hist,      \* ghost: every write, [key, ex], in order
    lin,       \* ghost: the writes [seq, key] the store reflects, in order
    promised,  \* ghost: key -> latest write the server promised to keep
    stops,     \* crashes and shutdowns so far
    ends,      \* ghost: inode -> byte offsets at which a command ends
    damaged    \* ghost: inode -> a command was appended after a torn one

vars == <<up, policy, store, buf, file, synced, path, wfd, syncing, rw, rwTmp,
          inodes, hist, lin, promised, stops, ends, damaged>>

(***************************************************************************)
(* Bytes and the RESP encoding (SerializeArray, part_003 141-164).         *)
(***************************************************************************)
CR == "CR"
LF == "LF"
Dig == <<"0", "1", "2", "3", "4", "5", "6", "7", "8", "9">>
DigVal(b) == CHOOSE n \in 0..9 : Dig[n + 1] = b
IsNum(s) == Len(s) > 0 /\ \A i \in 1..Len(s) : s[i] \in Range(Dig)
Atoi(s) == FoldLeft(LAMBDA a, b : 10 * a + DigVal(b), 0, s)

SET == <<"S", "E", "T">>
EX == <<"E", "X">>
PX == <<"P", "X">>
PEXPIREAT == <<"P", "E", "X", "P", "I", "R", "E", "A", "T">>
Secs == <<"5">>     \* the EX argument the client gave
Ms == <<"9">>       \* expiry.UnixMilli(): only its being a number matters

\* "$len\r\n" payload "\r\n"; every length here is one digit.
Bulk(s) == <<"$", Dig[Len(s) + 1], CR, LF>> \o s \o <<CR, LF>>

SerializeArray(es) ==
    <<"*", Dig[Len(es) + 1], CR, LF>> \o FoldLeft(LAMBDA acc, s : acc \o Bulk(s), <<>>, es)

\* The original command array that executeCommand logs (server.go 296-302):
\* SET key value, with EX secs when the client gave an expiry.
SetEntry(k, n, ex) ==
    SerializeArray(<<SET, <<k>>, <<Dig[n + 1]>>>> \o (IF ex THEN <<EX, Secs>> ELSE <<>>))

(***************************************************************************)
(* a.writer.Write(data) (aof.go 61): bufio.Writer.Write.                   *)
(***************************************************************************)
RECURSIVE BufWrite(_, _, _)

\* Mutant: an empty buffer takes a write larger than itself.
BufWriteNoBypass(f, b, p) ==
    IF Len(p) <= BufSize - Len(b) \/ b = <<>> THEN <<f, b \o p>>
    ELSE BufWrite(f \o b \o SubSeq(p, 1, BufSize - Len(b)), <<>>,
                  SubSeq(p, BufSize - Len(b) + 1, Len(p)))

\* Mutant: a full buffer lets the new command through ahead of its bytes.
BufWriteDirect(f, b, p) ==
    IF Len(p) <= BufSize - Len(b) THEN <<f, b \o p>>
    ELSE <<f \o p, b>>

\* While p exceeds the free space, an empty buffer writes p straight to
\* the file and a non-empty one is filled up and flushed, which can end the
\* file in the middle of a command; the rest of p is copied into the
\* buffer.  Result: <<file contents, buffer>>.
BufWrite(f, b, p) ==
    IF Len(p) <= BufSize - Len(b) THEN <<f, b \o p>>
    ELSE IF b = <<>> THEN <<f \o p, <<>>>>
    ELSE BufWrite(f \o b \o SubSeq(p, 1, BufSize - Len(b)), <<>>,
                  SubSeq(p, BufSize - Len(b) + 1, Len(p)))

(***************************************************************************)
(* The RESP parser (part_002 44-180) over the bytes f from offset p.  Every *)
(* failure, io.EOF included, ends LoadAOF with the commands before it      *)
(* applied, so a result is Stop or a value with the offset after it.       *)
(***************************************************************************)
Stop == [ok |-> FALSE]
Got(v, p) == [ok |-> TRUE, v |-> v, p |-> p]

\* ReadString('\n') from p: the offset of the next LF, 0 at end of file.
LfFrom(f, p) == LET I == {q \in p..Len(f) : f[q] = LF} IN IF I = {} THEN 0 ELSE Min(I)

\* readLine: the bytes p..q must end in CRLF; the line is p..q-2.
LineOk(f, p, q) == q > p /\ f[q - 1] = CR

\* parseBulkString after its length: ReadFull of the payload, then of the
\* two bytes that must be CRLF.  Length 0 reads one more line.
BulkBody(f, n, p) ==
    IF n = 0
    THEN IF LineOk(f, p, LfFrom(f, p)) THEN Got([t |-> "bulk", s |-> <<>>], LfFrom(f, p) + 1) ELSE Stop
    ELSE IF p + n + 1 <= Len(f) /\ f[p + n] = CR /\ f[p + n + 1] = LF
         THEN Got([t |-> "bulk", s |-> SubSeq(f, p, p + n - 1)], p + n + 2)
         ELSE Stop

\* The length line of a bulk string, read from p to the LF at q.
BulkAt(f, p, q) ==
    IF LineOk(f, p, q) /\ IsNum(SubSeq(f, p, q - 2))
    THEN BulkBody(f, Atoi(SubSeq(f, p, q - 2)), q + 1)
    ELSE Stop

RECURSIVE Parse(_, _), Elems(_, _, _, _)

\* parseArray: the count line, then count values.
ArrayAt(f, p, q) ==
    IF LineOk(f, p, q) /\ IsNum(SubSeq(f, p, q - 2))
    THEN Elems(f, q + 1, Atoi(SubSeq(f, p, q - 2)), <<>>)
    ELSE Stop

\* Parse: the type byte, then the value.  The log's bytes hold no '+', '-'
\* or ':', so any other byte is ErrInvalidType.
Parse(f, p) ==
    IF p > Len(f) THEN Stop
    ELSE IF f[p] = "$" THEN BulkAt(f, p + 1, LfFrom(f, p + 1))
    ELSE IF f[p] = "*" THEN ArrayAt(f, p + 1, LfFrom(f, p + 1))
    ELSE Stop

ElemThen(f, r, c, acc) == IF r.ok THEN Elems(f, r.p, c - 1, Append(acc, r.v)) ELSE Stop

Elems(f, p, c, acc) ==
    IF c = 0 THEN Got([t |-> "arr", a |-> acc], p) ELSE ElemThen(f, Parse(f, p), c, acc)

(***************************************************************************)
(* LoadAOF (aof.go 125-162) through main's executor (main.go 100-113).     *)
(***************************************************************************)
Absent == [seq |-> 0, ttl |-> FALSE]
EmptyStore == [k \in Key |-> Absent]

\* The write a stored value names; -1 for a value no write wrote.
ValSeq(v) == IF Len(v) = 1 /\ v[1] \in Range(Dig) THEN DigVal(v[1]) ELSE -1

\* SetCommand's option loop (part_006 29-80) from argument i: EX or PX
\* with a positive number sets an expiry; anything else the log's bytes
\* can spell (no NX or XX) is an error.  Result: "none", "ex" or "err".
RECURSIVE SetOptions(_, _, _)
SetOptions(args, i, o) ==
    IF i > Len(args) THEN o
    ELSE IF /\ args[i].t = "bulk" /\ args[i].s \in {EX, PX}
            /\ i + 1 <= Len(args) /\ args[i + 1].t = "bulk"
            /\ IsNum(args[i + 1].s) /\ Atoi(args[i + 1].s) > 0
         THEN SetOptions(args, i + 2, "ex")
         ELSE "err"

\* Set or SetWithExpiry of the value v under the key whose byte is kb.
\* Store.Set keeps an existing expiry (store_test.go 1284-1309).
ApplySet(st, kb, v, o) ==
    IF o = "err" THEN st
    ELSE [k \in Key |-> IF kb = <<k>> THEN [seq |-> ValSeq(v), ttl |-> o = "ex" \/ st[k].ttl]
                        ELSE st[k]]

\* SetCommand (part_006 12-126) on the replayed arguments.
ReplaySet(st, args) ==
    IF Len(args) < 2 \/ args[1].t # "bulk" \/ args[2].t # "bulk" THEN st
    ELSE ApplySet(st, args[1].s, args[2].s, SetOptions(args, 3, "none"))

\* The executor: the handler named by the first element (an array's Str
\* is ""); only SET has one among the names the log's bytes spell, so
\* PEXPIREAT is "ERR unknown command", which LoadAOF ignores.
Execute(st, vals) ==
    IF Len(vals) > 0 /\ vals[1].t = "bulk" /\ vals[1].s = SET
    THEN ReplaySet(st, Tail(vals)) ELSE st

RECURSIVE LoadFrom(_, _, _)

\* A parse failure or a value that is not an array ends the load.
LoadStep(f, r, st) ==
    IF r.ok /\ r.v.t = "arr" THEN LoadFrom(f, r.p, Execute(st, r.v.a)) ELSE st

LoadFrom(f, p, st) == LoadStep(f, Parse(f, p), st)

Replay(f) == LoadFrom(f, 1, EmptyStore)

(***************************************************************************)
(* Ghosts.                                                                 *)
(***************************************************************************)
\* The latest write to k in the lineage l, 0 if none.
Latest(l, k) ==
    LET I == {j \in DOMAIN l : l[j].key = k}
    IN IF I = {} THEN 0 ELSE l[Max(I)].seq

\* The server now promises every write of the store's lineage.
PromiseAll(l) == [k \in Key |-> Latest(l, k)]

\* The longest prefix of the lineage whose state the store st is, or the
\* lineage itself when there is none.
Recovered(st) ==
    LET P == {n \in 0..Len(lin) :
                \A k \in Key : st[k].seq = Latest(SubSeq(lin, 1, n), k)}
    IN IF P = {} THEN lin ELSE SubSeq(lin, 1, Max(P))

\* The offsets at which the commands of cs end once concatenated.
CmdEnds(cs) == {Len(FlattenSeq(SubSeq(cs, 1, j))) : j \in 0..Len(cs)}

(***************************************************************************)
(* SET k v [EX s] (SetCommand, part_006 12-126): the store write, then     *)
(* AOFWriter.Append (aof.go 55-85) in executeCommand (server.go 296-302).  *)
(***************************************************************************)
\* Append after the buffered write w = <<file, buffer>>: always flushes
\* (its Sync is the next step), everysec flushes, no leaves the buffer.
AofAppend(w) ==
    \/ /\ policy = "always"
       /\ file' = [file EXCEPT ![wfd] = w[1] \o w[2]]
       /\ buf' = <<>> /\ syncing' = TRUE
    \/ /\ policy = "everysec"
       /\ file' = [file EXCEPT ![wfd] = w[1] \o w[2]]
       /\ buf' = <<>> /\ UNCHANGED syncing
    \/ /\ policy = "no"
       /\ file' = [file EXCEPT ![wfd] = w[1]]
       /\ buf' = w[2] /\ UNCHANGED syncing

\* The write of entry e as write n; the stream file ++ buffer grows by e.
SetWith(k, ex, n, e) ==
    /\ hist' = Append(hist, [key |-> k, ex |-> ex])
    /\ lin' = Append(lin, [seq |-> n, key |-> k])
    /\ store' = [store EXCEPT ![k] = [seq |-> n, ttl |-> ex \/ @.ttl]]
    /\ ends' = [ends EXCEPT ![wfd] = @ \cup {Len(file[wfd] \o buf) + Len(e)}]
    /\ damaged' = [damaged EXCEPT ![wfd] = @ \/ Len(file[wfd] \o buf) \notin ends[wfd]]
    /\ AofAppend(BufWrite(file[wfd], buf, e))

\* Another Append waits for a.mu while one is between Flush and Sync.
Set(k, ex) ==
    /\ up /\ ~syncing /\ Len(hist) < MaxWrites
    /\ SetWith(k, ex, Len(hist) + 1, SetEntry(k, Len(hist) + 1, ex))
    /\ UNCHANGED <<up, policy, synced, path, wfd, rw, rwTmp, inodes, promised, stops>>

\* The rest of Append under always: file.Sync(); the client is answered.
AppendSync ==
    /\ up /\ syncing
    /\ synced' = [synced EXCEPT ![wfd] = Len(file[wfd])]
    /\ promised' = PromiseAll(lin)
    /\ syncing' = FALSE
    /\ UNCHANGED <<up, policy, store, buf, file, path, wfd, rw, rwTmp, inodes,
                   hist, lin, stops, ends, damaged>>

\* backgroundSync, aof.go 87-101: every tick, Flush and Sync under a.mu.
BackgroundSync ==
    /\ up /\ policy = "everysec"
    /\ file' = [file EXCEPT ![wfd] = @ \o buf]
    /\ synced' = [synced EXCEPT ![wfd] = Len(file[wfd] \o buf)]
    /\ buf' = <<>>
    /\ promised' = PromiseAll(lin)
    /\ UNCHANGED <<up, policy, store, path, wfd, syncing, rw, rwTmp, inodes,
                   hist, lin, stops, ends, damaged>>

(***************************************************************************)
(* Stopping.  Each way out ends the rewrite goroutine with the process.    *)
(***************************************************************************)
\* A clean stop promises the writes whose clients were answered: not one
\* whose Append is still waiting for file.Sync.
StopPromise == PromiseAll(IF syncing THEN Front(lin) ELSE lin)

\* The buffer dies with the process; the commands it held end nowhere.
Lost == [ends EXCEPT ![wfd] = {e \in @ : e <= Len(file[wfd])}]

\* SHUTDOWN (part_005 145-177): SaveRDB, then os.Exit(0) in a goroutine;
\* AOFWriter.Close is never called, so the bufio buffer is lost.  The
\* client has been told the server stopped cleanly.
Shutdown ==
    /\ up /\ stops < MaxStops
    /\ up' = FALSE /\ stops' = stops + 1
    /\ buf' = <<>> /\ rw' = "idle" /\ syncing' = FALSE
    /\ ends' = Lost
    /\ promised' = StopPromise
    /\ UNCHANGED <<policy, store, file, synced, path, wfd, rwTmp, inodes, hist, lin, damaged>>

\* SIGTERM (main.go 163-173): srv.Stop() makes Start return, so main runs
\* its deferred aof.Close() (Flush, Sync, under a.mu) while the signal
\* goroutine calls os.Exit(0).  Either may come first.
Sigterm ==
    /\ up /\ stops < MaxStops
    /\ up' = FALSE /\ stops' = stops + 1
    /\ \/ /\ ~syncing
          /\ file' = [file EXCEPT ![wfd] = @ \o buf]
          /\ synced' = [synced EXCEPT ![wfd] = Len(file[wfd] \o buf)]
          /\ UNCHANGED ends
       \/ UNCHANGED <<file, synced>> /\ ends' = Lost
    /\ buf' = <<>> /\ rw' = "idle" /\ syncing' = FALSE
    /\ promised' = StopPromise
    /\ UNCHANGED <<policy, store, path, wfd, rwTmp, inodes, hist, lin, damaged>>

\* A crash or power loss: the buffer is lost, and the writer's file keeps
\* its durable prefix and any longer byte prefix of what the OS held.
\* Every other inode the name can still reach was fsynced whole.
Crash ==
    /\ up /\ stops < MaxStops
    /\ \E c \in synced[wfd]..Len(file[wfd]) :
          /\ file' = [file EXCEPT ![wfd] = SubSeq(@, 1, c)]
          /\ synced' = [synced EXCEPT ![wfd] = c]
          /\ ends' = [ends EXCEPT ![wfd] = {e \in @ : e <= c}]
    /\ up' = FALSE /\ stops' = stops + 1
    /\ buf' = <<>> /\ rw' = "idle" /\ syncing' = FALSE
    /\ UNCHANGED <<policy, store, path, wfd, rwTmp, inodes, hist, lin, promised, damaged>>

(***************************************************************************)
(* Starting (main.go 97-161): LoadAOF into an empty store, then            *)
(* NewAOFWriter (aof.go 33-53) opens the path O_CREATE|O_WRONLY|O_APPEND,  *)
(* so new commands follow the file's bytes, a torn command included.       *)
(***************************************************************************)
Restarted(st) ==
    /\ store' = st
    /\ lin' = Recovered(st)
    /\ wfd' = path /\ buf' = <<>>

Restart ==
    /\ ~up /\ up' = TRUE
    /\ Restarted(Replay(file[path]))
    /\ UNCHANGED <<policy, file, synced, path, syncing, rw, rwTmp, inodes,
                   hist, promised, stops, ends, damaged>>

(***************************************************************************)
(* BGREWRITEAOF (part_005 110-143) starts RewriteAOF(DefaultAOFFile) in a  *)
(* goroutine unless one is running.                                        *)
(***************************************************************************)
\* writeObjectAsCommands (aof.go 199-321) for a string key: SET key value,
\* then PEXPIREAT key ms when the key has an expiry.
KeyCommands(snap, k) ==
    <<SerializeArray(<<SET, <<k>>, <<Dig[snap[k].seq + 1]>>>>)>>
    \o (IF snap[k].ttl THEN <<SerializeArray(<<PEXPIREAT, <<k>>, Ms>>)>> ELSE <<>>)

\* The commands for every key of the Snapshot, in the map's order.
RewriteCmds(snap) ==
    FoldSet(LAMBDA k, acc : acc \o KeyCommands(snap, k), <<>>, {k \in Key : snap[k].seq > 0})

\* The temp file t written with the commands cs, flushed and fsynced.
RewriteTo(t, cs) ==
    /\ rwTmp' = t /\ inodes' = t
    /\ file' = [file EXCEPT ![t] = FlattenSeq(cs)]
    /\ synced' = [synced EXCEPT ![t] = Len(FlattenSeq(cs))]
    /\ ends' = [ends EXCEPT ![t] = CmdEnds(cs)]

\* RewriteAOF up to the rename (aof.go 164-190): create the ".tmp" file,
\* Snapshot the store, write every key, Flush and Sync.  Nothing reads the
\* temp file, so its steps are one.
RewriteWrite ==
    /\ up /\ rw = "idle" /\ inodes < MaxInodes
    /\ RewriteTo(inodes + 1, RewriteCmds(store))
    /\ rw' = "synced"
    /\ UNCHANGED <<up, policy, store, buf, path, wfd, syncing, hist, lin, promised, stops, damaged>>

\* os.Rename(tmpFile, filepath) (aof.go 192): the name now refers to the
\* new file; the writer keeps appending to the inode it opened.
RewriteRename ==
    /\ up /\ rw = "synced"
    /\ path' = rwTmp /\ rw' = "idle"
    /\ UNCHANGED <<up, policy, store, buf, file, synced, wfd, syncing, rwTmp, inodes,
                   hist, lin, promised, stops, ends, damaged>>

(***************************************************************************)
(* The server starts with an empty AOF and its writer open on it.          *)
(***************************************************************************)
Init ==
    /\ up = TRUE /\ policy \in Policies
    /\ store = EmptyStore /\ buf = <<>>
    /\ file = [i \in Inode |-> <<>>] /\ synced = [i \in Inode |-> 0]
    /\ path = 1 /\ wfd = 1 /\ inodes = 1 /\ syncing = FALSE
    /\ rw = "idle" /\ rwTmp = 1
    /\ hist = <<>> /\ lin = <<>> /\ promised = [k \in Key |-> 0] /\ stops = 0
    /\ ends = [i \in Inode |-> {0}] /\ damaged = [i \in Inode |-> FALSE]

Next ==
    \/ \E k \in Key, ex \in BOOLEAN : Set(k, ex)
    \/ AppendSync \/ BackgroundSync
    \/ Shutdown \/ Sigterm \/ Crash \/ Restart
    \/ RewriteWrite \/ RewriteRename

Spec == Init /\ [][Next]_vars

(***************************************************************************)
(* Properties.                                                             *)
(***************************************************************************)
\* Also: replay never stores a value that no write wrote, whatever bytes
\* a torn command leaves, and bufio never holds more than its size.
TypeOK ==
    /\ up \in BOOLEAN /\ policy \in Policies /\ syncing \in BOOLEAN
    /\ store \in [Key -> [seq : 0..MaxWrites, ttl : BOOLEAN]]
    /\ Len(buf) <= BufSize
    /\ \A i \in Inode : synced[i] <= Len(file[i])
    /\ {path, wfd, rwTmp} \subseteq 1..inodes /\ inodes \in Inode
    /\ rw \in {"idle", "synced"}
    /\ promised \in [Key -> 0..MaxWrites] /\ stops \in 0..MaxStops

\* Durability of acknowledged writes (spec.md 4.7): once the writer has
\* fsynced (policy always, the everysec tick, Close) or the server has
\* stopped cleanly (SHUTDOWN, SIGTERM), a running server's store holds,
\* for every key, that write or a later one, whatever crashes and
\* restarts came between.
NoAckedWriteLost ==
    up => \A k \in Key : store[k].seq >= promised[k]

\* LoadAOF recovers a prefix of a log damaged only at its end: a restart
\* from a file in which no command follows a torn one rebuilds the state
\* after a prefix of the writes the store reflected before the stop,
\* never a state with a later write but without an earlier one, under
\* every policy, bufio's partial flushes, rewrites and any crash cut.
RecoveredIsPrefix ==
    [][Restart /\ ~damaged[path] =>
         \E n \in 0..Len(lin) :
            \A k \in Key : store'[k].seq = Latest(SubSeq(lin, 1, n), k)]_vars

====
