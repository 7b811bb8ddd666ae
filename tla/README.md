# TLA+ models of redis-clone

This directory holds TLA+ specifications of the Go Redis clone in `src/`, the
TLC configurations that check them, and `PROJECT.json`. That file lists each
component, run, mutant and finding, the map from definitions to source lines,
and the hazards.

## The system

| Part | Source | State | Operations |
|---|---|---|---|
| Server, goroutine per connection | `internal/server/server.go` | connection set; per client `inTransaction`, `txQueue`, `watchedKeys`, `isDirty`; the index `watchedKeys: key -> []*Client` under `watchedKeyMu` | handleClient loop, processCommand (MULTI, EXEC, DISCARD, WATCH, UNWATCH, queue), executeCommand (handler, then AOF append), MarkKeyModified |
| Server, gnet event loop | `unnamed/part_000` | the same, with no locks; `WithMulticore(false)` | OnTraffic, OnClose, processCommand, MarkKeyModified |
| Store | `internal/store/store_test.go` 1209-2297 | `data`, `expires`, `mu`, key-modified callback | Set, SetNX, SetXX, SetWithExpiry, Delete, list/hash/set/zset operations, lazy expiry, Snapshot, FlushDB |
| Eviction | `internal/store/eviction.go` | `currentMemory`, policy, sample size | TryEvictUntilUnderLimit, three policies, deleteInternal |
| Containers | `unnamed/part_009` (quicklist), `internal/store/zset.go` and `zset_test.go` 523-742 (skiplist), `hashtable.go`, `unnamed/part_010` (set) | node lists and maps | push/pop/range/index; add/remove/rank/range |
| AOF | `internal/persistence/aof.go` 1-332 | file, bufio buffer, fsync policy, ticker | Append, backgroundSync, Close, LoadAOF, RewriteAOF |
| RDB | `internal/persistence/rdb.go` 1-707 | file bytes | SaveRDB (via `dump.rdb.tmp` and a rename), LoadRDB, length and string encodings |
| Persistence commands | `unnamed/part_005` | `bgSaveRunning`, last save time | SAVE, BGSAVE, BGREWRITEAOF, SHUTDOWN, FLUSHDB |
| Command handlers | `unnamed/part_006`, `part_008`, `part_004`, `internal/command/list.go`, `hash.go` | none of their own | argument parsing, then one or more store calls |
| RESP codec | `unnamed/part_002`, `part_003` | reader buffer | Parse, Serialize |
| Wiring | `cmd/redis-server/main.go` | flags | load RDB/AOF, create the AOF writer, register handlers, wire `SetKeyModifiedHandler(srv.MarkKeyModified)` |

### How the parts interact

A connection's command goes through `processCommand`. Outside MULTI, a write
runs its handler, which calls the store. The store takes its mutex, changes
`data`, and calls the key-modified callback, still holding the mutex. That
callback is `Server.MarkKeyModified`: it reads `watchedKeys[key]` under the
read lock of `watchedKeyMu`, releases the lock, and then marks every client in
the slice dirty. Back in `executeCommand`, a successful write command is
appended to the AOF, with no lock shared with the store.

Inside MULTI a command is queued. EXEC checks `isDirty` once, runs the queue,
and unwatches. WATCH appends the client to the index. UNWATCH, DISCARD, EXEC
and connection close all call `unwatchAll`, which removes the client's first
occurrence with `append(clients[:i], clients[i+1:]...)`, shifting the slice's
backing array in place.

### What is hard to test

These are the hazards in `PROJECT.json`:
- a fan-out iterating a slice that another goroutine shifts;
- duplicate WATCH registration;
- AOF order against commit order;
- EXEC's check-then-run;
- read-then-write handlers (INCR, SET NX EX);
- the AOF buffer lost by `os.Exit`;
- a torn command at the end of the AOF, which O_APPEND makes the next commands follow;
- bufio flushing a full buffer in the middle of a command;
- rewrite racing the writer's open file;
- replay of commands that have no handler;
- SAVE and BGSAVE sharing `dump.rdb.tmp`, and BGSAVE serialising lists the live store still mutates;
- RDB expiry handling and partial loads;
- the eviction loop's bound and its size estimate;
- NaN scores and the skiplist header's zero key in the sorted set;
- parser boundary lengths.

## Modules

### WatchTxn (session and transactions)

`WatchTxn.tla` models the transaction layer of both servers; the constant
`EventLoop` picks the scheduler.

**State.**
- `pc` (per client): `"idle"` between commands; `"exec"` while EXEC runs its queue; `"mark"` while its write runs the MarkKeyModified loop; `"log"` between the fan-out and the AOF append; `"gone"` after close.
- `inTransaction`, `txQueue` (the keys of queued writes), `watchedKeys` and `isDirty` are the `Client` fields.
- The index `watchedKeys[k]` is a Go slice. It is modelled as its backing array `watchArr[k]` (every capacity slot) plus its length `watchLen[k]`:
  - `AppendArr` is Go's `append`. It writes in place while there is room, and otherwise reallocates to capacity 1, 2, 4, ...
  - `ShiftOut` is the in-place removal.
- A fan-out (`fanout[c]`) holds the key, the length it read, its loop index, and whether it still reads the live backing array. When the index abandons that array (reallocation, or `delete` when the slice empties), the fan-out keeps a frozen copy, as Go does.
- `store[k]` is the client whose write is current. `aof` is the sequence of appended writes.
- Ghost variables for the properties:
  - `fanout[c].owed`: the watchers at commit time that have not reset since;
  - `touched[c]`: a write by someone else hit a key c watches since it watched it.

**Actions.** One per command or step:
- Multi, ExecAbort, ExecStart, ExecNext, ExecDone, Discard, Watch, Unwatch, Queue, Write (server.go 167-305).
- MarkStep and MarkDone: the loop of `MarkKeyModified`, one element per step.
- AppendLog (executeCommand 298-302).
- Disconnect (the deferred `unwatchAll`) and Connect.

`Commit` is the store write. It is guarded by `StoreFree`, because the store mutex is held across the callback.

**Inputs.** The constant `Rewatch` lets WATCH name a key the client already watches. The code accepts this; the runs that assume clients never do it set `Rewatch = FALSE`.

`MCWatchTxn.tla` sets the constants: three clients (`c1..c3`) for the event-loop run and two (`MCClient2`) for the goroutine runs, two keys, and symmetry over both sets where the run uses it.

### AofLog (append-only file: writer, stops, replay, rewrite)

`AofLog.tla` follows one process through its lives: it writes, stops in one of three ways, restarts from the log, and may rewrite the log in between. Commands are atomic steps here (WatchTxn covers their interleaving); this module is about the bytes that reach the disk and what replay makes of them.

**Bytes.** A file is a sequence of bytes. A byte is a one-character string (`"CR"` and `"LF"` for `\r` and `\n`) or, for a key, a model value. The value of the n-th write is the digit n.
- `SerializeArray` is the RESP encoder (part_003 141-164). `SetEntry` is the array executeCommand logs: `SET k v`, plus `EX 5` when the client gave an expiry.
- `BufWrite` is `bufio.Writer.Write`. While the data exceeds the free space, an empty buffer writes it straight through, and a non-empty one is filled, flushed and emptied. The rest is copied in. So a flush can end the file in the middle of a command.
- `Parse`, `BulkAt`, `ArrayAt` and `Elems` are the RESP parser (part_002 44-180) on those bytes. Every error, `io.EOF` included, stops `LoadAOF`, keeping the commands already applied.
- `Execute` is main's executor with SetCommand's argument checks (`SetOptions`). A SET whose arguments are not bulk strings is rejected. PEXPIREAT has no handler.

**State.**
- Files are inodes. `file[i]` is what the OS holds for inode i, and `synced[i]` is the length an fsync has made durable.
- `path` is the inode the name `appendonly.aof` refers to. `wfd` is the inode the writer opened. `buf` is the bufio buffer, `BufSize` bytes.
- `syncing`: under `always`, Append has flushed and not yet returned from `file.Sync()`. Other Appends wait on `a.mu`.
- `store[k]` is the write that set k, and whether k has an expiry. Time is not modelled: expiry is a flag, and no key expires.
- `rw` and `rwTmp` track the BGREWRITEAOF goroutine.
- Ghost variables:
  - `hist`: every write;
  - `lin`: the writes the current store reflects, cut back at each restart to the longest prefix the recovered store matches;
  - `promised`: per key, the latest write the server has promised to keep. A write is promised when an fsync covers it (AppendSync, the everysec tick, Close) or when the server stops cleanly, a write still waiting for its fsync excepted;
  - `ends[i]`: the offsets in inode i at which a command ends;
  - `damaged[i]`: a command was appended to inode i after bytes that do not end a command.

**Actions.**
- `Set(k, ex)`: the store write (`Store.Set` keeps an old expiry, `SetWithExpiry` sets one), then `AofAppend` of `BufWrite`. Under `always` the buffer is flushed and `syncing` set, under `everysec` it is flushed, and under `no` nothing more happens.
- `AppendSync`: the rest of Append under `always`, the fsync. The client is answered.
- `BackgroundSync`: the everysec ticker, Flush and Sync.
- `Shutdown`: SHUTDOWN, `os.Exit` without Close; the buffer is lost.
- `Sigterm`: the deferred `aof.Close` in main racing the signal goroutine's `os.Exit`; either order.
- `Crash`: the buffer is lost, and the writer's file keeps its synced prefix plus any byte prefix of the rest. Every other inode the name can reach was fsynced whole.
- `Restart`: `Replay` (LoadAOF over `file[path]`), then `NewAOFWriter` opens the path with O_APPEND, so new commands follow whatever bytes the file ends with.
- `RewriteWrite`: RewriteAOF up to the fsync of the `.tmp` file: Snapshot, then `KeyCommands` (SET, then PEXPIREAT if the key has an expiry) for every key. Nothing reads the temp file, so this is one step.
- `RewriteRename`: the rename.

Deadlock is not checked in these runs. A behaviour ends when the write and stop bounds are spent, and the server then idles waiting for clients.

`MCAofLog.tla` sets two keys, so that a replay can hold one key's write without another's, with symmetry over them. A key only ever appears as a whole byte, and the model compares keys only for equality, so the symmetry is sound.

### Keyspace (store maps, lazy expiry, memory accounting, eviction)

`Keyspace.tla` models `Store` (`store_test.go` 1209-2297) together with `eviction.go`. Every Store method holds `s.mu` for its whole body, so each method is one step. The exception is a string write: it is a step to start, one step per `PerformEviction` of `TryEvictUntilUnderLimit`, and a final `Commit` or `Refuse`. No other method runs in between, because `op # NoOp` blocks them all.

**State.**
- `data` and `expires` are the two maps.
- A value is abstracted to what `EstimateObjectSize` sees:
  - a string that parses as an integer (`int`, 40 bytes);
  - any other string (`str`, 32 bytes);
  - a list of n elements (32 + 50n bytes).
- An expiry is `none`, `live` or `due`. Time is abstracted to whether an expiry has passed: `Tick` turns `live` into `due`.
- `mem` is `currentMemory`.
- `op` is the string write that holds the lock: its key, new object, the delta it added and the eviction attempts so far. `result` is its outcome.

**Actions.**
- `Set`, `SetNX`, `SetXX` all use `StartWrite`: oldSize and newSize, `UpdateMemoryUsage` of the difference, then entry into the eviction loop. `Set` can also be `SetWithExpiry`.
  - SetNX and SetXX call `isExpired` first (`LazyDeleted`); Set does not.
- `EvictStep`: one `PerformEviction`. An empty pool is an OOM. Otherwise the policy's victim is deleted by `deleteInternal`, with one exception: a victim named `""` is not deleted by the LRU and TTL evictors, for which `""` means "no victim". Under either, an evicted `""` ends the loop with an OOM.
- `Refuse`: noeviction over the limit, or ten attempts spent. The delta is rolled back.
- `Commit`: the write is stored. SetWithExpiry sets the expiry, SetNX clears it, and Set and SetXX leave it.
- `Delete`: subtracts the key's estimate.
- `Read`: any accessor that meets an expired key; `isExpired` deletes it without accounting.
- `Push` and `Pop`: through `getOrCreateList`/`getList`. They do no accounting, and an emptied list is deleted.
- `FlushDB`: replaces the maps and leaves `currentMemory` as it is.

`MCKeyspace.tla` sets up to three keys, with symmetry over them. `EmptyKey` is a model value that stands for the key `""` (key size 32). The runs keep it outside `Key`; putting it in `Key` reproduces the hazard at eviction.go 165.

### Rdb (snapshot codec, SAVE/BGSAVE, load on restart)

`Rdb.tla` is the RDB path at byte level. A byte is an integer 0..255, and a Go string is a sequence of ASCII codes.

**Codec operators.**
- Encoder: `WriteLength`, `WriteString`, `WriteAuxField`, `HeaderChunk` (magic, the three aux fields, SELECTDB 0), `WriteResizeDB`, `WriteKeyValue` (EXPIRETIME_MS with a little-endian int64, type byte, key, value) and `WriteEOF`.
- Decoder: `ReadLength` (all four forms), `ReadString` (the int8/int16/int32 special forms printed with `%d`), and `ReadObject` for all five value types. Set, hash and sorted-set values only ever come from a file read out of step.
- `LoadFrom`: LoadRDB's opcode loop as a RECURSIVE operator over the file's position. `LoadStep` is one pass of the loop. It has the `expireTime` latch. Every error returns with the keys already loaded left in the store.
- Each read result is passed on as an operator argument (`MoreStrings`, `ScoreOf`, `KeyValue`, `Loaded`, `Continue`) rather than bound by LET and used several times. This mirrors the reader's sequential calls. It also keeps TLC's `-coverage` pass linear in the size of the decoder.
- `StringObject`: the ParseInt-then-`%d` canonicalisation that `createStringObject` and `readStringObject` share.

**State.**
- `data` and `expires`: the store. A list is a pointer `[type, id]` into `lists`, because BGSAVE's snapshot shares the object with the live store.
- `now`: the clock, in ms.
- `files`: inodes holding bytes. `dir`: the inodes the names `dump.rdb.tmp` and `dump.rdb` refer to.
- `wr`: one SaveRDB per writer (`"save"` for SAVE, `"bg"` for the BGSAVE goroutine). Each holds its pc, open inode, file offset, snapshot and the keys still to write.
- `bgRunning`: `bgSaveRunning`.
- Ghost `saved`: the snapshot, resolved at snapshot time, of the save whose rename last succeeded.

**Actions.**
- Store commands: `Set`, `SetWithExpiry` (PX 1), `RPush` (getOrCreateList with its expiry check and WRONGTYPE), `Delete`, and `Tick`.
- `SaveCommand`: SaveRDB's `os.Create` (which truncates an existing temp inode) and its header writes.
- `BGSaveCommand`, then `BGSaveStart`: the goroutine's Snapshot, RestoreSnapshot and the same create.
- Per writer, `SnapshotAndResize` (Snapshot drops expired keys, then RESIZEDB and Go's map order as any permutation), `WriteKey`, `WriteEOFStep` and `RenameStep` (Sync, Close, Rename, which fails if the temp name is gone, and BGSAVE's deferred reset).
- Each write lands at the writer's own offset. A hole left by another writer's truncation reads as zeros.
- `Restart`: the process ends at any step, and main's LoadRDB rebuilds the store from `dump.rdb`.
- Under the event loop (`EventLoop`), a SAVE runs inside a command, so no other command runs until it returns.

`MCRdb.tla` sets the keys "x" and "y", the values "7" (an int) and "a", and the list element "b".

### ZSet and SortedSet (sorted set: dict plus skiplist, and what it promises)

`SortedSet.tla` is the abstract sorted set. Its state is a map `zs` from member
to score, plus the reply of the last ZADD or ZREM. `Order` ranks the members
by score, then by member. `RangeOf` is spec.md 4.3's 1-based range, and the
replies of ZSCORE, ZCARD, ZRANK and ZRANGE are operators on `zs`.

`ZSet.tla` is the implementation: `ZSet.Add` and `Remove` over `dict` and the
skiplist of `zset_test.go` 518-738, reached through `Store.ZAdd` and
`Store.ZRem`.

**State.**
- `zsl`: one record for the whole skiplist:
  - `fwd[x][i]` and `span[x][i]`: the forward pointer and span of node x at level i;
  - `key[x]`: the node's score and member;
  - `height[x]`: the node's height (0 for a free node id);
  - `level` and `length`.
- The header is node 0, and `Nil` is -1.
- A member is an integer ordered as Go orders the strings; 0 is `""`. A score is an integer or the model value `NaN`, which `FLt` and `FEq` treat as Go treats NaN.

**Insert and delete.**
- `insert` is three operators:
  - `Path` is the search loop, which records `update[i]` and `rank[i]`. `Walk` walks one level, and `Search` descends.
  - `Splice` is the rest: raising the level, linking the node, the spans, `span++` above the node's height, and `length++`.
  - randomLevel is the choice `\E lvl \in RandomLevels`.
- `Delete` is the same search, then `Unlink` (the check of the node after it) and `DeleteNode`, which shrinks `level`.
- `GetRank` (`RankFrom`/`RankAt`) and `GetRange` (`SkipDown` and `Gather`) are the two readers.
- Each reader passes its walk's result on as an argument, as Rdb's decoder does.

**Actions.** `ZAdd(s, m)` is `ZSet.Add` (an update deletes and re-inserts
unless the score is equal) and `ZRem(m)` is `Store.ZRem` (the key goes
when the set empties, so the next ZADD starts from a new skiplist). A ZADD or
ZREM of several pairs is that many store calls, each its own step. The
read-only commands change nothing; they are operators checked by
`RepliesMatch` in every state.

**Refinement.** `Abs == INSTANCE SortedSet WITH zs <- ChainMapOf(zsl, Chain(zsl))`
reads the abstract map off the bottom level, and `reply` maps to itself.
The run checks `RefinesSortedSet == Abs!Spec` as a property: every ZADD and
ZREM changes the skiplist the way Add and Rem change the map, and it gives the
same reply.

`MCZSet.tla` sets the members `a`, `b`, `c`, the scores 0 and 1, and the ZRANGE
indices -2, -1, 0, 1 and 3.

### StringCmds and AtomicStrings (string handlers and what they promise)

`AtomicStrings.tla` is the promise. It has SET (plain, NX or XX, with or without
EX), GET, INCR, DECR and DEL of `unnamed/part_006` 12-294, each as one atomic
step. The store's string calls (`store_test.go` 1284-1451 and `isExpired`
2157-2170) are pure operators on a record `[data, expires]`: `GetCall`,
`SetCall`, `SetExCall`, `SetNXCall`, `SetXXCall`, `DeleteCall` and
`LazyExpire`. A command applies its handler's calls back to back. Both
modules use the same operators, so a store call means the same thing in each.

- A value is an integer of the `Width`-bit signed type or `Str`, a string
  that `strconv.ParseInt` rejects. INCR of `Str` replies an error, and
  `num++` wraps (`Wrap`), as `int64` does.
- Time is Keyspace's abstraction. An expiry is "live" until `Tick` makes it
  "due", and the next call that checks it deletes the key. Delete does no
  check, so it counts an expired key.
- `Set` keeps `expires[k]`. That is the code, not spec.md 4.4, and so INCR keeps a TTL.

`StringCmds.tla` is the handlers as the server runs them. Every store call
takes `s.mu` alone, so a handler of two calls is two steps:
- `IncrGet` is Get and ParseInt, and `IncrSet` is the Set of `num+d`, whose error is ignored.
- `SetCond` is SetNX or SetXX, and `SetExpire` is the SetWithExpiry that follows when EX was given.

`pc`, `cmd` and `seen` hold a connection's state between its two calls.
Under `EventLoop` a connection starts a command only when no other is
inside one (`Scheduled`), as OnTraffic does. With a goroutine per connection
any call can come between.

**Refinement.** A command takes effect at its first store call. The mapping
completes the pending second call: `AbsData` holds the value a pending INCR
will write, `AbsExpires` is "live" for a pending SET NX|XX EX, and
`AbsReply` is the reply the pending command will give.
`RefinesAtomicStrings == Abs!Spec` with
`Abs == INSTANCE AtomicStrings WITH data <- AbsData, ...`.

`MCStringCmds.tla` sets `Val = {1, Str}` with `Width = 2`, so the integers are -2..1 and INCR of 1 wraps.

## Runs

| Run | Scheduler | Checks | Expect |
|---|---|---|---|
| txn_eventloop | event loop, 3 clients | TypeOK, WatchIndexSound, NoLostDirtyMark, NoSpuriousAbort, LogMatchesStore, ExecIsolated | pass (2.6M states, about 2 min) |
| txn_threaded_live | goroutines, 2 clients | WatchIndexSound, ExecCompletes | pass (290k states) |
| txn_threaded_lostmark | goroutines, 2 clients | NoLostDirtyMark | violation |
| aof_tornappend | always, no rewrite, 2 writes, 2 stops | NoAckedWriteLost | violation |
| aof_prefix | all policies, 1 rewrite, 2 writes, 2 stops, 32-byte buffer | TypeOK, RecoveredIsPrefix | pass (623k states, 32 s) |
| ks_evict | all six policies, 3 keys, maxmemory 130, lists of 1 | TypeOK | pass (249k states, 7 s) |
| ks_selfevict | allkeys-random, 2 keys, 140 | MaxMemoryRespected | violation |
| rdb_save | SAVE on the event loop, strings, lists, expiries | TypeOK, CodecRoundTrip, LoadedMatchesLastSave | pass (400k states, 55 s) |
| rdb_bgsave | BGSAVE with goroutine clients, strings and expiries | LoadedMatchesLastSave | pass (314k states, 30 s) |
| rdb_bglist | BGSAVE with goroutine clients and RPUSH | LoadedMatchesLastSave | violation |
| zset_ops | 3 members, scores {0, 1}, heights up to 3, 3 nodes | TypeOK, SortedSetAgreement, SpansExact, RepliesMatch, RefinesSortedSet | pass (28.7k states, about 1 min) |
| strings_goroutines | goroutines, 2 connections, 2 keys, 4 commands | TypeOK, ExpiryConsistency | pass (423k states, 15 s) |

The properties:
- **WatchIndexSound**: a live client appears in `watchedKeys[k]` exactly once while it watches k, and nowhere after close.
- **NoLostDirtyMark**: when a write's fan-out ends, every client watching the key at commit time (and not reset since) is dirty.
- **NoSpuriousAbort**: a client waiting for its next command is dirty only if a write really hit a key it watches.
- **ExecIsolated**: while EXEC runs its queue, no other write has hit a watched key since WATCH.
- **LogMatchesStore**: whenever no write is between commit and append, replaying the AOF (the last logged write per key) gives the store.
- **ExecCompletes**: every EXEC that starts returns the client to idle.

What the violations show (the findings in `PROJECT.json`):
- **lostmark**: c1 and c2 watch k. c2 writes k and its fan-out marks c1 in slot 1. c1 then UNWATCHes, which shifts c2 into slot 1, and WATCHes again, which appends c1 into slot 2. The fan-out reads slot 2 and marks c1 again; c2, the writer and a watcher itself, is never marked.

AofLog properties:
- **NoAckedWriteLost**: a running server holds, for every key, the promised write or a later one.
- **RecoveredIsPrefix** (action property): a restart from a file in which no command was appended after a torn one rebuilds the state after a prefix of the writes the store reflected before the stop. That covers every policy, bufio's partial flushes, rewrites and any crash cut.
- **TypeOK** also says that replay never stores a value no write wrote, whatever the bytes, and that the buffer never holds more than `BufSize`.

AofLog violation:
- **tornappend** (spec.md 4.7: `always` fsyncs every append, and replay "Ends cleanly at physical end-of-file"): under `always`, SET k 1 is written and flushed, and the process crashes before its fsync. The file keeps the first byte, `*`. The restart replays nothing and the writer opens the file with O_APPEND, so SET k 2 follows the `*`. It is fsynced and acknowledged. After SHUTDOWN and a restart, the parser reads `*` then `*3` as a count line, fails, and LoadAOF stops: the acknowledged SET k 2 is gone. A cut at an element boundary instead makes the torn array take the next commands as its elements, and SET rejects an array argument, so those writes are skipped.

Keyspace properties:
- **MaxMemoryRespected**: between commands, the keys held, by the store's own estimate, never exceed maxmemory.
- **TypeOK** also says every key of `expires` holds data.

Keyspace violations:
- **selfevict**: k1 (int) and k2 (str) use 138 of 140 bytes. `SET k2 <int>` adds 8 bytes and evicts k2 itself, which subtracts k2's 65 bytes although the delta already counted them. The commit stores k2 again, so 146 bytes are held while `currentMemory` says 81.

Rdb properties:
- **CodecRoundTrip**: `readLength(writeLength(n)) = n` at each boundary of the three forms (63/64, 16383/16384, up to 2^31-1) and at every file's length. A string written by writeString reads back unchanged.
- **LoadedMatchesLastSave** (action): a restart loads exactly the snapshot of the last SAVE or BGSAVE whose rename succeeded. That means every key with its value, and the expiries still after the clock (spec.md 4.6: a past expiry is skipped, the key still created).

ZSet properties:
- **SortedSetAgreement** (spec.md 8): a member is in `dict` exactly when one bottom-level node holds it, with dict's score. The skiplist's length equals dict's size.
- **SpansExact**: the bottom level is sorted by (score, member). At every level below `level`, each pointer goes to the next node at least that tall, and its span is the distance in ranks. The levels above are empty, and the top level is not empty unless it is level 1.
- **RepliesMatch**: in every state, ZSCORE, ZCARD, ZRANK and ZRANGE (at every pair of indices) answer what the abstract sorted set answers.
- **RefinesSortedSet**: the skiplist implementation implements `SortedSet`.

StringCmds properties:
- **ExpiryConsistency** (spec.md 8): a key with an expiry holds an object. Delete and isExpired must drop the expiry with the key, and SetNX over a deleted expired key must not inherit one.
- **RefinesAtomicStrings** is stated but checked by no run. Under the event loop it holds by construction, because a command runs to completion. Under the goroutine scheduler, which main starts, it fails (the two hazards below). The run cap leaves no room for a violation run of it.

Rdb violation:
- **bglist**: RPUSH x b, then BGSAVE, and the goroutine snapshots x = [b]. A second RPUSH x b mutates the shared Quicklist before `WriteKey` serialises it. The file holds [b, b], and the restart loads a list the snapshot never had. In Go, that Range/PushTail pair is also a data race.

Found while modelling, and kept as hazards in `PROJECT.json` rather than runs. TLC reproduces each one with a change of constants:
- **rewritelost** (AofLog, with a rewrite under `always`): BGREWRITEAOF snapshots the store. A SET is then fsynced to the old inode, the rename makes the path point at the rewritten file without it, and the restart loses the acknowledged SET.
- **INCR lost update** (StringCmds, EventLoop FALSE): two connections INCR k. Both Get 0, both Set 1, and both reply 1. `RefinesAtomicStrings` fails.
- **SET NX EX against DEL** (StringCmds, EventLoop FALSE): `SET k v NX EX` passes SetNX. Another connection's `DEL k` replies 1, and the SetWithExpiry then recreates k with a TTL.
- **INCR on a container** (read of part_006 240-256): Store.Get reports a list, hash, set or sorted set as absent, so INCR sets the key to "1" over it. spec.md 7 requires WRONGTYPE. INCR also ignores Set's OOM error and replies the new number.
- **SHUTDOWN without Close** (AofLog, Policies `{no}`): SET stays in the bufio buffer, SHUTDOWN exits, and the restarted server does not have the write. Under `everysec` the same exit leaves the write unsynced, and a later crash loses it.
- **SET keeps the expiry** (Store.Set): `SET k v EX s` then `SET k v` keeps the expiry, where spec.md 4.4 says a plain SET clears it. If the expiry has already passed, the new value is expired as soon as it is stored.
- **Lists bypass maxmemory** (Keyspace, noeviction with `MaxList = 1`): `LPUSH` adds no size, so a list takes the keyspace over maxmemory with no check.
- **Estimate leak**: after two SETs and a FLUSHDB, `currentMemory` keeps the deleted keys' size, so a noeviction server refuses a SET into the empty keyspace. Lazy expiry leaks the same way.
- **logorder** (WatchTxn, EventLoop FALSE): c1 and c2 both write k and commit in that order, but c2 appends to the AOF first.
- **rewatch** (WatchTxn, Rewatch TRUE): `WATCH k k` registers the client twice. UNWATCH removes one copy, so a later write marks the client, which watches nothing, and its next EXEC aborts.
- **rewritettl** (AofLog, with a rewrite): `SET k v EX`, then a rewrite. The restart replays `SET k v` and an unhandled `PEXPIREAT`, so k comes back without an expiry (`store[k].ttl` is FALSE).
- **SAVE and BGSAVE together** (Rdb, Writers `{save, bg}`): SAVE creates `dump.rdb.tmp` and writes its header. BGSAVE's `os.Create` truncates the same inode and writes its own header. SAVE's EOF lands at SAVE's offset past it, and SAVE renames the mix. The restart parses BGSAVE's aux fields, then reads leftover bytes as an entry and loads an invented key `""`.
- **isolation** (WatchTxn, EventLoop FALSE, two clients): a client passes EXEC's `isDirty` check; another connection then writes its watched key before the queue runs, and the transaction commits over it.
- **NaN scores** (ZSet, Score `{1, NaN}`): `ZADD k nan a` twice. `strconv.ParseFloat` accepts "nan". The second ZADD finds `oldScore != score` true, because NaN is unequal to itself. `delete` cannot match the NaN node, and `insert` adds a second one. The skiplist's length is 2 while dict holds 1 member, and ZRANGE lists `a` twice.
- **Header match in getRank** (ZSet, Member `{"", a, b}`): `ZADD k 0 ""` at height 1, then `ZADD k 0 a` at height 2. `ZRANK k ""` walks level 1 without leaving the header. The header's zero key is `("", 0)`, so `x.member == member && x.score == score` returns rank 0, and ZSet.Rank turns that into "absent".
- **The key ""** (EmptyKey in Key): under volatile-lru, `SET "" v EX` and then `SET k1 v` over the limit fail with OOM. `""` is the only candidate, and `evictApproximateLRU` returns `""`, which means "no victim".

With every policy and rewrites, a restart from a file with no command after a torn one yields a prefix: writes can be lost, but never an earlier one while a later one survives. Once a torn tail has had a command appended after it, neither durability nor the prefix holds (tornappend).

The event-loop server runs each command to completion, so none of the goroutine races above (lostmark, isolation, logorder) can happen there; the pass run confirms this.

**Bounds.**
- `MaxWrites = 2` and `MaxQueue = 1`: two writes allow two writers, or a watched write plus a write in EXEC.
- Two clients are enough for the shift to skip someone (the writer watches too), and for the log and isolation races. The event-loop run has three.
- The watch arrays reach capacity 4 (three clients), so reallocation and the frozen views both happen in the event-loop run.
- Connect/Disconnect and WATCH/UNWATCH cycles are unbounded: they do not grow the state.
- Keyspace:
  - MaxMemory 130 with three keys: a third key needs two evictions, a list key is the LRU victim, and a noeviction server refuses.
  - MaxMemory 140 with two keys (selfevict): int+str fits (138), int+int does not (146).
  - `MaxOps` (6 or 7) bounds the commands; Tick is not counted.
  - Ten eviction attempts are never needed with three keys (see hazards).
- ZSet: three members and two scores give updates that move a member past another, equal scores ordered by member, and re-adds with the same score. With three node ids and heights 1 to 3, a three-member set can have every shape of levels. `MaxNodes` counts the free ids that an update needs. The ZRANGE indices cover a negative start, a stop past the end, start > stop and the whole set (0, -1).
- StringCmds: two connections (the fewest for a race), two keys (a command on one key beside another on the other), `MaxOps = 4` (two two-call commands and two others). Values `{1, Str}` in a 2-bit integer make INCR wrap, DECR reach -2, and ParseInt fail.
- Rdb: two one-byte keys, `MaxOps = 4` commands (SAVE and BGSAVE included), the clock up to 2 ms, and two restarts. Four commands make room for a write, a save, and a write racing it. The inodes are one more than the writers: the current dump, plus one temp file per writer.
- AofLog: two keys and two writes. A plain SET is 27 bytes and SET with EX is 42, so with `BufSize = 32` a second buffered command fills and flushes the buffer mid-command, and one with EX into an empty buffer is written straight through. A crash can cut at every byte. Two stops allow a crash, a restart, a write and a second stop. Two inodes allow one rewrite. The tornappend run needs only `always`, one inode and the same counts.

**Fairness.** AofLog, Keyspace and Rdb check only safety, so they assume no fairness. For WatchTxn: weak fairness on ExecNext, ExecDone, MarkStep, MarkDone and AppendLog for every client. A goroutine (or the event loop) that has started a command keeps running it. Nothing is assumed about clients sending commands.

**Mutants.** Each property has a mutant in `PROJECT.json`; TLC finds each one violated:
- `append` that never reallocates;
- removal off by one;
- the fan-out loop stopping one element early;
- `unwatchAll` not clearing `isDirty`;
- EXEC-run commands not logged;
- EXEC without the dirty check;
- a loop index that never advances;
- Keyspace: a delete that leaves the key in `expires`.
- Rdb: the one-byte length form taken at 64; LoadRDB not resetting `expireTime` after a key; a rename that leaves the temp name in place.
- ZSet: randomLevel able to return skiplistMaxLevel + 1; an update that inserts without deleting the old node; no `span++` above the new node's height; getRange's descent crossing the start node; ZREM counting an absent member as removed.
- StringCmds: INCR taking an absent key's Get result as its number; Delete leaving `expires[key]`.
- AofLog: an empty buffer taking data larger than itself; a full buffer letting the new command through ahead of the buffered bytes.

## Plan

The modules below are in order of importance. Each one gets an MC module and runs like WatchTxn's.
1. **WatchTxn** (done). Next: WATCH's early error at a non-bulk key, and the client-mutex stall in `writeResponse`.
2. **AofLog** (done). Next: a RESP parser that resynchronises or truncates a torn tail, checked against tornappend; non-string types in the rewrite (RPUSH/HSET/SADD/ZADD all-in-one), write and fsync errors (the client is still answered OK), and the SIGTERM path's Appends racing Close.
3. **Keyspace** (done). Next: the read lock under which `isExpired` deletes.
4. **StringCmds** (done). Next: containers in its store, so INCR over a list is a state, and Set's OOM error under INCR (composition with Keyspace).
5. **Quicklist**: nodes under the size and count limits, refining a flat sequence. Range and Index are checked against `SubSeq`.
6. **ZSet** (done). Next: the sorted-set path through the AOF (ZADD with a bad score after some pairs replies an error, so its added members are not logged) and through writeZSetValue.
7. **Rdb** (done). Next: hashes, sets and sorted sets in the store, so that writeHashValue, writeSetValue and writeZSetValue are exercised. Also the `-dbfilename` flag, which main loads while SAVE always writes `dump.rdb`.

## Not modelled

- **RESP framing of client connections**: the parser is modelled on the AOF's bytes, where every length is one digit. Simple strings, errors, integers, null bulks and multi-digit lengths never occur there; their boundary cases are listed as hazards.
- **The list, hash and set handlers, EXISTS, TYPE and the server commands**: each is one store call, and a single call adds nothing to the Store model beyond its own tests. What could break is the handlers that make two calls, which StringCmds and ZSet model.
- **Argument parsing and reply text**: they change no state that these properties can tell apart.
- **The skiplist's tail and backward pointers, getByRank and first()**: `tail` is written but never read, and there is no backward pointer. Nothing calls getByRank or first().
- **Hash, set and sorted-set accessors in Keyspace**: they do no accounting and have no expiry logic beyond the `isExpired` that `Read` models.
- **The hash table and set containers**: they are Go maps with no control of their own.
- **Lengths of 2^31 and more in the RDB codec**: TLC's integers are 32-bit. The uint32 truncation at rdb.go 153 is a hazard, not a checked case.
- **Flags, logging, INFO, CONFIG, PING, ECHO**: they have no state the properties depend on.
