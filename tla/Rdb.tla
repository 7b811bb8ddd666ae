-------------------------------- MODULE Rdb --------------------------------
(***************************************************************************)
(* RDB snapshots: the byte-level encoder and decoder of                    *)
(* internal/persistence/rdb.go, the SAVE and BGSAVE handlers that run      *)
(* SaveRDB on the shared temporary file "dump.rdb.tmp", and a restart that *)
(* loads "dump.rdb" back with LoadRDB.                                     *)
(*                                                                         *)
(* Bytes are integers 0..255 and Go strings are sequences of them (ASCII   *)
(* codes).  Files are inodes holding byte sequences; a directory entry     *)
(* names an inode, so a rename moves a name and an open descriptor keeps   *)
(* writing the inode it was opened on.                                     *)
(***************************************************************************)
EXTENDS Integers, Sequences, SequencesExt, FiniteSets

CONSTANTS
    Key,          \* keys: small byte sequences
    StrVals,      \* the strings SET may store, as the bytes GET returns
    ListElems,    \* the elements RPUSH may push (may be empty)
    Writers,      \* which of "save" (SAVE) and "bg" (BGSAVE) clients issue
    EventLoop,    \* TRUE: gnet event loop, a SAVE blocks every other command
    MaxOps,       \* bound on store commands
    MaxTime,      \* bound on the millisecond clock
    MaxRestarts   \* bound on process restarts

ASSUME Writers \subseteq {"save", "bg"} /\ EventLoop \in BOOLEAN
ASSUME MaxTime < 256   \* expiry instants fit the low byte of their int64

----------------------------------------------------------------------------
(* Byte-level helpers                                                      *)

\* fmt.Sprintf("%d", n) and strconv.FormatInt(n, 10): ASCII decimal digits.
RECURSIVE Digits(_)
Digits(n) == IF n < 10 THEN <<48 + n>> ELSE Digits(n \div 10) \o <<48 + (n % 10)>>
Decimal(n) == IF n < 0 THEN <<45>> \o Digits(-n) ELSE Digits(n)

\* strconv.ParseInt(s, 10, 64) succeeds: optional sign, then digits only.
\* (Every digit run in the modelled files is far below the int64 bound.)
Unsigned(s) == IF Len(s) > 0 /\ s[1] \in {43, 45} THEN Tail(s) ELSE s
IsInteger(s) ==
    Len(Unsigned(s)) > 0 /\ \A i \in 1..Len(Unsigned(s)) : Unsigned(s)[i] \in 48..57
IntegerValue(s) ==
    LET mag == FoldLeft(LAMBDA acc, c : 10 * acc + c - 48, 0, Unsigned(s))
    IN  IF s[1] = 45 THEN -mag ELSE mag

\* createStringObject and readStringObject keep an integer-looking string as
\* an int64, and GET / writeStringValue print it back with %d: the stored
\* string is its canonical decimal form.
StringObject(s) ==
    IF IsInteger(s) THEN [type |-> "string", enc |-> "int", s |-> Decimal(IntegerValue(s))]
    ELSE [type |-> "string", enc |-> "str", s |-> s]

\* Unsigned little- and big-endian integers of k bytes from position i.
LE(b, i, k) == FoldRight(LAMBDA c, acc : 256 * acc + c, SubSeq(b, i, i + k - 1), 0)
BE(b, i, k) == FoldLeft(LAMBDA acc, c : 256 * acc + c, 0, SubSeq(b, i, i + k - 1))
\* int8/int16/int32 of k little-endian bytes (two's complement).
SignedLE(b, i, k) ==
    LET top == b[i + k - 1]
    IN  LE(b, i, k - 1) + 2^(8 * (k - 1)) * (IF top >= 128 THEN top - 256 ELSE top)

Zeros(k) == [i \in 1..k |-> 0]

----------------------------------------------------------------------------
(* Encoder: RDBWriter                                                      *)

opEOF == 255
opSelectDB == 254
opExpireTime == 253
opExpireMS == 252
opResizeDB == 251
opAux == 250

\* (mutant: the one-byte form also taken at 64)
WriteLengthAtBoundary(n) ==
    IF n <= 64 THEN <<n>>
    ELSE IF n < 16384 THEN <<64 + n \div 256, n % 256>>
    ELSE <<128, n \div 16777216, (n \div 65536) % 256, (n \div 256) % 256, n % 256>>

\* writeLength: 6-bit, 14-bit, or 0x80 followed by a big-endian uint32.
WriteLength(n) ==
    IF n < 64 THEN <<n>>
    ELSE IF n < 16384 THEN <<64 + n \div 256, n % 256>>
    ELSE <<128, n \div 16777216, (n \div 65536) % 256, (n \div 256) % 256, n % 256>>

WriteString(s) == WriteLength(Len(s)) \o s

\* "REDIS0009"
Magic == <<82, 69, 68, 73, 83, 48, 48, 48, 57>>

WriteAuxField(k, v) == <<opAux>> \o WriteString(k) \o WriteString(v)

\* SaveRDB up to the snapshot: header, the three aux fields, SELECTDB 0.
\* "redis-ver" "7.0.0", "redis-bits" "64", "ctime" <unix time>.
HeaderChunk(now) ==
    Magic
    \o WriteAuxField(<<114,101,100,105,115,45,118,101,114>>, <<55,46,48,46,48>>)
    \o WriteAuxField(<<114,101,100,105,115,45,98,105,116,115>>, <<54,52>>)
    \o WriteAuxField(<<99,116,105,109,101>>, Decimal(now))
    \o <<opSelectDB>> \o WriteLength(0)

WriteResizeDB(nd, ne) == <<opResizeDB>> \o WriteLength(nd) \o WriteLength(ne)

\* writeType: string -> 0, list -> 14 (quicklist).
TypeCode(o) == IF o.type = "string" THEN 0 ELSE 14

\* writeValue for the two types the model's store holds.
WriteValue(o) ==
    IF o.type = "string" THEN WriteString(o.s)
    ELSE WriteLength(Len(o.elems))
         \o FoldLeft(LAMBDA acc, e : acc \o WriteString(e), <<>>, o.elems)

\* WriteKeyValue: optional EXPIRETIME_MS with an 8-byte little-endian
\* int64, the type, the key, the value.
WriteKeyValue(k, o, exp) ==
    (IF exp >= 0 THEN <<opExpireMS, exp>> \o Zeros(7) ELSE <<>>)
    \o <<TypeCode(o)>> \o WriteString(k) \o WriteValue(o)

WriteEOF == <<opEOF>> \o Zeros(8)

----------------------------------------------------------------------------
(* Decoder: RDBReader.  A read returns a record with ok and the position   *)
(* of the next unread byte; a short read (io.ReadFull) is a failure.       *)

Fail == [ok |-> FALSE]

\* readBytes(n)
ReadBytes(b, i, n) ==
    IF i + n - 1 > Len(b) THEN Fail ELSE [ok |-> TRUE, s |-> SubSeq(b, i, i + n - 1), next |-> i + n]

\* readLength: the top two bits select the form; 3 is a special encoding.
ReadLength(b, i) ==
    IF i > Len(b) THEN Fail
    ELSE CASE b[i] \div 64 = 0 -> [ok |-> TRUE, len |-> b[i], special |-> FALSE, next |-> i + 1]
           [] b[i] \div 64 = 1 ->
                IF i + 1 > Len(b) THEN Fail
                ELSE [ok |-> TRUE, len |-> (b[i] % 64) * 256 + b[i + 1], special |-> FALSE, next |-> i + 2]
           [] b[i] \div 64 = 2 ->
                IF i + 4 > Len(b) THEN Fail
                ELSE [ok |-> TRUE, len |-> BE(b, i + 1, 4), special |-> FALSE, next |-> i + 5]
           [] OTHER -> [ok |-> TRUE, len |-> b[i] % 64, special |-> TRUE, next |-> i + 1]

\* readString: special 0/1/2 are int8/int16/int32 printed with %d.
ReadString(b, i) ==
    LET l == ReadLength(b, i)
        k == CASE l.len = 0 -> 1 [] l.len = 1 -> 2 [] l.len = 2 -> 4 [] OTHER -> 0
    IN  IF ~l.ok THEN Fail
        ELSE IF ~l.special THEN ReadBytes(b, l.next, l.len)
        ELSE IF k = 0 \/ l.next + k - 1 > Len(b) THEN Fail
        ELSE [ok |-> TRUE, s |-> Decimal(SignedLE(b, l.next, k)), next |-> l.next + k]

\* n strings in a row (list elements, set members, hash fields and values),
\* appended to acc.
RECURSIVE ReadStrings(_, _, _, _), MoreStrings(_, _, _, _)
ReadStrings(b, i, n, acc) ==
    IF n = 0 THEN [ok |-> TRUE, items |-> acc, next |-> i]
    ELSE MoreStrings(b, ReadString(b, i), n, acc)
\* ... after the string s was read.
MoreStrings(b, s, n, acc) ==
    IF s.ok THEN ReadStrings(b, s.next, n - 1, Append(acc, s.s)) ELSE Fail

\* n sorted-set entries: a member and its 8-byte float64 score.
RECURSIVE ReadScored(_, _, _, _), ScoreOf(_, _, _, _)
ReadScored(b, i, n, acc) ==
    IF n = 0 THEN [ok |-> TRUE, items |-> acc, next |-> i]
    ELSE ScoreOf(b, ReadString(b, i), n, acc)
\* ... after the member m was read.
ScoreOf(b, m, n, acc) ==
    IF m.ok /\ m.next + 7 <= Len(b)
    THEN ReadScored(b, m.next + 8, n - 1, acc \o <<m.s, SubSeq(b, m.next, m.next + 7)>>)
    ELSE Fail

\* HashTable.Set and ZSet.Add of alternating name/value items: the last
\* value given for a name wins.
LastWins(items) ==
    LET n == Len(items) \div 2
        names == {items[2 * j - 1] : j \in 1..n}
    IN  [f \in names |-> items[2 * Max({j \in 1..n : items[2 * j - 1] = f})]]

\* The object a collection reader's items make, by readKeyValue's type byte.
Collection(type, r) ==
    IF ~r.ok THEN Fail
    ELSE [ok |-> TRUE, next |-> r.next,
          obj |-> CASE type \in {1, 14} -> [type |-> "list", elems |-> r.items]
                    [] type = 2 -> [type |-> "set", members |-> ToSet(r.items)]
                    [] type = 4 -> [type |-> "hash", fields |-> LastWins(r.items)]
                    [] OTHER -> [type |-> "zset", fields |-> LastWins(r.items)]]

\* readStringObject
StringResult(str) ==
    IF str.ok THEN [ok |-> TRUE, obj |-> StringObject(str.s), next |-> str.next] ELSE Fail
ReadStringObject(b, i) == StringResult(ReadString(b, i))

\* readListObject, readSetObject and readHashObject (2n strings), or
\* readZSetObject: a length, then that many items.
ReadCollection(b, i, type) ==
    LET l == ReadLength(b, i)
    IN  IF ~l.ok THEN Fail
        ELSE IF type \in {3, 5} THEN Collection(type, ReadScored(b, l.next, l.len, <<>>))
        ELSE Collection(type, ReadStrings(b, l.next, IF type = 4 THEN 2 * l.len ELSE l.len, <<>>))

\* readKeyValue's switch on the type byte; an unknown type is an error.
ReadObject(b, i, type) ==
    CASE type = 0 -> ReadStringObject(b, i)
      [] type \in {1, 14, 2, 4, 3, 5} -> ReadCollection(b, i, type)
      [] OTHER -> Fail

NoExpiry == -1
Far == 256    \* any instant past MaxTime

\* EXPIRETIME_MS: a little-endian int64; negative instants are in the past.
Millis(b, i) ==
    IF b[i + 7] >= 128 THEN NoExpiry
    ELSE IF \E j \in 1..7 : b[i + j] # 0 THEN Far ELSE b[i]

\* EXPIRETIME: uint32 seconds, i.e. 0 or at least 1000 ms.
SecondsMillis(b, i) == IF \A j \in 0..3 : b[i + j] = 0 THEN 0 ELSE Far

EmptyDB == [data |-> [k \in {} |-> 0], expires |-> [k \in {} |-> 0], et |-> NoExpiry]

\* (mutant: LoadRDB without expireTime = nil after a key)
SetLoadedKeepPending(db, k, o, now) ==
    [data |-> (k :> o) @@ db.data,
     expires |-> IF db.et > now THEN (k :> db.et) @@ db.expires ELSE db.expires,
     et |-> db.et]

\* readKeyValue's effect: st.SetObject(key, obj), then SetObjectExpire only
\* when the pending expiry is after now; LoadRDB then resets expireTime.
SetLoaded(db, k, o, now) ==
    [data |-> (k :> o) @@ db.data,
     expires |-> IF db.et > now THEN (k :> db.et) @@ db.expires ELSE db.expires,
     et |-> NoExpiry]

\* One pass of LoadRDB's opcode loop at position i: the next position and
\* the store, or stop when the loop returns (EOF or any error, which leaves
\* the keys already loaded in the store).
Stop(db) == [stop |-> TRUE, db |-> db, next |-> 0]
Go(i, db) == [stop |-> FALSE, db |-> db, next |-> i]
\* AUX: the field name s1 was read; skip the value.
AuxValue(db, s2) == IF s2.ok THEN Go(s2.next, db) ELSE Stop(db)
AuxField(b, db, s1) == IF s1.ok THEN AuxValue(db, ReadString(b, s1.next)) ELSE Stop(db)
\* readKeyValue: the key k was read; read the object, then store it.
Loaded(db, key, o, now) == IF o.ok THEN Go(o.next, SetLoaded(db, key, o.obj, now)) ELSE Stop(db)
KeyValue(b, type, db, k, now) ==
    IF k.ok THEN Loaded(db, k.s, ReadObject(b, k.next, type), now) ELSE Stop(db)
LoadStep(b, i, db, now) ==
    IF i > Len(b) THEN Stop(db)
    ELSE CASE b[i] = opEOF -> Stop(db)
           [] b[i] = opSelectDB ->
                LET l == ReadLength(b, i + 1)
                IN  IF l.ok /\ l.len = 0 THEN Go(l.next, db) ELSE Stop(db)
           [] b[i] = opExpireTime ->
                IF i + 4 > Len(b) THEN Stop(db)
                ELSE Go(i + 5, [db EXCEPT !.et = SecondsMillis(b, i + 1)])
           [] b[i] = opExpireMS ->
                IF i + 8 > Len(b) THEN Stop(db)
                ELSE Go(i + 9, [db EXCEPT !.et = Millis(b, i + 1)])
           [] b[i] = opResizeDB ->
                LET l1 == ReadLength(b, i + 1)
                    l2 == ReadLength(b, l1.next)
                IN  IF l1.ok /\ l2.ok THEN Go(l2.next, db) ELSE Stop(db)
           [] b[i] = opAux -> AuxField(b, db, ReadString(b, i + 1))
           [] OTHER -> KeyValue(b, b[i], db, ReadString(b, i + 1), now)

RECURSIVE LoadFrom(_, _, _, _), Continue(_, _, _)
LoadFrom(b, i, db, now) == Continue(b, LoadStep(b, i, db, now), now)
Continue(b, s, now) == IF s.stop THEN s.db ELSE LoadFrom(b, s.next, s.db, now)

\* LoadRDB: a missing file is an empty store; a bad header loads nothing.
LoadRDB(b, now) ==
    IF Len(b) < 9 \/ SubSeq(b, 1, 9) # Magic THEN EmptyDB
    ELSE LoadFrom(b, 10, EmptyDB, now)

----------------------------------------------------------------------------
(* State                                                                   *)

VARIABLES
    data,       \* Store.data: key -> string object, or list [type, id]
    expires,    \* Store.expires: key -> expiry instant (ms)
    lists,      \* list object id -> its Quicklist elements (shared pointers)
    now,        \* the clock, in ms
    files,      \* inode -> bytes
    dir,        \* the names "dump.rdb.tmp" and "dump.rdb": an inode or 0
    wr,         \* per writer: pc, open inode, offset, snapshot, keys left
    bgRunning,  \* command.bgSaveRunning
    saved,      \* ghost: the snapshot whose rename last succeeded
    ops,        \* commands issued so far
    restarts

vars == <<data, expires, lists, now, files, dir, wr, bgRunning, saved, ops, restarts>>

Inodes == 1..(Cardinality(Writers) + 1)

Live(d, e, t) == {k \in DOMAIN d : ~(k \in DOMAIN e /\ t > e[k])}

\* Store.isExpired over every key, as Snapshot does: the copy holds the live
\* keys (the same object pointers) and their expiries.
Snapshot(d, e, t) ==
    [data |-> [k \in Live(d, e, t) |-> d[k]],
     expires |-> [k \in Live(d, e, t) \cap DOMAIN e |-> e[k]]]

\* An object as its bytes would show it now: a list through its pointer.
Resolve(o) == IF o.type = "list" THEN [type |-> "list", elems |-> lists[o.id]] ELSE o
View(s) == [data |-> [k \in DOMAIN s.data |-> Resolve(s.data[k])], expires |-> s.expires]

Open(w) == wr[w].pc \in {"snap", "keys", "eof", "rename"}
Free == Inodes \ ({dir.tmp, dir.rdb} \cup {wr[w].ino : w \in {x \in Writers : Open(x)}})

\* A write(2) at the descriptor's offset; a hole left by a truncation reads
\* as zero bytes.
Overwrite(f, off, c) ==
    [i \in 1..(IF Len(f) > off + Len(c) THEN Len(f) ELSE off + Len(c)) |->
        IF i > off /\ i <= off + Len(c) THEN c[i - off]
        ELSE IF i <= Len(f) THEN f[i] ELSE 0]

IdleWriter == [pc |-> "idle", ino |-> 0, off |-> 0, snap |-> Snapshot(<<>>, <<>>, 0),
               view |-> View(Snapshot(<<>>, <<>>, 0)), todo |-> <<>>]

\* Under the event loop a SAVE runs inside a command: nothing else is served.
ClientsMayRun == IF EventLoop /\ "save" \in Writers THEN wr["save"].pc = "idle" ELSE TRUE

Command == ops < MaxOps /\ ClientsMayRun

----------------------------------------------------------------------------
(* Store commands                                                          *)

\* Store.Set: the new string object replaces the value, the expiry is kept.
Set(k, v) ==
    /\ Command
    /\ data' = (k :> StringObject(v)) @@ data
    /\ ops' = ops + 1
    /\ UNCHANGED <<expires, lists, now, files, dir, wr, bgRunning, saved, restarts>>

\* Store.SetWithExpiry (SET k v PX 1).
SetWithExpiry(k, v) ==
    /\ Command
    /\ data' = (k :> StringObject(v)) @@ data
    /\ expires' = (k :> now + 1) @@ expires
    /\ ops' = ops + 1
    /\ UNCHANGED <<lists, now, files, dir, wr, bgRunning, saved, restarts>>

\* Store.RPush through getOrCreateList: an expired key is dropped first; a
\* new list is a fresh object; a string is WRONGTYPE; the push mutates the
\* list object in place.
RPush(k, e) ==
    LET gone == k \in DOMAIN expires /\ now > expires[k]
        d == IF gone THEN [x \in DOMAIN data \ {k} |-> data[x]] ELSE data
        ex == IF gone THEN [x \in DOMAIN expires \ {k} |-> expires[x]] ELSE expires
        id == <<restarts, k, ops>>
    IN  /\ Command
        /\ ops' = ops + 1
        /\ expires' = ex
        /\ CASE k \notin DOMAIN d ->
                  /\ data' = (k :> [type |-> "list", id |-> id]) @@ d
                  /\ lists' = (id :> <<e>>) @@ lists
             [] d[k].type = "list" ->
                  /\ data' = d
                  /\ lists' = [lists EXCEPT ![d[k].id] = Append(@, e)]
             [] OTHER -> data' = d /\ UNCHANGED lists
        /\ UNCHANGED <<now, files, dir, wr, bgRunning, saved, restarts>>

\* Store.Delete
Delete(k) ==
    /\ Command
    /\ k \in DOMAIN data
    /\ data' = [x \in DOMAIN data \ {k} |-> data[x]]
    /\ expires' = [x \in DOMAIN expires \ {k} |-> expires[x]]
    /\ ops' = ops + 1
    /\ UNCHANGED <<lists, now, files, dir, wr, bgRunning, saved, restarts>>

Tick ==
    /\ now < MaxTime
    /\ now' = now + 1
    /\ UNCHANGED <<data, expires, lists, files, dir, wr, bgRunning, saved, ops, restarts>>

----------------------------------------------------------------------------
(* SAVE, BGSAVE and SaveRDB.  A writer's steps are SaveRDB's system calls, *)
(* grouped where nothing observable can fall between them.                 *)

Written(w, c) == [files EXCEPT ![wr[w].ino] = Overwrite(@, wr[w].off, c)]

\* os.Create("dump.rdb.tmp") truncates the inode the name already has, or
\* makes a new one; then the header, aux fields and SELECTDB are written.
CreateTmp(w, snap, view) ==
    LET ino == IF dir.tmp # 0 THEN dir.tmp ELSE CHOOSE i \in Free : TRUE
    IN  /\ dir.tmp # 0 \/ Free # {}
        /\ files' = [files EXCEPT ![ino] = HeaderChunk(now)]
        /\ dir' = [dir EXCEPT !.tmp = ino]
        /\ wr' = [wr EXCEPT ![w] = [pc |-> "snap", ino |-> ino, off |-> Len(HeaderChunk(now)),
                                    snap |-> snap, view |-> view, todo |-> <<>>]]

\* SaveCommand: SaveRDB on the live store, inside the command.
SaveCommand ==
    /\ "save" \in Writers
    /\ wr["save"].pc = "idle"
    /\ Command
    /\ ops' = ops + 1
    /\ CreateTmp("save", IdleWriter.snap, IdleWriter.view)
    /\ UNCHANGED <<data, expires, lists, now, bgRunning, saved, restarts>>

\* BGSaveCommand: test and set bgSaveRunning under bgSaveMu, start the
\* goroutine.  A second BGSAVE while one runs only gets an error reply.
BGSaveCommand ==
    /\ "bg" \in Writers
    /\ Command
    /\ ~bgRunning
    /\ bgRunning' = TRUE
    /\ wr' = [wr EXCEPT !["bg"].pc = "start"]
    /\ ops' = ops + 1
    /\ UNCHANGED <<data, expires, lists, now, files, dir, saved, restarts>>

\* The goroutine: s.Snapshot() (which drops expired keys from the live
\* store), RestoreSnapshot into tempStore, and SaveRDB's first writes.  The
\* tempStore shares every object pointer with the live store.
BGSaveStart ==
    LET s == Snapshot(data, expires, now)
    IN  /\ "bg" \in Writers
        /\ wr["bg"].pc = "start"
        /\ data' = s.data
        /\ expires' = [k \in DOMAIN s.data \cap DOMAIN expires |-> expires[k]]
        /\ CreateTmp("bg", s, View(s))
        /\ UNCHANGED <<lists, now, bgRunning, saved, ops, restarts>>

\* SaveRDB: s.Snapshot() of the store being saved, WriteResizeDB, and the
\* order of Go's map iteration over the keys.
SnapshotAndResize(w) ==
    LET src == IF w = "save" THEN Snapshot(data, expires, now)
               ELSE Snapshot(wr[w].snap.data, wr[w].snap.expires, now)
        view == IF w = "save" THEN View(src)
                ELSE [data |-> [k \in DOMAIN src.data |-> wr[w].view.data[k]], expires |-> src.expires]
        c == WriteResizeDB(Cardinality(DOMAIN src.data), Cardinality(DOMAIN src.expires))
    IN  /\ wr[w].pc = "snap"
        /\ \E order \in SetToSeqs(DOMAIN src.data) :
              wr' = [wr EXCEPT ![w] = [@ EXCEPT !.pc = "keys", !.off = @ + Len(c),
                                              !.snap = src, !.view = view, !.todo = order]]
        /\ files' = Written(w, c)
        /\ IF w = "save" THEN data' = src.data /\ expires' = src.expires
           ELSE UNCHANGED <<data, expires>>
        /\ UNCHANGED <<lists, now, dir, bgRunning, saved, ops, restarts>>

\* WriteKeyValue of the next key.  A list is serialised through its shared
\* pointer: what it holds now, not what it held at the snapshot.
WriteKey(w) ==
    LET k == Head(wr[w].todo)
        exp == IF k \in DOMAIN wr[w].snap.expires THEN wr[w].snap.expires[k] ELSE NoExpiry
        c == WriteKeyValue(k, Resolve(wr[w].snap.data[k]), exp)
    IN  /\ wr[w].pc = "keys"
        /\ wr[w].todo # <<>>
        /\ files' = Written(w, c)
        /\ wr' = [wr EXCEPT ![w].off = @ + Len(c), ![w].todo = Tail(@)]
        /\ UNCHANGED <<data, expires, lists, now, dir, bgRunning, saved, ops, restarts>>

\* WriteEOF: the opcode and eight zero checksum bytes.
WriteEOFStep(w) ==
    /\ wr[w].pc = "keys"
    /\ wr[w].todo = <<>>
    /\ files' = Written(w, WriteEOF)
    /\ wr' = [wr EXCEPT ![w].off = @ + Len(WriteEOF), ![w].pc = "rename"]
    /\ UNCHANGED <<data, expires, lists, now, dir, bgRunning, saved, ops, restarts>>

\* (mutant: the temporary name survives, as with a copy)
RenameStepKeepTmp(w) ==
    /\ wr[w].pc = "rename"
    /\ IF dir.tmp # 0
       THEN /\ dir' = [dir EXCEPT !.rdb = dir.tmp]
            /\ saved' = wr[w].view
       ELSE UNCHANGED <<dir, saved>>
    /\ wr' = [wr EXCEPT ![w] = IdleWriter]
    /\ bgRunning' = (IF w = "bg" THEN FALSE ELSE bgRunning)
    /\ UNCHANGED <<data, expires, lists, now, files, ops, restarts>>

\* file.Sync, file.Close, os.Rename(tmp, "dump.rdb"): the rename fails when
\* the temporary name is gone.  BGSAVE's deferred reset of bgSaveRunning.
RenameStep(w) ==
    /\ wr[w].pc = "rename"
    /\ IF dir.tmp # 0
       THEN /\ dir' = [tmp |-> 0, rdb |-> dir.tmp]
            /\ saved' = wr[w].view
       ELSE UNCHANGED <<dir, saved>>
    /\ wr' = [wr EXCEPT ![w] = IdleWriter]
    /\ bgRunning' = (IF w = "bg" THEN FALSE ELSE bgRunning)
    /\ UNCHANGED <<data, expires, lists, now, files, ops, restarts>>

----------------------------------------------------------------------------
(* Restart: main loads dump.rdb into a new store (appendonly off).         *)

\* The loaded store: each list becomes a fresh Quicklist object.
Install(db) ==
    /\ data' = [k \in DOMAIN db.data |->
                  IF db.data[k].type = "list" THEN [type |-> "list", id |-> <<restarts + 1, k>>]
                  ELSE db.data[k]]
    /\ lists' = [id \in {<<restarts + 1, k>> : k \in {x \in DOMAIN db.data : db.data[x].type = "list"}} |->
                   db.data[id[2]].elems]
    /\ expires' = db.expires

Restart ==
    /\ restarts < MaxRestarts
    /\ restarts' = restarts + 1
    /\ Install(IF dir.rdb = 0 THEN EmptyDB ELSE LoadRDB(files[dir.rdb], now))
    /\ wr' = [w \in Writers |-> IdleWriter]
    /\ bgRunning' = FALSE
    /\ UNCHANGED <<now, files, dir, saved, ops>>

----------------------------------------------------------------------------
Init ==
    /\ data = [k \in {} |-> 0]
    /\ expires = [k \in {} |-> 0]
    /\ lists = [k \in {} |-> <<>>]
    /\ now = 0
    /\ files = [i \in Inodes |-> <<>>]
    /\ dir = [tmp |-> 0, rdb |-> 0]
    /\ wr = [w \in Writers |-> IdleWriter]
    /\ bgRunning = FALSE
    /\ saved = IdleWriter.view
    /\ ops = 0
    /\ restarts = 0

Next ==
    \/ \E k \in Key, v \in StrVals : Set(k, v) \/ SetWithExpiry(k, v)
    \/ \E k \in Key, e \in ListElems : RPush(k, e)
    \/ \E k \in Key : Delete(k)
    \/ Tick
    \/ SaveCommand
    \/ BGSaveCommand
    \/ BGSaveStart
    \/ \E w \in Writers : SnapshotAndResize(w) \/ WriteKey(w) \/ WriteEOFStep(w) \/ RenameStep(w)
    \/ Restart

Spec == Init /\ [][Next]_vars

----------------------------------------------------------------------------
(* Properties                                                              *)

TypeOK ==
    /\ \A i \in Inodes : \A j \in 1..Len(files[i]) : files[i][j] \in 0..255
    /\ dir.tmp \in 0..Len(files) /\ dir.rdb \in 0..Len(files)
    /\ dir.tmp = 0 \/ dir.tmp # dir.rdb
    /\ bgRunning = ("bg" \in Writers /\ wr["bg"].pc # "idle")

\* A restart loads exactly the snapshot of the last SAVE or BGSAVE that
\* renamed its file into dump.rdb (LoadRDB after SaveRDB): every key with
\* its value, and the expiries still in the future (readKeyValue installs
\* an expiry only when it is after now).
LoadedMatchesLastSave ==
    [][Restart =>
        /\ [k \in DOMAIN data' |-> IF data'[k].type = "list" THEN [type |-> "list", elems |-> lists'[data'[k].id]]
                                    ELSE data'[k]] = saved.data
        /\ expires' = [k \in {x \in DOMAIN saved.expires : saved.expires[x] > now} |-> saved.expires[k]]
    ]_vars

\* The length prefix of writeLength decodes, through readLength, to the
\* length written, at each boundary of its three forms (6-bit, 14-bit,
\* 32-bit) and at the length of every file on disk; and a string written
\* by writeString reads back the same.
LengthCases == {0, 1, 63, 64, 255, 256, 16383, 16384, 65535, 65536, 2147483647}
CodecRoundTrip ==
    /\ \A n \in LengthCases \cup {Len(files[i]) : i \in Inodes} :
          LET r == ReadLength(WriteLength(n), 1)
          IN  r.ok /\ ~r.special /\ r.len = n /\ r.next = Len(WriteLength(n)) + 1
    /\ \A n \in {0, 1, 63, 64, 65} :
          LET s == [i \in 1..n |-> 97]
              r == ReadString(WriteString(s) \o <<opEOF>>, 1)
          IN  r.ok /\ r.s = s /\ r.next = Len(WriteString(s)) + 1

============================================================================
