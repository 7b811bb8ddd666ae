------------------------------ MODULE Keyspace ------------------------------
(***************************************************************************)
(* The keyspace of internal/store (store_test.go 1209-2297) with memory    *)
(* accounting and eviction (eviction.go): data and expires, the estimate   *)
(* currentMemory, and the writes that call TryEvictUntilUnderLimit while   *)
(* they hold s.mu.  Every Store method holds s.mu for its whole body, so   *)
(* a method is one step, except a string write: its eviction loop is a     *)
(* step per PerformEviction, during which no other method runs.            *)
(*                                                                         *)
(* A value is abstracted to what the size estimate sees: a string that     *)
(* parses as an integer ("int"), any other string ("str"), or a list of n  *)
(* elements.  Time is abstracted to whether an expiry has passed: Tick     *)
(* turns a "live" expiry into a "due" one, which the next access deletes.  *)
(***************************************************************************)
EXTENDS Integers, FiniteSets, FiniteSetsExt

CONSTANTS
    Key,        \* keys (model values), one character long
    EmptyKey,   \* the key "" when it is in Key
    Policies,   \* maxmemory-policy values a run may start with
    MaxMemory,  \* the maxmemory flag, > 0 so that tracking is on
    MaxList,    \* bound on a list's length (0: no list commands)
    MaxOps      \* bound on the commands of a behaviour

VARIABLES
    policy,     \* evictionConfig.Policy
    data,       \* key -> object
    expires,    \* key -> "none" | "live" | "due"
    mem,        \* evictionConfig.currentMemory
    op,         \* the string write holding s.mu, or NoOp
    result,     \* outcome of the last string write: "none" | "ok" | "oom"
    ops         \* commands so far

vars == <<policy, data, expires, mem, op, result, ops>>

None == [kind |-> "none", n |-> 0]
StrObj(v) == [kind |-> v, n |-> 0]
ListObj(n) == [kind |-> "list", n |-> n]
Obj == {None, StrObj("int"), StrObj("str")} \cup {ListObj(n) : n \in 1..MaxList}

NoOp == [name |-> "none", key |-> EmptyKey, obj |-> None, delta |-> 0, i |-> 0]

\* maxAttempts in TryEvictUntilUnderLimit (eviction.go 262).
MaxAttempts == 10

VolatilePolicies == {"volatile-lru", "volatile-random", "volatile-ttl"}

(***************************************************************************)
(* Size estimates, eviction.go 42-85.                                      *)
(***************************************************************************)
\* 32 bytes of header; an integer string adds 8 (its Ptr is an int64, so
\* the len(str) term never applies); other strings add nothing; a list
\* adds 50 per element.
EstimateObjectSize(o) ==
    CASE o.kind = "int"  -> 40
      [] o.kind = "str"  -> 32
      [] o.kind = "list" -> 32 + 50 * o.n
      [] OTHER           -> 0

EstimateKeySize(k) == 32 + (IF k = EmptyKey THEN 0 ELSE 1)

\* oldSize of a string write: the estimate of what the key holds in d.
OldSize(d, k) ==
    IF d[k] = None THEN 0 ELSE EstimateObjectSize(d[k]) + EstimateKeySize(k)

IsMemoryExceeded == mem > MaxMemory

\* isExpired (store_test.go 2157-2171): the key's expiry has passed; the
\* caller's isExpired then deletes it from data and expires, and leaves
\* currentMemory as it was.
Expired(k) == data[k] # None /\ expires[k] = "due"

LazyDeleted(k) ==
    IF Expired(k) THEN [data EXCEPT ![k] = None] ELSE data
LazyExpires(k) ==
    IF Expired(k) THEN [expires EXCEPT ![k] = "none"] ELSE expires

(***************************************************************************)
(* A string write: compute oldSize and newSize on the data d left by the   *)
(* method's own expiry check, add the difference to currentMemory, and     *)
(* enter TryEvictUntilUnderLimit with s.mu held.                           *)
(***************************************************************************)
StartWrite(name, k, v, d, e) ==
    LET delta == EstimateObjectSize(StrObj(v)) + EstimateKeySize(k) - OldSize(d, k)
    IN /\ mem' = mem + delta
       /\ op' = [name |-> name, key |-> k, obj |-> StrObj(v), delta |-> delta, i |-> 0]
       /\ data' = d /\ expires' = e

Idle == op = NoOp /\ ops < MaxOps

StrVal == {"int", "str"}

\* Set and SetWithExpiry (store_test.go 1284-1337): no expiry check.
Set(k, v, ex) ==
    /\ Idle
    /\ StartWrite(IF ex THEN "SetWithExpiry" ELSE "Set", k, v, data, expires)
    /\ ops' = ops + 1
    /\ UNCHANGED <<policy, result>>

\* SetNX (1393-1423): a live key makes it return false; an expired one is
\* deleted by isExpired and the write goes on.
SetNX(k, v) ==
    /\ Idle /\ ops' = ops + 1
    /\ \/ /\ data[k] # None /\ ~Expired(k)
          /\ UNCHANGED <<data, expires, mem, op>>
       \/ /\ data[k] = None \/ Expired(k)
          /\ StartWrite("SetNX", k, v, LazyDeleted(k), LazyExpires(k))
    /\ UNCHANGED <<policy, result>>

\* SetXX (1425-1451): an absent key, or an expired one (which isExpired
\* deletes), makes it return false.
SetXX(k, v) ==
    /\ Idle /\ ops' = ops + 1
    /\ \/ /\ data[k] = None \/ Expired(k)
          /\ data' = LazyDeleted(k) /\ expires' = LazyExpires(k)
          /\ UNCHANGED <<mem, op>>
       \/ /\ data[k] # None /\ ~Expired(k)
          /\ StartWrite("SetXX", k, v, data, expires)
    /\ UNCHANGED <<policy, result>>

(***************************************************************************)
(* TryEvictUntilUnderLimit and PerformEviction, eviction.go 87-276.        *)
(***************************************************************************)
\* The candidates: keys of data, or of expires that are in data.
Pool ==
    IF policy \in VolatilePolicies
    THEN {k \in Key : data[k] # None /\ expires[k] # "none"}
    ELSE {k \in Key : data[k] # None}

\* obj.LRU: updateLRU stamps strings with the current second; a list made
\* by getOrCreateList keeps LRU 0.  Strings stamped in one second tie.
LruStamp(k) == IF data[k].kind = "list" THEN 0 ELSE 1

\* The keys PerformEviction may pick.  The model has fewer keys than the
\* default five samples, so the approximate LRU sees every candidate.
Victims ==
    CASE policy \in {"allkeys-random", "volatile-random"} -> Pool
      [] policy = "volatile-ttl" ->
            IF \E k \in Pool : expires[k] = "due"
            THEN {k \in Pool : expires[k] = "due"} ELSE Pool
      [] OTHER ->
            {k \in Pool : \A j \in Pool : LruStamp(k) <= LruStamp(j)}

\* deleteInternal (220-231), and Delete (1382-1389) alike: subtract the
\* estimate of what the key holds and delete it from both maps.
\* A delete that leaves the key in s.expires.
DeleteInternalKeepExpiry(k) ==
    /\ mem' = mem - (EstimateObjectSize(data[k]) + EstimateKeySize(k))
    /\ data' = [data EXCEPT ![k] = None]
    /\ UNCHANGED expires

DeleteInternal(k) ==
    /\ mem' = mem - (EstimateObjectSize(data[k]) + EstimateKeySize(k))
    /\ data' = [data EXCEPT ![k] = None]
    /\ expires' = [expires EXCEPT ![k] = "none"]

\* The write fails with OOM: undo its delta (rollback in the caller).
Refused(m) ==
    /\ mem' = m - op.delta
    /\ op' = NoOp /\ result' = "oom"

RandomPolicies == {"allkeys-random", "volatile-random"}

\* One PerformEviction of the loop (263-268).  An empty pool ends the loop
\* with "OOM: no keys available".  Otherwise the policy picks a victim;
\* evictRandom deletes it whatever its name, the LRU and TTL policies
\* delete it unless it is "" (their "no victim" value).  A victim named ""
\* then ends the loop with the same error as an empty pool.
EvictStep ==
    /\ op # NoOp /\ IsMemoryExceeded
    /\ policy # "noeviction" /\ op.i < MaxAttempts
    /\ \/ /\ Pool = {}
          /\ Refused(mem) /\ UNCHANGED <<data, expires>>
       \/ \E v \in Victims :
            LET gone == v # EmptyKey \/ policy \in RandomPolicies
                m == IF gone THEN mem - (EstimateObjectSize(data[v]) + EstimateKeySize(v))
                     ELSE mem
            IN /\ data' = IF gone THEN [data EXCEPT ![v] = None] ELSE data
               /\ expires' = IF gone THEN [expires EXCEPT ![v] = "none"] ELSE expires
               /\ IF v = EmptyKey
                  THEN Refused(m)
                  ELSE /\ mem' = m /\ op' = [op EXCEPT !.i = @ + 1]
                       /\ UNCHANGED result
    /\ UNCHANGED <<policy, ops>>

\* The estimate exceeds maxmemory and no eviction may help: noeviction
\* (258-260), or ten evictions were not enough (271-273).
Refuse ==
    /\ op # NoOp /\ IsMemoryExceeded
    /\ policy = "noeviction" \/ op.i >= MaxAttempts
    /\ Refused(mem)
    /\ UNCHANGED <<policy, data, expires, ops>>

\* Under the limit: the write stores its object.  SetWithExpiry sets the
\* expiry and SetNX deletes it; Set and SetXX leave it.
Commit ==
    /\ op # NoOp /\ ~IsMemoryExceeded
    /\ data' = [data EXCEPT ![op.key] = op.obj]
    /\ expires' = CASE op.name = "SetWithExpiry" -> [expires EXCEPT ![op.key] = "live"]
                    [] op.name = "SetNX" -> [expires EXCEPT ![op.key] = "none"]
                    [] OTHER -> expires
    /\ op' = NoOp /\ result' = "ok"
    /\ UNCHANGED <<policy, mem, ops>>

(***************************************************************************)
(* The other methods that change data, each one step under s.mu.           *)
(***************************************************************************)
\* Delete (1373-1391): subtract the estimate of what the key holds.
Delete(k) ==
    /\ Idle /\ data[k] # None
    /\ DeleteInternal(k)
    /\ ops' = ops + 1
    /\ UNCHANGED <<policy, op, result>>

\* A read (Get, Exists, GetType, LLen, Keys, Size, Snapshot...) that
\* meets an expired key: isExpired deletes it.
Read(k) ==
    /\ Idle /\ Expired(k)
    /\ data' = LazyDeleted(k) /\ expires' = LazyExpires(k)
    /\ ops' = ops + 1
    /\ UNCHANGED <<policy, mem, op, result>>

\* LPush/RPush of one element (1469-1501) through getOrCreateList
\* (1604-1633): an expired key is deleted, a missing one becomes an empty
\* list, a string makes it fail with WRONGTYPE.  No size is accounted.
Push(k) ==
    LET d == LazyDeleted(k) IN
    /\ Idle /\ d[k].kind \in {"none", "list"} /\ d[k].n < MaxList
    /\ data' = [d EXCEPT ![k] = ListObj(d[k].n + 1)]
    /\ expires' = LazyExpires(k)
    /\ ops' = ops + 1
    /\ UNCHANGED <<policy, mem, op, result>>

\* LPop/RPop (1503-1547) through getList: the last element's pop deletes
\* the key; no size is accounted.
Pop(k) ==
    /\ Idle /\ ~Expired(k) /\ data[k].kind = "list"
    /\ data' = [data EXCEPT ![k] = IF @.n = 1 THEN None ELSE ListObj(@.n - 1)]
    /\ expires' = IF data[k].n = 1 THEN [expires EXCEPT ![k] = "none"] ELSE expires
    /\ ops' = ops + 1
    /\ UNCHANGED <<policy, mem, op, result>>

\* FlushDB (2239-2245): new empty maps; currentMemory is not reset.
FlushDB ==
    /\ Idle
    /\ data' = [k \in Key |-> None] /\ expires' = [k \in Key |-> "none"]
    /\ ops' = ops + 1
    /\ UNCHANGED <<policy, mem, op, result>>

\* Time passes a key's expiry.
Tick(k) ==
    /\ op = NoOp /\ expires[k] = "live"
    /\ expires' = [expires EXCEPT ![k] = "due"]
    /\ UNCHANGED <<policy, data, mem, op, result, ops>>

\* main.go 31-38: an empty store with maxmemory > 0 and the flag's policy.
Init ==
    /\ policy \in Policies
    /\ data = [k \in Key |-> None] /\ expires = [k \in Key |-> "none"]
    /\ mem = 0 /\ op = NoOp /\ result = "none" /\ ops = 0

Next ==
    \/ \E k \in Key, v \in StrVal :
          \/ \E ex \in BOOLEAN : Set(k, v, ex)
          \/ SetNX(k, v) \/ SetXX(k, v)
    \/ EvictStep \/ Refuse \/ Commit
    \/ \E k \in Key : Delete(k) \/ Read(k) \/ Push(k) \/ Pop(k) \/ Tick(k)
    \/ FlushDB

Spec == Init /\ [][Next]_vars

(***************************************************************************)
(* Properties.                                                             *)
(***************************************************************************)
\* Types, and: every key of s.expires is also a key of s.data, as
\* deleteInternal, Delete, the lazy expiry of reads, the last LPop/RPop,
\* FlushDB and SetNX's overwrite must keep it (a stale entry would expire,
\* or be picked by a volatile policy, for a key that holds nothing).
TypeOK ==
    /\ policy \in Policies
    /\ data \in [Key -> Obj] /\ expires \in [Key -> {"none", "live", "due"}]
    /\ \A k \in Key : expires[k] # "none" => data[k] # None
    /\ mem \in Int /\ result \in {"none", "ok", "oom"} /\ ops \in 0..MaxOps
    /\ op = NoOp \/ (op.name \in {"Set", "SetWithExpiry", "SetNX", "SetXX"}
                     /\ op.key \in Key /\ op.i \in 0..MaxAttempts)

\* What the keyspace really holds, by the code's own size estimates.
Used == MapThenSumSet(LAMBDA k : EstimateObjectSize(data[k]) + EstimateKeySize(k),
                      {k \in Key : data[k] # None})

\* maxmemory holds: between commands, the keys held never exceed it by the
\* store's own estimate, whatever writes, deletes, evictions and expiries
\* came before.
MaxMemoryRespected == op = NoOp => Used <= MaxMemory

====
