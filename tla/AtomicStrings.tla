--------------------------- MODULE AtomicStrings ---------------------------
(***************************************************************************)
(* The string commands SET [NX|XX] [EX], GET, INCR, DECR and DEL            *)
(* (unnamed/part_006 12-294) as if each ran atomically: a command is one   *)
(* step that makes the handler's store calls back to back.  StringCmds.tla *)
(* runs each store call as its own step and refines this module.           *)
(*                                                                         *)
(* The store's string calls (store_test.go 1284-1460) are pure operators   *)
(* on a state record st = [data, expires], so that both modules apply the  *)
(* same calls.  A value is an integer in the range of the Width-bit signed *)
(* type (a string strconv.ParseInt accepts, stored canonically by          *)
(* createStringObject) or Str, a string ParseInt rejects.  Time is         *)
(* abstracted as in Keyspace.tla: an expiry is "live" until Tick makes it  *)
(* "due", and the next call that checks it deletes the key.                *)
(***************************************************************************)
EXTENDS Integers

CONSTANTS
    Conn,       \* client connections
    Key,        \* keys
    Val,        \* values SET may write: integers and Str
    Width,      \* bits of the integer type (int64 in the code)
    Str,        \* a string that strconv.ParseInt rejects
    None        \* no object under the key

ASSUME Width \in 1..16

VARIABLES
    data,       \* key -> value or None
    expires,    \* key -> "none" | "live" | "due"
    reply       \* connection -> the reply of its last command

MinInt == -(2 ^ (Width - 1))
MaxInt == 2 ^ (Width - 1) - 1
IntVal == MinInt..MaxInt

\* num++ and num-- on a Width-bit two's complement integer.
Wrap(n) == ((n - MinInt) % (2 ^ Width)) + MinInt

NoReply == [t |-> "none"]
OkReply == [t |-> "ok"]
NullReply == [t |-> "null"]
ErrReply == [t |-> "err"]
IntReply(n) == [t |-> "int", n |-> n]
BulkReply(v) == [t |-> "bulk", v |-> v]

----------------------------------------------------------------------------
(* The store's calls.  Each holds s.mu for its whole body.                 *)

Gone(st, k) == [data |-> [st.data EXCEPT ![k] = None],
                expires |-> [st.expires EXCEPT ![k] = "none"]]

\* isExpired: a key past its expiry is deleted from data and expires.
IsExpired(st, k) == st.expires[k] = "due"
LazyExpire(st, k) == IF IsExpired(st, k) THEN Gone(st, k) ELSE st

\* Store.Get: the string under k after lazy expiry, or None.
GetCall(st, k) == LET s == LazyExpire(st, k) IN [st |-> s, val |-> s.data[k]]

\* Store.Set: replaces the object and leaves expires[k] as it was.
SetCall(st, k, v) == [st EXCEPT !.data[k] = v]

\* Store.SetWithExpiry: the object and an expiry in the future.
SetExCall(st, k, v) == [st EXCEPT !.data[k] = v, !.expires[k] = "live"]

\* Store.SetNX: refused while a live key exists; otherwise it writes and
\* drops any expiry.
SetNXCall(st, k, v) ==
    IF st.data[k] # None /\ ~IsExpired(st, k)
    THEN [st |-> st, ok |-> FALSE]
    ELSE [st |-> [data |-> [st.data EXCEPT ![k] = v],
                  expires |-> [st.expires EXCEPT ![k] = "none"]], ok |-> TRUE]

\* Store.SetXX: refused unless a live key exists; keeps the expiry.
SetXXCall(st, k, v) ==
    IF st.data[k] = None \/ IsExpired(st, k)
    THEN [st |-> LazyExpire(st, k), ok |-> FALSE]
    ELSE [st |-> SetCall(st, k, v), ok |-> TRUE]

\* (mutant: Delete leaves expires[key])
DeleteCallKeepExpiry(st, k) ==
    IF st.data[k] = None THEN [st |-> st, ok |-> FALSE]
    ELSE [st |-> [st EXCEPT !.data[k] = None], ok |-> TRUE]

\* Store.Delete: no expiry check; an expired key still counts.
DeleteCall(st, k) ==
    IF st.data[k] = None THEN [st |-> st, ok |-> FALSE]
    ELSE [st |-> Gone(st, k), ok |-> TRUE]

----------------------------------------------------------------------------
(* The commands, each one atomic step.                                     *)

State == [data |-> data, expires |-> expires]
Becomes(st) == data' = st.data /\ expires' = st.expires
Answer(c, r) == reply' = [reply EXCEPT ![c] = r]

\* SetCommand: mode "plain" calls Set or SetWithExpiry; "nx" and "xx" call
\* SetNX or SetXX and, when that succeeded and EX was given, SetWithExpiry.
SetCmd(c, k, v, mode, ex) ==
    IF mode = "plain"
    THEN Becomes(IF ex THEN SetExCall(State, k, v) ELSE SetCall(State, k, v)) /\ Answer(c, OkReply)
    ELSE LET r == IF mode = "nx" THEN SetNXCall(State, k, v) ELSE SetXXCall(State, k, v)
         IN  IF ~r.ok THEN Becomes(r.st) /\ Answer(c, NullReply)
             ELSE Becomes(IF ex THEN SetExCall(r.st, k, v) ELSE r.st) /\ Answer(c, OkReply)

\* GetCommand.
GetCmd(c, k) ==
    LET g == GetCall(State, k)
    IN  Becomes(g.st) /\ Answer(c, IF g.val = None THEN NullReply ELSE BulkReply(g.val))

\* IncrCommand (d = 1) and DecrCommand (d = -1): Get, ParseInt, num += d,
\* Set of FormatInt(num); the reply is num.
IncrCmd(c, k, d) ==
    LET g == GetCall(State, k)
        num == IF g.val = None THEN 0 ELSE g.val
    IN  IF g.val = Str THEN Becomes(g.st) /\ Answer(c, ErrReply)
        ELSE Becomes(SetCall(g.st, k, Wrap(num + d))) /\ Answer(c, IntReply(Wrap(num + d)))

\* DelCommand with one key.
DelCmd(c, k) ==
    LET r == DeleteCall(State, k)
    IN  Becomes(r.st) /\ Answer(c, IntReply(IF r.ok THEN 1 ELSE 0))

\* Time passes a key's expiry.
Tick(k) ==
    /\ data[k] # None /\ expires[k] = "live"
    /\ expires' = [expires EXCEPT ![k] = "due"]
    /\ UNCHANGED <<data, reply>>

Init ==
    /\ data = [k \in Key |-> None]
    /\ expires = [k \in Key |-> "none"]
    /\ reply = [c \in Conn |-> NoReply]

Next ==
    \/ \E c \in Conn, k \in Key :
         \/ \E v \in Val, mode \in {"plain", "nx", "xx"}, ex \in BOOLEAN : SetCmd(c, k, v, mode, ex)
         \/ GetCmd(c, k)
         \/ \E d \in {1, -1} : IncrCmd(c, k, d)
         \/ DelCmd(c, k)
    \/ \E k \in Key : Tick(k)

Spec == Init /\ [][Next]_<<data, expires, reply>>

=============================================================================
