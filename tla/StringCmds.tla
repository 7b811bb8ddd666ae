----------------------------- MODULE StringCmds -----------------------------
(***************************************************************************)
(* The string command handlers of unnamed/part_006 as the server runs      *)
(* them: each store call takes s.mu on its own, so a handler that makes    *)
(* two calls (INCR and DECR: Get then Set; SET NX|XX EX: SetNX or SetXX,   *)
(* then SetWithExpiry) is two steps.  With a goroutine per connection      *)
(* (EventLoop FALSE) another connection's calls can run between them;      *)
(* under the gnet event loop a command runs to completion first.  The      *)
(* store calls themselves are AtomicStrings' operators.                    *)
(***************************************************************************)
EXTENDS Integers

CONSTANTS
    Conn, Key, Val, Width, Str, None,
    EventLoop,  \* TRUE: gnet event loop; FALSE: goroutine per connection
    MaxOps      \* bound on the commands of a behaviour

VARIABLES
    data, expires, reply,   \* as in AtomicStrings
    pc,         \* connection -> "idle" | "incr" (Set pending) | "expire" (SetWithExpiry pending)
    cmd,        \* connection -> the command between its two calls
    seen,       \* connection -> num as INCR/DECR parsed it
    ops         \* commands started

vars == <<data, expires, reply, pc, cmd, seen, ops>>

S == INSTANCE AtomicStrings

NoCmd == [key |-> CHOOSE k \in Key : TRUE, val |-> None, d |-> 0]

\* Under the event loop a connection starts a command only when no other
\* connection is inside one.
Scheduled(c) == EventLoop => \A o \in Conn \ {c} : pc[o] = "idle"

Begin(c) ==
    /\ pc[c] = "idle" /\ Scheduled(c)
    /\ ops < MaxOps /\ ops' = ops + 1

Done == UNCHANGED <<pc, cmd, seen>>

\* SetCommand without NX or XX: one call, Set or SetWithExpiry.
SetPlain(c, k, v, ex) ==
    /\ Begin(c)
    /\ S!Becomes(IF ex THEN S!SetExCall(S!State, k, v) ELSE S!SetCall(S!State, k, v))
    /\ S!Answer(c, S!OkReply)
    /\ Done

\* SetCommand with NX or XX: SetNX or SetXX; null bulk when refused; with
\* EX the SetWithExpiry is a second call.
SetCond(c, k, v, mode, ex) ==
    /\ Begin(c)
    /\ LET r == IF mode = "nx" THEN S!SetNXCall(S!State, k, v) ELSE S!SetXXCall(S!State, k, v)
       IN  /\ S!Becomes(r.st)
           /\ IF r.ok /\ ex
              THEN /\ pc' = [pc EXCEPT ![c] = "expire"]
                   /\ cmd' = [cmd EXCEPT ![c] = [key |-> k, val |-> v, d |-> 0]]
                   /\ UNCHANGED <<reply, seen>>
              ELSE S!Answer(c, IF r.ok THEN S!OkReply ELSE S!NullReply) /\ Done

SetExpire(c) ==
    /\ pc[c] = "expire"
    /\ S!Becomes(S!SetExCall(S!State, cmd[c].key, cmd[c].val))
    /\ S!Answer(c, S!OkReply)
    /\ pc' = [pc EXCEPT ![c] = "idle"]
    /\ UNCHANGED <<cmd, seen, ops>>

\* GetCommand: one call.
Get(c, k) ==
    /\ Begin(c)
    /\ LET g == S!GetCall(S!State, k)
       IN  S!Becomes(g.st) /\ S!Answer(c, IF g.val = None THEN S!NullReply ELSE S!BulkReply(g.val))
    /\ Done

\* (mutant: an absent key is taken as its Get result, not as 0)
IncrGetNoAbsent(c, k, d) ==
    /\ Begin(c)
    /\ LET g == S!GetCall(S!State, k)
       IN  /\ S!Becomes(g.st)
           /\ IF g.val = Str
              THEN S!Answer(c, S!ErrReply) /\ Done
              ELSE /\ pc' = [pc EXCEPT ![c] = "incr"]
                   /\ cmd' = [cmd EXCEPT ![c] = [key |-> k, val |-> None, d |-> d]]
                   /\ seen' = [seen EXCEPT ![c] = g.val]
                   /\ UNCHANGED reply

\* IncrCommand / DecrCommand, first call: Get and ParseInt.
IncrGet(c, k, d) ==
    /\ Begin(c)
    /\ LET g == S!GetCall(S!State, k)
       IN  /\ S!Becomes(g.st)
           /\ IF g.val = Str
              THEN S!Answer(c, S!ErrReply) /\ Done
              ELSE /\ pc' = [pc EXCEPT ![c] = "incr"]
                   /\ cmd' = [cmd EXCEPT ![c] = [key |-> k, val |-> None, d |-> d]]
                   /\ seen' = [seen EXCEPT ![c] = IF g.val = None THEN 0 ELSE g.val]
                   /\ UNCHANGED reply

\* Second call: Set(key, FormatInt(num)); its error is ignored; reply num.
IncrSet(c) ==
    LET n == S!Wrap(seen[c] + cmd[c].d)
    IN  /\ pc[c] = "incr"
        /\ S!Becomes(S!SetCall(S!State, cmd[c].key, n))
        /\ S!Answer(c, S!IntReply(n))
        /\ pc' = [pc EXCEPT ![c] = "idle"]
        /\ UNCHANGED <<cmd, seen, ops>>

\* DelCommand with one key.
Del(c, k) ==
    /\ Begin(c)
    /\ LET r == S!DeleteCall(S!State, k)
       IN  S!Becomes(r.st) /\ S!Answer(c, S!IntReply(IF r.ok THEN 1 ELSE 0))
    /\ Done

Tick(k) == S!Tick(k) /\ UNCHANGED <<pc, cmd, seen, ops>>

Init ==
    /\ S!Init
    /\ pc = [c \in Conn |-> "idle"]
    /\ cmd = [c \in Conn |-> NoCmd]
    /\ seen = [c \in Conn |-> 0]
    /\ ops = 0

Next ==
    \/ \E c \in Conn, k \in Key :
         \/ \E v \in Val, ex \in BOOLEAN :
              \/ SetPlain(c, k, v, ex)
              \/ \E mode \in {"nx", "xx"} : SetCond(c, k, v, mode, ex)
         \/ Get(c, k)
         \/ \E d \in {1, -1} : IncrGet(c, k, d)
         \/ Del(c, k)
    \/ \E c \in Conn : SetExpire(c) \/ IncrSet(c)
    \/ \E k \in Key : Tick(k)

Spec == Init /\ [][Next]_vars

----------------------------------------------------------------------------
(* Properties.                                                             *)

TypeOK ==
    /\ data \in [Key -> S!IntVal \cup {Str, None}]
    /\ expires \in [Key -> {"none", "live", "due"}]
    /\ pc \in [Conn -> {"idle", "incr", "expire"}]
    /\ seen \in [Conn -> S!IntVal]
    /\ ops \in 0..MaxOps

\* expiry-consistency (spec.md 8): a key with an expiry holds an object.
\* Every path that deletes a key (Delete, isExpired) must drop its expiry,
\* and SetNX, which writes over a deleted expired key, must not inherit it.
ExpiryConsistency == \A k \in Key : expires[k] # "none" => data[k] # None

\* The refinement mapping completes the second call of a command that has
\* made its first: the value INCR will write, the expiry SET NX|XX EX will
\* set, and their replies.  A command takes effect at its first call.
Incr(k) == {c \in Conn : pc[c] = "incr" /\ cmd[c].key = k}
AbsData == [k \in Key |->
    IF Incr(k) # {} THEN LET c == CHOOSE o \in Incr(k) : TRUE IN S!Wrap(seen[c] + cmd[c].d)
    ELSE data[k]]
AbsExpires == [k \in Key |->
    IF \E c \in Conn : pc[c] = "expire" /\ cmd[c].key = k THEN "live" ELSE expires[k]]
AbsReply == [c \in Conn |->
    CASE pc[c] = "incr" -> S!IntReply(S!Wrap(seen[c] + cmd[c].d))
      [] pc[c] = "expire" -> S!OkReply
      [] OTHER -> reply[c]]

Abs == INSTANCE AtomicStrings WITH data <- AbsData, expires <- AbsExpires, reply <- AbsReply

\* Each string command is atomic: every behaviour of the handlers, with
\* their store calls as separate steps, is a behaviour in which each
\* command runs as one step.  No INCR loses another's increment and no SET
\* lands between a SET NX and its EX.  Under the event loop this holds by
\* construction; under the goroutine scheduler (server.go, the one main
\* starts) TLC finds it violated: a DEL between SET NX and its EX step
\* replies 1, and SetWithExpiry then recreates the key.
\* No run checks it (see README, "Not checked").
RefinesAtomicStrings == Abs!Spec

=============================================================================
