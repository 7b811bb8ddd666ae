----------------------------- MODULE SortedSet -----------------------------
(***************************************************************************)
(* What a sorted set promises (spec.md 4.3 and 8), with no skiplist: a     *)
(* map from member to score, ordered by score and then by member, and the  *)
(* reply of the last ZADD or ZREM; ZSCORE, ZCARD, ZRANK and ZRANGE reply   *)
(* from zs and change nothing.                                            *)
(* ZSet.tla implements it; its refinement mapping reads zs off the         *)
(* skiplist's bottom level.                                                *)
(***************************************************************************)
EXTENDS Integers, Sequences, SequencesExt, FiniteSets

CONSTANTS
    Member,     \* member strings, compared with < as Go compares strings
    Score,      \* scores that ZADD may give
    Index,      \* ZRANGE start and stop arguments
    Null        \* the null bulk reply

VARIABLES
    zs,         \* member -> score
    reply       \* the reply of the last command

\* Members in rank order: score ascending, then member ascending.
Order == SortSeq(SetToSeq(DOMAIN zs),
                 LAMBDA a, b : zs[a] < zs[b] \/ (zs[a] = zs[b] /\ a < b))

\* 0-based rank of m in Order.
RankOf(m) == CHOOSE j \in 0..(Len(Order) - 1) : Order[j + 1] = m

\* Range(start, stop) of spec.md 4.3, 1-based and inclusive: empty when
\* start <= 0, start > length or start > stop; stop past the length, or
\* not positive, reads to the end.
RangeOf(start, stop) ==
    LET n == Len(Order)
        last == IF stop <= 0 \/ stop > n THEN n ELSE stop
    IN  IF start <= 0 \/ start > n \/ start > last THEN <<>>
        ELSE [j \in 1..(last - start + 1) |-> <<Order[start + j - 1], zs[Order[start + j - 1]]>>]

\* RESP replies: an integer, a bulk string (a score) or an array.
IntReply(n) == [int |-> n]
BulkReply(x) == [bulk |-> x]
ArrReply(xs) == [array |-> xs]

Init == zs = [m \in {} |-> 0] /\ reply = Null

Add(s, m) ==
    /\ zs' = (m :> s) @@ zs
    /\ reply' = IntReply(IF m \in DOMAIN zs THEN 0 ELSE 1)

Rem(m) ==
    /\ zs' = [x \in DOMAIN zs \ {m} |-> zs[x]]
    /\ reply' = IntReply(IF m \in DOMAIN zs THEN 1 ELSE 0)

\* The replies of the read-only commands, which leave zs as it is.
ScoreReply(m) == IF m \in DOMAIN zs THEN BulkReply(zs[m]) ELSE Null
CardReply == IntReply(Cardinality(DOMAIN zs))
RankReply(m) == IF m \in DOMAIN zs THEN IntReply(RankOf(m)) ELSE Null
\* ZRANGE start stop is Range(start + 1, stop + 1).
RangeReply(a, b) == ArrReply(RangeOf(a + 1, b + 1))

Next ==
    \/ \E s \in Score, m \in Member : Add(s, m)
    \/ \E m \in Member : Rem(m)

Spec == Init /\ [][Next]_<<zs, reply>>

=============================================================================
