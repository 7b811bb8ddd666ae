-------------------------------- MODULE ZSet --------------------------------
(***************************************************************************)
(* The sorted set of store/zset.go: the skiplist with spans (skiplist,     *)
(* insert, delete, deleteNode, getRank, getRange) and the member->score    *)
(* dict beside it (ZSet.Add, Remove, Score, Card, Rank, Range), behind the *)
(* store calls ZAdd, ZRem, ZScore, ZCard, ZRank and ZRange of one key.     *)
(* Every store call runs under s.mu, so each is one atomic step.           *)
(*                                                                         *)
(* Nodes are ids; a node unlinked by deleteNode is garbage and its id is   *)
(* free for the next allocation.  The header is node 0, with score 0 and  *)
(* the empty member (the zero values Go gives it).                         *)
(***************************************************************************)
EXTENDS Integers, Sequences, SequencesExt, FiniteSets

CONSTANTS
    Member,     \* member strings as codes ordered as Go orders the strings;
                \* 0 is the empty string
    Score,      \* scores strconv.ParseFloat may return
    NaN,        \* the float64 NaN, which compares false with everything
    Index,      \* ZRANGE start and stop arguments
    Null,       \* the null bulk reply
    MaxLevel,   \* skiplistMaxLevel (32 in the code)
    MaxNodes    \* nodes the heap may hold at once

ASSUME Member \subseteq Nat /\ MaxLevel \in 1..32 /\ MaxNodes \in Nat \ {0}

VARIABLES
    zsl,        \* the *skiplist: fwd, span, key, height of each node; level, length
    dict,       \* ZSet.dict: member -> score
    reply       \* the reply of the last command

vars == <<zsl, dict, reply>>

Header == 0
Nil == -1
Nodes == 1..MaxNodes
NodeIds == {Header} \cup Nodes
Levels == 0..(MaxLevel - 1)

\* Go's float64 < and ==: false whenever NaN is an operand.
FLt(a, b) == a # NaN /\ b # NaN /\ a < b
FEq(a, b) == a # NaN /\ b # NaN /\ a = b

\* newSkiplist: level 1, a header with every level empty.
NewSkiplist ==
    [fwd    |-> [x \in NodeIds |-> [i \in Levels |-> Nil]],
     span   |-> [x \in NodeIds |-> [i \in Levels |-> 0]],
     key    |-> [x \in NodeIds |-> [score |-> 0, member |-> 0]],
     height |-> [x \in NodeIds |-> IF x = Header THEN MaxLevel ELSE 0],
     level  |-> 1,
     length |-> 0]

Alloc(sl) == CHOOSE n \in Nodes : sl.height[n] = 0

----------------------------------------------------------------------------
(* Searches.  Each loop is a RECURSIVE operator; a result is passed to the *)
(* next step as an argument.                                               *)

\* The loops' test on the next node y: it sorts before (s, m); with le, it
\* may also be (s, m) itself (getRank's <=).
Before(sl, y, s, m, le) ==
    \/ FLt(sl.key[y].score, s)
    \/ FEq(sl.key[y].score, s) /\ (sl.key[y].member < m \/ (le /\ sl.key[y].member = m))

\* The inner for of insert, delete and getRank: advance along level i,
\* adding the spans crossed to r.
RECURSIVE Walk(_, _, _, _, _, _, _)
Walk(sl, x, r, i, s, m, le) ==
    IF sl.fwd[x][i] # Nil /\ Before(sl, sl.fwd[x][i], s, m, le)
    THEN Walk(sl, sl.fwd[x][i], r + sl.span[x][i], i, s, m, le)
    ELSE [x |-> x, r |-> r]

\* The outer for of insert and delete: update[i] and rank[i] from level-1
\* down to 0; rank[i] starts from rank[i+1].
RECURSIVE Search(_, _, _, _, _, _, _), Searched(_, _, _, _, _, _)
Search(sl, s, m, i, x, r, u) ==
    IF i < 0 THEN u ELSE Searched(sl, s, m, i, Walk(sl, x, r, i, s, m, FALSE), u)
Searched(sl, s, m, i, w, u) ==
    Search(sl, s, m, i - 1, w.x, w.r,
           [update |-> [u.update EXCEPT ![i] = w.x], rank |-> [u.rank EXCEPT ![i] = w.r]])

Path(sl, s, m) ==
    Search(sl, s, m, sl.level - 1, Header, 0,
           [update |-> [i \in Levels |-> Header], rank |-> [i \in Levels |-> 0]])

----------------------------------------------------------------------------
(* insert, with the level randomLevel drew and the node n it allocates.    *)

\* (mutant: levels above the new node's keep their span)
SpliceNoBump(sl, u, s, m, lvl, n) ==
    LET U(i) == IF i >= sl.level THEN Header ELSE u.update[i]
        R(i) == IF i >= sl.level THEN 0 ELSE u.rank[i]
        Old(i) == IF i >= sl.level THEN sl.length ELSE sl.span[U(i)][i]
    IN  [sl EXCEPT
           !.fwd = [x \in NodeIds |-> [i \in Levels |->
                      IF x = n THEN (IF i < lvl THEN sl.fwd[U(i)][i] ELSE Nil)
                      ELSE IF x = U(i) /\ i < lvl THEN n
                      ELSE sl.fwd[x][i]]],
           !.span = [x \in NodeIds |-> [i \in Levels |->
                      IF x = n THEN (IF i < lvl THEN Old(i) - (R(0) - R(i)) ELSE 0)
                      ELSE IF x = U(i) /\ i < lvl THEN R(0) - R(i) + 1
                      ELSE sl.span[x][i]]],
           !.key[n] = [score |-> s, member |-> m],
           !.height[n] = lvl,
           !.level = IF lvl > sl.level THEN lvl ELSE sl.level,
           !.length = @ + 1]

Splice(sl, u, s, m, lvl, n) ==
    LET U(i) == IF i >= sl.level THEN Header ELSE u.update[i]
        R(i) == IF i >= sl.level THEN 0 ELSE u.rank[i]
        \* update[i]'s span before the splice; sl.length on a new level
        Old(i) == IF i >= sl.level THEN sl.length ELSE sl.span[U(i)][i]
        top == IF lvl > sl.level THEN lvl ELSE sl.level
    IN  [sl EXCEPT
           !.fwd = [x \in NodeIds |-> [i \in Levels |->
                      IF x = n THEN (IF i < lvl THEN sl.fwd[U(i)][i] ELSE Nil)
                      ELSE IF x = U(i) /\ i < lvl THEN n
                      ELSE sl.fwd[x][i]]],
           !.span = [x \in NodeIds |-> [i \in Levels |->
                      IF x = n THEN (IF i < lvl THEN Old(i) - (R(0) - R(i)) ELSE 0)
                      ELSE IF x = U(i) /\ i < lvl THEN R(0) - R(i) + 1
                      ELSE IF x = U(i) /\ i < top THEN sl.span[x][i] + 1
                      ELSE sl.span[x][i]]],
           !.key[n] = [score |-> s, member |-> m],
           !.height[n] = lvl,
           !.level = top,
           !.length = @ + 1]

Insert(sl, s, m, lvl) == Splice(sl, Path(sl, s, m), s, m, lvl, Alloc(sl))

----------------------------------------------------------------------------
(* delete and deleteNode.                                                  *)

\* deleteNode's last loop: drop empty top levels.
RECURSIVE Shrink(_, _)
Shrink(h, l) == IF l > 1 /\ h[l - 1] = Nil THEN Shrink(h, l - 1) ELSE l

DeleteNode(sl, x, U) ==
    LET f == [y \in NodeIds |-> [i \in Levels |->
                IF y = x THEN Nil
                ELSE IF i < sl.level /\ y = U[i] /\ sl.fwd[y][i] = x THEN sl.fwd[x][i]
                ELSE sl.fwd[y][i]]]
    IN  [sl EXCEPT
           !.fwd = f,
           !.span = [y \in NodeIds |-> [i \in Levels |->
                      IF y = x THEN 0
                      ELSE IF i < sl.level /\ y = U[i]
                           THEN IF sl.fwd[y][i] = x THEN sl.span[y][i] + sl.span[x][i] - 1
                                ELSE sl.span[y][i] - 1
                      ELSE sl.span[y][i]]],
           !.height[x] = 0,
           !.level = Shrink(f[Header], sl.level),
           !.length = @ - 1]

\* delete: the node after update[0] goes only if it is (s, m).
Unlink(sl, u, s, m) ==
    IF /\ sl.fwd[u.update[0]][0] # Nil
       /\ FEq(sl.key[sl.fwd[u.update[0]][0]].score, s)
       /\ sl.key[sl.fwd[u.update[0]][0]].member = m
    THEN DeleteNode(sl, sl.fwd[u.update[0]][0], u.update)
    ELSE sl

Delete(sl, s, m) == Unlink(sl, Path(sl, s, m), s, m)

----------------------------------------------------------------------------
(* getRank and getRange.                                                   *)

\* getRank: 1-based rank, 0 when the walk never stops on (s, m).
RECURSIVE RankFrom(_, _, _, _, _, _), RankAt(_, _, _, _, _)
RankFrom(sl, s, m, i, x, r) ==
    IF i < 0 THEN 0 ELSE RankAt(sl, s, m, i, Walk(sl, x, r, i, s, m, TRUE))
RankAt(sl, s, m, i, w) ==
    IF sl.key[w.x].member = m /\ FEq(sl.key[w.x].score, s) THEN w.r
    ELSE RankFrom(sl, s, m, i - 1, w.x, w.r)
GetRank(sl, s, m) == RankFrom(sl, s, m, sl.level - 1, Header, 0)

\* getRange's descent: the last node before rank start.
\* (mutant: the descent also crosses the node of rank start)
RECURSIVE SkipAtInclusive(_, _, _, _, _)
SkipAtInclusive(sl, x, t, i, start) ==
    IF sl.fwd[x][i] # Nil /\ t + sl.span[x][i] <= start
    THEN SkipAtInclusive(sl, sl.fwd[x][i], t + sl.span[x][i], i, start)
    ELSE [x |-> x, t |-> t]
RECURSIVE SkipAt(_, _, _, _, _)
SkipAt(sl, x, t, i, start) ==
    IF sl.fwd[x][i] # Nil /\ t + sl.span[x][i] < start
    THEN SkipAt(sl, sl.fwd[x][i], t + sl.span[x][i], i, start)
    ELSE [x |-> x, t |-> t]
RECURSIVE SkipTo(_, _, _, _, _), SkipDown(_, _, _, _)
SkipTo(sl, i, x, t, start) ==
    IF i < 0 THEN [x |-> x, t |-> t] ELSE SkipDown(sl, i, SkipAt(sl, x, t, i, start), start)
SkipDown(sl, i, w, start) == SkipTo(sl, i - 1, w.x, w.t, start)

\* getRange's collection along level 0 (ZSet.Range's member and score).
RECURSIVE Gather(_, _, _, _, _)
Gather(sl, x, t, stop, acc) ==
    IF t <= stop /\ x # Nil
    THEN Gather(sl, sl.fwd[x][0], t + 1, stop, Append(acc, <<sl.key[x].member, sl.key[x].score>>))
    ELSE acc
Collect(sl, w, stop) == Gather(sl, sl.fwd[w.x][0], w.t + 1, stop, <<>>)

GetRange(sl, start, stop) ==
    LET last == IF stop <= 0 \/ stop > sl.length THEN sl.length ELSE stop
    IN  IF start <= 0 \/ start > sl.length \/ start > last THEN <<>>
        ELSE Collect(sl, SkipTo(sl, sl.level - 1, Header, 0, start), last)

----------------------------------------------------------------------------
(* RESP replies: an integer, a bulk string (FormatFloat of a score) or an  *)
(* array (ZRANGE ... WITHSCORES: members and scores in turn).  A bulk     *)
(* holds the score itself: FormatFloat(f, 'f', -1) gives distinct finite   *)
(* scores distinct strings, so replies compare as the strings would.       *)

IntReply(n) == [int |-> n]
BulkReply(x) == [bulk |-> x]
ArrReply(xs) == [array |-> xs]

----------------------------------------------------------------------------
(* The store calls on one key.  The key exists while dict is not empty:    *)
(* ZAdd creates it with NewZSet, ZRem deletes it when Card reaches 0.      *)

\* (mutant: a new score for an existing member inserts without deleting)
ZAddNoDelete(s, m) ==
    /\ \E n \in Nodes : zsl.height[n] = 0
    /\ \E lvl \in 1..MaxLevel :
         IF m \in DOMAIN dict
         THEN /\ zsl' = IF FEq(dict[m], s) THEN zsl ELSE Insert(zsl, s, m, lvl)
              /\ dict' = [dict EXCEPT ![m] = s]
              /\ reply' = IntReply(0)
         ELSE /\ zsl' = Insert(zsl, s, m, lvl)
              /\ dict' = (m :> s) @@ dict
              /\ reply' = IntReply(1)

\* (mutant: the loop runs while level <= skiplistMaxLevel)
RandomLevelsPastMax == 1..(MaxLevel + 1)

\* randomLevel: any height from 1 to skiplistMaxLevel.
RandomLevels == 1..MaxLevel

\* ZSet.Add.  A new member takes a free node id (the heap bound, which never
\* binds when MaxNodes >= |Member|); an update's delete frees the id that
\* its insert then takes.
ZAdd(s, m) ==
    \E lvl \in RandomLevels :
         IF m \in DOMAIN dict
         THEN /\ zsl' = IF FEq(dict[m], s) THEN zsl
                        ELSE Insert(Delete(zsl, dict[m], m), s, m, lvl)
              /\ dict' = [dict EXCEPT ![m] = s]
              /\ reply' = IntReply(0)
         ELSE /\ \E n \in Nodes : zsl.height[n] = 0
              /\ zsl' = Insert(zsl, s, m, lvl)
              /\ dict' = (m :> s) @@ dict
              /\ reply' = IntReply(1)

\* (mutant: an absent member is counted as removed)
ZRemCountsAbsent(m) ==
    IF m \notin DOMAIN dict THEN reply' = IntReply(1) /\ UNCHANGED <<zsl, dict>>
    ELSE /\ dict' = [x \in DOMAIN dict \ {m} |-> dict[x]]
         /\ zsl' = IF DOMAIN dict = {m} THEN NewSkiplist ELSE Delete(zsl, dict[m], m)
         /\ reply' = IntReply(1)

ZRem(m) ==
    IF m \notin DOMAIN dict THEN reply' = IntReply(0) /\ UNCHANGED <<zsl, dict>>
    ELSE /\ dict' = [x \in DOMAIN dict \ {m} |-> dict[x]]
         /\ zsl' = IF DOMAIN dict = {m} THEN NewSkiplist ELSE Delete(zsl, dict[m], m)
         /\ reply' = IntReply(1)

\* The read-only calls, under s.mu.RLock: their replies in the current state.
ZScoreReply(m) == IF m \in DOMAIN dict THEN BulkReply(dict[m]) ELSE Null

ZCardReply == IntReply(Cardinality(DOMAIN dict))

\* ZSet.Rank: a skiplist rank of 0 is "absent"; else 0-based.
RankOfReply(r) == IF r = 0 THEN Null ELSE IntReply(r - 1)
ZRankReply(m) == IF m \in DOMAIN dict THEN RankOfReply(GetRank(zsl, dict[m], m)) ELSE Null

\* ZSet.Range(start, stop) is getRange(start+1, stop+1); no key, no items.
ZRangeReply(a, b) == ArrReply(IF DOMAIN dict = {} THEN <<>> ELSE GetRange(zsl, a + 1, b + 1))

Init == zsl = NewSkiplist /\ dict = [m \in {} |-> 0] /\ reply = Null

Next ==
    \/ \E s \in Score, m \in Member : ZAdd(s, m)
    \/ \E m \in Member : ZRem(m)

Spec == Init /\ [][Next]_vars

----------------------------------------------------------------------------
(* Properties                                                              *)

\* The bottom level from the header: the node ids in list order.
RECURSIVE ChainFrom(_, _, _)
ChainFrom(sl, x, acc) ==
    IF sl.fwd[x][0] = Nil \/ Len(acc) >= MaxNodes THEN acc
    ELSE ChainFrom(sl, sl.fwd[x][0], Append(acc, sl.fwd[x][0]))
Chain(sl) == ChainFrom(sl, Header, <<>>)

\* The member -> score map the bottom level holds.
ChainMapOf(sl, c) ==
    [m \in {sl.key[c[j]].member : j \in DOMAIN c} |->
        sl.key[c[CHOOSE j \in DOMAIN c : sl.key[c[j]].member = m]].score]

TypeOK ==
    /\ zsl.level \in 1..MaxLevel
    /\ zsl.length \in 0..MaxNodes
    /\ \A x \in NodeIds : \A i \in Levels : zsl.fwd[x][i] \in Nodes \cup {Nil}
    /\ DOMAIN dict \subseteq Member
    /\ \A m \in DOMAIN dict : dict[m] \in Score \cup {NaN}

\* sorted-set-agreement (spec.md 8): a member is in dict exactly when one
\* node of the bottom level holds it, with dict's score; and the skiplist's
\* length (what ZRANGE clamps to) is dict's size (what ZCARD answers).
AgreementOf(sl, c) ==
    /\ \A m \in Member :
         Cardinality({j \in DOMAIN c : sl.key[c[j]].member = m}) = (IF m \in DOMAIN dict THEN 1 ELSE 0)
    /\ \A j \in DOMAIN c : sl.key[c[j]].member \in DOMAIN dict
                           /\ sl.key[c[j]].score = dict[sl.key[c[j]].member]
    /\ sl.length = Len(c) /\ Len(c) = Cardinality(DOMAIN dict)
SortedSetAgreement == AgreementOf(zsl, Chain(zsl))

\* The skiplist's shape after any sequence of ZADD and ZREM: the bottom
\* level is sorted by (score, member); every forward pointer at level i
\* goes to the next node of height above i and its span is the distance
\* between the two in the bottom level (spec.md 4.3: spans sum to ranks);
\* levels at or above sl.level are empty.  insert and deleteNode patch
\* spans level by level, with update[] and rank[] from the search.
ShapeOf(sl, c) ==
    LET pos(x) == IF x = Header THEN 0 ELSE CHOOSE j \in DOMAIN c : c[j] = x
        on == {Header} \cup {c[j] : j \in DOMAIN c}
        next(x, i) == LET later == {j \in DOMAIN c : j > pos(x) /\ sl.height[c[j]] > i}
                      IN  IF later = {} THEN Nil ELSE c[CHOOSE j \in later : \A k \in later : j <= k]
    IN  /\ \A j \in 1..(Len(c) - 1) :
             LET a == sl.key[c[j]] b == sl.key[c[j + 1]]
             IN  a.score < b.score \/ (a.score = b.score /\ a.member < b.member)
        /\ \A x \in on : \A i \in Levels :
             IF i < sl.level /\ (x = Header \/ i < sl.height[x])
             THEN /\ sl.fwd[x][i] = next(x, i)
                  /\ sl.fwd[x][i] # Nil => sl.span[x][i] = pos(sl.fwd[x][i]) - pos(x)
             ELSE sl.fwd[x][i] = Nil
        /\ sl.level = 1 \/ sl.fwd[Header][sl.level - 1] # Nil
SpansExact == ShapeOf(zsl, Chain(zsl))

\* The sorted set implements SortedSet: the bottom level, read as a map,
\* changes as ZADD and ZREM say, with their replies.
Abs == INSTANCE SortedSet WITH zs <- ChainMapOf(zsl, Chain(zsl))
RefinesSortedSet == Abs!Spec

\* In every state the read-only commands answer as the abstract sorted set
\* does: ZSCORE and ZCARD from dict, ZRANK through getRank's walk and
\* spans, and ZRANGE, for every start and stop, through getRange's descent
\* by spans and its walk along the bottom level.
RepliesMatch ==
    /\ \A m \in Member : ZScoreReply(m) = Abs!ScoreReply(m) /\ ZRankReply(m) = Abs!RankReply(m)
    /\ ZCardReply = Abs!CardReply
    /\ \A a, b \in Index : ZRangeReply(a, b) = Abs!RangeReply(a, b)

=============================================================================
