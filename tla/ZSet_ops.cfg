\* ZADD, ZREM, ZSCORE, ZCARD, ZRANK and ZRANGE on one key with three
\* members, scores 0 and 1, and skiplist levels 1 to 3.
CONSTANTS
    Member <- MCMember
    Score <- MCScore
    Index <- MCIndex
    NaN = NaN
    Null = Null
    MaxLevel = 3
    MaxNodes = 3
INIT Init
NEXT Next
INVARIANTS
    TypeOK
    SortedSetAgreement
    SpansExact
    RepliesMatch
PROPERTIES
    RefinesSortedSet
