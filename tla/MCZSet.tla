------------------------------- MODULE MCZSet -------------------------------
EXTENDS ZSet

\* Members "", "a", "b", "c" by their byte codes.
MCMember == {97, 98, 99}
MCMemberEmpty == {0, 97, 98}
MCScore == {0, 1}
\* "nan" parses to NaN.
MCScoreNaN == {1, NaN}
MCIndex == {-2, -1, 0, 1, 3}
=============================================================================
