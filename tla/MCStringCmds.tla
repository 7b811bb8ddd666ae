---------------------------- MODULE MCStringCmds ----------------------------
EXTENDS StringCmds

\* A 2-bit integer: -2..1, so INCR of 1 wraps as int64 does at MaxInt64.
\* SET writes 1 or a non-integer string.
MCVal == {1, Str}
=============================================================================
