----------------------------- MODULE MCMemorySync -----------------------------
EXTENDS MemorySync

CONSTANTS a, b, r, p1, p2

\* Nothing, or a memory that another has superseded.
MCBefore == {[m \in Mems |-> Absent],
             [m \in Mems |-> IF m = a THEN b ELSE IF m = b THEN None ELSE Absent]}
=============================================================================
