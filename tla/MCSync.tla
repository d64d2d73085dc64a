-------------------------------- MODULE MCSync --------------------------------
EXTENDS Sync

\* Claude's history needs more files than the log has; of each, one line maps to two events.
MCSizes == [h \in Harnesses |-> IF h = Claude THEN <<2, 1, 2, 2, 2>> ELSE <<1, 2, 1>>]
MCLine  == [h \in Harnesses |-> IF h = Claude THEN <<1, 2, 2, 3, 4>> ELSE <<1, 2, 2>>]

\* The second Codex event grows by a byte when it is written.
MCCharged    == <<1, 1, 1>>
ExactCharged == MCSizes[Codex]
=============================================================================
