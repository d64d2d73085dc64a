---------------------------- MODULE MCCredentials ----------------------------
EXTENDS Credentials, TLC

CONSTANTS p1, p2, a

TheIssuer == [p \in Procs |-> a]
Symmetry  == Permutations(Procs)
=============================================================================
