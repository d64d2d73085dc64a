----------------------------- MODULE MCForwarder -----------------------------
(* Forwarder for TLC: inodes are interchangeable, and the ways to start it   *)
(* other than as the service.                                              *)
EXTENDS Forwarder, TLC

InodeSymmetry == Permutations(Inodes)

Start1(m, b) == [mode |-> m, backfill |-> b]
AllStarts == {Start1("once", FALSE), Start1("prime", FALSE), Start1("service", TRUE), Start1("once", TRUE)}
=============================================================================
