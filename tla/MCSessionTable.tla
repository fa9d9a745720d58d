--------------------------- MODULE MCSessionTable ---------------------------
(***************************************************************************)
(* Instances of SessionTable for TLC.                                      *)
(***************************************************************************)
EXTENDS SessionTable, TLC

CONSTANTS t1, t2, n1

\* The threads are alike.
Alike == Permutations(Threads)
=============================================================================
