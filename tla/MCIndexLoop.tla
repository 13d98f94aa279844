---------------------------- MODULE MCIndexLoop ----------------------------
(* TLC instances of IndexLoop. *)
EXTENDS IndexLoop, TLC

CONSTANTS c1, c2, c3

\* Only for the runs that check invariants.
ClientSymmetry == Permutations(Clients)
=============================================================================
