------------------------------ MODULE MCStream ------------------------------
(* TLC instances of Stream. *)
EXTENDS Stream

CONSTANTS con, pub
=============================================================================
