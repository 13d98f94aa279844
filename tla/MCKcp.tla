------------------------------- MODULE MCKcp --------------------------------
(* TLC instances of Kcp. *)
EXTENDS Kcp

CONSTANTS con, pub
=============================================================================
