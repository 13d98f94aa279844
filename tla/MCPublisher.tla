---------------------------- MODULE MCPublisher ----------------------------
(* TLC instances of Publisher. *)
EXTENDS Publisher

CONSTANTS p1, p2
=============================================================================
