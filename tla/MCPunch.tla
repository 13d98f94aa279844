------------------------------ MODULE MCPunch ------------------------------
(* Two calls of one consumer against one publisher.                         *)
EXTENDS Punch
=============================================================================
