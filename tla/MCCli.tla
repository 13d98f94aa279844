------------------------------- MODULE MCCli -------------------------------
(* One program, one service.                                                *)
EXTENDS Cli
=============================================================================
