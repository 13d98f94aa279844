-------------------------------- MODULE Pipe --------------------------------
(***************************************************************************)
(* What the tunnel relies on for one direction of a session: bytes are     *)
(* handed over in order, each once, and the sending side reports that      *)
(* nothing waits only when the receiving side has handed over everything.  *)
(***************************************************************************)
EXTENDS Integers

VARIABLES
    sent,  \* bytes accepted from the sending application
    got,   \* bytes handed to the receiving application
    idle   \* the sending side reports that nothing waits

vars == <<sent, got, idle>>

Init == sent = 0 /\ got = 0 /\ idle = TRUE

Send ==
    /\ sent' \in {n \in Nat : n > sent}
    /\ idle' = FALSE
    /\ UNCHANGED got

HandOver ==
    /\ got' \in got + 1 .. sent
    /\ UNCHANGED <<sent, idle>>

Settle ==
    /\ got = sent /\ ~idle
    /\ idle' = TRUE
    /\ UNCHANGED <<sent, got>>

Next == Send \/ HandOver \/ Settle

Spec == Init /\ [][Next]_vars
=============================================================================
