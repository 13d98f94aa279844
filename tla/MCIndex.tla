------------------------------ MODULE MCIndex ------------------------------
(* TLC instances of Index. *)
EXTENDS Index

CONSTANTS a, b, p, q, i1, k1

\* One reservation, two, and a list that names an identifier twice.
MCVipLists == { << [id |-> a, pass |-> q] >>,
                << [id |-> a, pass |-> q], [id |-> b, pass |-> p] >>,
                << [id |-> a, pass |-> q], [id |-> a, pass |-> p] >> }
MCNoVips == {}
=============================================================================
