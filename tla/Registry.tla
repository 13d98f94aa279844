------------------------------ MODULE Registry ------------------------------
(***************************************************************************)
(* What the index promises of its publisher records: a lease registry.  A  *)
(* lease lives exactly Lease ticks past its last renewal, carries the key  *)
(* it was granted with for its whole life, and ends early only when it is  *)
(* withdrawn; a read shows the live leases and nothing else.  When and by  *)
(* which request expired records leave the store is not part of it.        *)
(***************************************************************************)
EXTENDS Integers, FiniteSets

CONSTANTS Ids, Infos, Lease

VARIABLES
    leases,    \* live leases: identifier -> [key, lastSeen, info]
    clock,
    granted,   \* leases granted so far; a lease's key is its number
    limited,   \* is the number of seats limited?
    seats,     \* total seats when it is
    reserved,  \* identifiers with a seat of their own
    answer     \* what the last step answered to a reader

seatVars == <<limited, seats, reserved>>
vars == <<leases, clock, granted, limited, seats, reserved, answer>>

NoAnswer == [about |-> {}, live |-> {}, info |-> {}]

\* id can be given a seat: reserved seats count as taken by everyone else.
SeatFor(id) ==
    limited => /\ Cardinality(DOMAIN leases \cup {id}) <= seats
               /\ id \notin reserved =>
                    Cardinality((DOMAIN leases \cup {id}) \ reserved)
                        + Cardinality(reserved) <= seats

With(id, r) ==
    [x \in DOMAIN leases \cup {id} |-> IF x = id THEN r ELSE leases[x]]

Init ==
    /\ DOMAIN leases = {}
    /\ clock = 0
    /\ granted = 0
    /\ limited = FALSE /\ seats = 0 /\ reserved = {}
    /\ answer = NoAnswer

\* Seats are assigned before the first lease.
Assign ==
    /\ DOMAIN leases = {}
    /\ limited' \in BOOLEAN /\ seats' \in Nat /\ reserved' \in SUBSET Ids
    /\ answer' = NoAnswer
    /\ UNCHANGED <<leases, clock, granted>>

Grant(id, info) ==
    /\ id \notin DOMAIN leases
    /\ SeatFor(id)
    /\ granted' = granted + 1
    /\ leases' = With(id, [key |-> granted + 1, lastSeen |-> clock,
                           info |-> info])
    /\ answer' = NoAnswer
    /\ UNCHANGED <<clock, seatVars>>

Renew(id, info) ==
    /\ id \in DOMAIN leases
    /\ leases' = With(id, [leases[id] EXCEPT !.lastSeen = clock,
                                             !.info = info])
    /\ answer' = NoAnswer
    /\ UNCHANGED <<clock, granted, seatVars>>

Withdraw(id) ==
    /\ id \in DOMAIN leases
    /\ leases' = [x \in DOMAIN leases \ {id} |-> leases[x]]
    /\ answer' = NoAnswer
    /\ UNCHANGED <<clock, granted, seatVars>>

\* Leases end with the passing of time, and only so.
Advance ==
    /\ clock' = clock + 1
    /\ leases' = [x \in {y \in DOMAIN leases :
                            clock + 1 - leases[y].lastSeen <= Lease}
                     |-> leases[x]]
    /\ answer' = NoAnswer
    /\ UNCHANGED <<granted, seatVars>>

\* A reader asks about one identifier and gets its announcement, or about
\* all of them and gets the live ones.
ReadOne(id) ==
    /\ answer' = IF id \in DOMAIN leases
                   THEN [about |-> {id}, live |-> {id},
                         info |-> {leases[id].info}]
                   ELSE [about |-> {id}, live |-> {}, info |-> {}]
    /\ UNCHANGED <<leases, clock, granted, seatVars>>

ReadAll ==
    /\ answer' = [about |-> Ids, live |-> DOMAIN leases, info |-> {}]
    /\ UNCHANGED <<leases, clock, granted, seatVars>>

\* Anything else the server answers.
Other ==
    /\ answer' = NoAnswer
    /\ UNCHANGED <<leases, clock, granted, seatVars>>

Next ==
    \/ Assign
    \/ \E id \in Ids, info \in Infos : Grant(id, info) \/ Renew(id, info)
    \/ \E id \in Ids : Withdraw(id) \/ ReadOne(id)
    \/ Advance
    \/ ReadAll
    \/ Other

Spec == Init /\ [][Next]_vars
=============================================================================
