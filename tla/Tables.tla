------------------------------- MODULE Tables -------------------------------
(***************************************************************************)
(* The loops that edit an array in place while they walk it.               *)
(*                                                                         *)
(* Of the index: redp2p_evict_stale (backwards, closing the gap with       *)
(* memmove) and the two walks over the pending calls (forwards, moving the *)
(* last entry into the gap).  Module Index treats the arrays as sets and   *)
(* changes them in one step; this module checks that the loops do exactly  *)
(* that.  An entry is its identity and whether the loop's test hits it:    *)
(* expired for the two evictions, addressed to the poller for take_all.    *)
(*                                                                         *)
(* Of the peers: redp2p_normalize_candidates, which ranks the candidates,  *)
(* removes duplicate endpoints and sorts.  A candidate is the text of its  *)
(* address, its port and its priority, which tells family and type; one    *)
(* address has several texts.  Indices start at 1.                         *)
(***************************************************************************)
EXTENDS Integers, Sequences, FiniteSetsExt

CONSTANTS
    MaxLen,    \* bound: entries in the index's arrays
    MaxCands,  \* bound: candidates in the array that is normalised
    Texts, Ports, Priorities   \* of candidates, ordered as numbers

ASSUME TablesAssumption ==
    /\ MaxLen \in Nat /\ MaxCands \in Nat
    /\ \A S \in {Texts, Ports, Priorities} : S \subseteq Nat

VARIABLES
    loop,    \* which of the loops runs
    start,   \* the array before the loop
    table,   \* the array
    i,       \* the loop's index
    out      \* the calls take_all copied; the first n candidates

vars == <<loop, start, table, i, out>>

Loops == {"evict_stale", "pending_call_evict_stale", "pending_call_take_all",
          "normalize", "sort"}
Entry == [serial : 1 .. MaxLen, hit : BOOLEAN]
Candidate == [text : Texts, port : Ports, pri : Priorities]
Elements(s) == {s[k] : k \in DOMAIN s}

\* memmove of the tail over entry k, then n - 1.
MoveDown(s, k) == [j \in 1 .. Len(s) - 1 |-> IF j < k THEN s[j] ELSE s[j + 1]]

\* redp2p_pending_call_remove
PendingCallRemove(s, k) ==
    [j \in 1 .. Len(s) - 1 |-> IF j = k THEN s[Len(s)] ELSE s[j]]

\* Any array of entries, no two the same; any array of candidates.
Init ==
    /\ loop \in Loops \ {"sort"}
    /\ IF loop = "normalize"
         THEN \E n \in 0 .. MaxCands : start \in [1 .. n -> Candidate]
         ELSE \E n \in 0 .. MaxLen : \E hit \in [1 .. n -> BOOLEAN] :
                start = [k \in 1 .. n |-> [serial |-> k, hit |-> hit[k]]]
    /\ table = start
    /\ i = IF loop = "evict_stale" THEN Len(start) ELSE 1
    /\ out = << >>

\* Mutant: the gap is closed the way the pending calls close it.
EvictStaleSwaps ==
    /\ loop = "evict_stale" /\ i > 0
    /\ table' = IF table[i].hit THEN PendingCallRemove(table, i) ELSE table
    /\ i' = i - 1
    /\ UNCHANGED <<loop, start, out>>

\* One turn of redp2p_evict_stale.
EvictStale ==
    /\ loop = "evict_stale" /\ i > 0
    /\ table' = IF table[i].hit THEN MoveDown(table, i) ELSE table
    /\ i' = i - 1
    /\ UNCHANGED <<loop, start, out>>

\* Mutant: the index advances past the entry that was moved into the gap.
EvictCallsAdvances ==
    /\ loop = "pending_call_evict_stale" /\ i <= Len(table)
    /\ table' = IF table[i].hit THEN PendingCallRemove(table, i) ELSE table
    /\ i' = i + 1
    /\ UNCHANGED <<loop, start, out>>

\* One turn of redp2p_pending_call_evict_stale.
EvictCalls ==
    /\ loop = "pending_call_evict_stale" /\ i <= Len(table)
    /\ IF table[i].hit
         THEN table' = PendingCallRemove(table, i) /\ UNCHANGED i
         ELSE i' = i + 1 /\ UNCHANGED table
    /\ UNCHANGED <<loop, start, out>>

\* One turn of redp2p_pending_call_take_all.
TakeAll ==
    /\ loop = "pending_call_take_all" /\ i <= Len(table)
    /\ IF table[i].hit
         THEN /\ out' = Append(out, table[i])
              /\ table' = PendingCallRemove(table, i)
              /\ UNCHANGED i
         ELSE i' = i + 1 /\ UNCHANGED <<table, out>>
    /\ UNCHANGED <<loop, start>>

-----------------------------------------------------------------------------
\* The address a text denotes: two addresses, whose texts interleave.
AddressOf(text) == text % 2

\* redp2p_candidate_same_endpoint: addresses are compared, not their texts.
SameEndpoint(a, b) == a.port = b.port /\ AddressOf(a.text) = AddressOf(b.text)

\* redp2p_candidate_compare: by priority, then by the text, then by the port.
Before(a, b) ==
    \/ a.pri < b.pri
    \/ a.pri = b.pri /\ a.text < b.text
    \/ a.pri = b.pri /\ a.text = b.text /\ a.port < b.port

\* Mutant: the candidate met first stays although a later one ranks before it.
BetterOfFirst(old, new) == old

\* Of two candidates for one endpoint the one that ranks before the other.
BetterOf(old, new) == IF Before(new, old) THEN new ELSE old

\* Mutant: the index moves on only when a candidate is appended.
DeduplicateStays ==
    /\ loop = "normalize" /\ i <= Len(table)
    /\ IF \E j \in DOMAIN out : SameEndpoint(out[j], table[i])
         THEN UNCHANGED <<out, i>>
         ELSE out' = Append(out, table[i]) /\ i' = i + 1
    /\ UNCHANGED <<loop, start, table>>

\* One turn of the first loop of redp2p_normalize_candidates.
Deduplicate ==
    /\ loop = "normalize" /\ i <= Len(table)
    /\ LET same == {j \in DOMAIN out : SameEndpoint(out[j], table[i])}
       IN  out' = IF same = {}
                    THEN Append(out, table[i])
                    ELSE [out EXCEPT ![Min(same)] = BetterOf(@, table[i])]
    /\ i' = i + 1
    /\ UNCHANGED <<loop, start, table>>

StartSort ==
    /\ loop = "normalize" /\ i = Len(table) + 1
    /\ loop' = "sort"
    /\ i' = 2
    /\ UNCHANGED <<start, table, out>>

\* Where the insertion sort puts entry k of s: to the right of the nearest one
\* on its left that it does not rank before.
PlaceOf(s, k) == Max({0} \union {j \in 1 .. k - 1 : ~Before(s[k], s[j])}) + 1

\* One turn of the second loop: the entries from there on move one place up.
InsertSort ==
    /\ loop = "sort" /\ i <= Len(out)
    /\ LET p == PlaceOf(out, i)
       IN  out' = [j \in DOMAIN out |->
                     IF j < p \/ j > i THEN out[j]
                     ELSE IF j = p THEN out[i] ELSE out[j - 1]]
    /\ i' = i + 1
    /\ UNCHANGED <<loop, start, table>>

Next == EvictStale \/ EvictCalls \/ TakeAll \/ Deduplicate \/ StartSort \/ InsertSort

Spec == Init /\ [][Next]_vars /\ WF_vars(Next)

Done ==
    CASE loop = "evict_stale" -> i = 0
      [] loop = "normalize" -> FALSE
      [] loop = "sort" -> i > Len(out)
      [] OTHER -> i = Len(table) + 1

-----------------------------------------------------------------------------
Distinct(s) == \A j, k \in DOMAIN s : s[j] = s[k] => j = k

\* Types; the copy never outgrows the array it is taken from, which is what
\* lets the handler give it a buffer of REDP2P_MAX_PENDING_CALLS entries.
TypeOK ==
    /\ loop \in Loops
    /\ \A s \in {start, table, out} :
          s \in Seq(IF loop \in {"normalize", "sort"} THEN Candidate ELSE Entry)
    /\ loop \notin {"normalize", "sort"} => Len(table) + Len(out) <= Len(start)

\* evict_stale leaves exactly the records that are not expired, each once and
\* in their old order: a serial is a place in the array before the loop.
RecordsLeft ==
    (loop = "evict_stale" /\ Done) =>
        /\ Elements(table) = {e \in Elements(start) : ~e.hit}
        /\ \A j, k \in DOMAIN table :
              j < k => table[j].serial < table[k].serial

\* Neither walk over the pending calls loses or repeats one although the last
\* entry jumps into the place under the index: what is left is what the test
\* does not hit, and the copy is what it hits.
CallsSplit ==
    (loop \in {"pending_call_evict_stale", "pending_call_take_all"} /\ Done) =>
        /\ Distinct(table) /\ Distinct(out)
        /\ Elements(table) = {e \in Elements(start) : ~e.hit}
        /\ loop = "pending_call_take_all" =>
              Elements(out) = {e \in Elements(start) : e.hit}

\* redp2p_normalize_candidates returns, of every endpoint it was given, the
\* candidate that ranks first, once, and the list in ranking order: what a peer
\* is sent does not depend on the order in which candidates were gathered.
Ranked ==
    (loop = "sort" /\ Done) =>
        /\ Elements(out) = {c \in Elements(start) : \A d \in Elements(start) :
                                SameEndpoint(d, c) => ~Before(d, c)}
        /\ \A j \in 1 .. Len(out) - 1 : Before(out[j], out[j + 1])

\* Every loop ends: the walks forwards shrink the array or move on.
Terminates == <>Done
=============================================================================
