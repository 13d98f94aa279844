---------------------------- MODULE TablesProofs ----------------------------
(***************************************************************************)
(* The array loops, for arrays of any length and any candidates: each loop *)
(* invariant says what the walk has settled so far, on its side of the     *)
(* index, and that nothing was lost or repeated on the way.                *)
(***************************************************************************)
EXTENDS Tables, WellFoundedInduction, TLAPS

USE TablesAssumption

CallLoops == {"pending_call_evict_stale", "pending_call_take_all"}

Increasing(s) ==
    \A j, k \in DOMAIN s : j < k => s[j].serial < s[k].serial

(* Backwards: below the index nothing moved, above it the expired ones are *)
(* gone.                                                                   *)
EvictInv ==
    /\ start \in Seq(Entry) /\ table \in Seq(Entry)
    /\ \A k \in 1 .. Len(start) : start[k].serial = k
    /\ i \in 0 .. Len(table) /\ i <= Len(start)
    /\ Increasing(table)
    /\ \A j \in 1 .. i : table[j] = start[j]
    /\ Elements(table) = {e \in Elements(start) : e.hit => e.serial <= i}

(* Forwards: below the index nothing is hit; every entry is in the array,  *)
(* or was hit and is in the copy when there is one.                        *)
CallInv ==
    /\ start \in Seq(Entry) /\ table \in Seq(Entry) /\ out \in Seq(Entry)
    /\ i \in 1 .. Len(table) + 1
    /\ Distinct(table) /\ Distinct(out)
    /\ \A j \in 1 .. i - 1 : ~table[j].hit
    /\ \A e \in Elements(out) : e.hit
    /\ Elements(out) \cap Elements(table) = {}
    /\ Elements(table) \cup Elements(out) \subseteq Elements(start)
    /\ \A e \in Elements(start) : ~e.hit => e \in Elements(table)
    /\ loop = "pending_call_take_all" =>
          Elements(start) \subseteq Elements(table) \cup Elements(out)
    /\ loop = "pending_call_evict_stale" => out = << >>

OneEach(s) ==
    \A j, k \in DOMAIN s : SameEndpoint(s[j], s[k]) => j = k

(* Of the first m candidates, c is the first in rank for its endpoint.     *)
IsBest(s, m, c) ==
    /\ \E k \in 1 .. m : c = s[k]
    /\ \A k \in 1 .. m : SameEndpoint(s[k], c) => ~Before(s[k], c)

NormInv ==
    /\ start \in Seq(Candidate) /\ table = start /\ out \in Seq(Candidate)
    /\ i \in 1 .. Len(start) + 1
    /\ OneEach(out)
    /\ \A j \in 1 .. Len(out) : IsBest(start, i - 1, out[j])
    /\ \A k \in 1 .. i - 1 :
          \E j \in 1 .. Len(out) : SameEndpoint(out[j], start[k])

SortInv ==
    /\ start \in Seq(Candidate) /\ out \in Seq(Candidate)
    /\ i \in Nat /\ i >= 2 /\ (i <= Len(out) + 1 \/ i = 2)
    /\ Distinct(out)
    /\ \A c : c \in Elements(out) <=> IsBest(start, Len(start), c)
    /\ \A j, k \in 1 .. Len(out) : j < k /\ k < i => Before(out[j], out[k])

TablesIInv ==
    /\ loop \in Loops
    /\ loop = "evict_stale" => EvictInv
    /\ loop \in CallLoops => CallInv
    /\ loop = "normalize" => NormInv
    /\ loop = "sort" => SortInv

-----------------------------------------------------------------------------
(***************************************************************************)
(* Arrays.                                                                 *)
(***************************************************************************)

(* A function on 1 .. k is a sequence.                                     *)
LEMMA SeqOfFunction ==
    ASSUME NEW S, NEW k \in Nat, NEW d \in [1 .. k -> S]
    PROVE  d \in Seq(S) /\ Len(d) = k /\ DOMAIN d = 1 .. k
  OBVIOUS

(* r is s without entry k: the entries below k stay, and no other is lost. *)
Cut(r, s, k, S) ==
    /\ r \in Seq(S) /\ Len(r) = Len(s) - 1
    /\ \A j \in 1 .. k - 1 : r[j] = s[j]
    /\ Elements(r) = Elements(s) \ {s[k]}

(* Entries at increasing serials are different.                            *)
LEMMA IncreasingDistinct ==
    ASSUME NEW s \in Seq(Entry), Increasing(s)
    PROVE  Distinct(s)
  <1>1. SUFFICES ASSUME NEW j \in DOMAIN s, NEW k \in DOMAIN s, s[j] = s[k],
                        j # k
                 PROVE  FALSE
    BY DEF Distinct
  <1>2. j \in Nat /\ k \in Nat /\ s[j].serial \in Nat /\ s[k].serial \in Nat
    <2>1. j \in Nat /\ k \in Nat /\ s[j] \in Entry /\ s[k] \in Entry
      BY <1>1
    <2>2. \A e \in Entry : e.serial \in Nat
      BY DEF Entry
    <2>3. QED
      BY <2>1, <2>2
  <1>3. j < k \/ k < j
    BY <1>1, <1>2
  <1>4. QED
    BY <1>1, <1>2, <1>3 DEF Increasing

(* memmove of the tail keeps everything but the entry, and the order.      *)
LEMMA MoveDownCuts ==
    ASSUME NEW s \in Seq(Entry), NEW k \in 1 .. Len(s), Increasing(s)
    PROVE  Cut(MoveDown(s, k), s, k, Entry) /\ Increasing(MoveDown(s, k))
  <1> PICK n \in Nat : n = Len(s)
    OBVIOUS
  <1>1. n - 1 \in Nat /\ k \in 1 .. n /\ DOMAIN s = 1 .. n
        /\ \A j \in 1 .. n : s[j] \in Entry
    OBVIOUS
  <1> PICK r : r = MoveDown(s, k)
    OBVIOUS
  <1>2. \A j \in 1 .. n - 1 : j \in 1 .. n /\ j + 1 \in 1 .. n
    BY <1>1
  <1>3. /\ r \in [1 .. n - 1 -> Entry]
        /\ \A j \in 1 .. n - 1 : r[j] = IF j < k THEN s[j] ELSE s[j + 1]
    BY <1>1, <1>2 DEF MoveDown
  <1>4. r \in Seq(Entry) /\ Len(r) = n - 1 /\ DOMAIN r = 1 .. n - 1
    BY <1>1, <1>3, SeqOfFunction
  <1>5. \A j \in 1 .. k - 1 : r[j] = s[j]
    BY <1>1, <1>3
  <1>6. ASSUME NEW a \in 1 .. n - 1, NEW b \in 1 .. n - 1, a < b
        PROVE  r[a].serial < r[b].serial
    <2>1. PICK c \in 1 .. n : r[a] = s[c] /\ c = IF a < k THEN a ELSE a + 1
      BY <1>2, <1>3
    <2>2. PICK d \in 1 .. n : r[b] = s[d] /\ d = IF b < k THEN b ELSE b + 1
      BY <1>2, <1>3
    <2>3. c < d
      BY <1>1, <1>6, <2>1, <2>2
    <2>4. QED
      BY <1>1, <2>1, <2>2, <2>3 DEF Increasing
  <1>7. \A a, b \in 1 .. n : s[a] = s[b] => a = b
    BY <1>1, IncreasingDistinct DEF Distinct
  <1>8. ASSUME NEW j \in 1 .. n - 1
        PROVE  r[j] # s[k] /\ \E m \in 1 .. n : s[m] = r[j]
    <2>1. PICK c \in 1 .. n : r[j] = s[c] /\ c # k
      BY <1>1, <1>2, <1>3
    <2>2. QED
      BY <1>1, <1>7, <2>1
  <1>9. ASSUME NEW m \in 1 .. n, m # k
        PROVE  \E j \in 1 .. n - 1 : r[j] = s[m]
    <2>1. CASE m < k
      <3>1. m \in 1 .. n - 1
        BY <1>1, <2>1
      <3>2. QED
        BY <1>3, <2>1, <3>1
    <2>2. CASE m > k
      <3>1. m - 1 \in 1 .. n - 1 /\ ~(m - 1 < k) /\ (m - 1) + 1 = m
        BY <1>1, <2>2
      <3>2. r[m - 1] = s[m]
        BY <1>3, <3>1
      <3>3. QED
        BY <3>1, <3>2
    <2>3. QED
      BY <1>1, <1>9, <2>1, <2>2
  <1>10. Elements(r) = Elements(s) \ {s[k]}
    <2>1. Elements(r) = {r[j] : j \in 1 .. n - 1}
      BY <1>4 DEF Elements
    <2>2. Elements(s) = {s[j] : j \in 1 .. n}
      BY <1>1 DEF Elements
    <2>3. ASSUME NEW e \in Elements(r)
          PROVE  e \in Elements(s) \ {s[k]}
      BY <1>8, <2>1, <2>2, <2>3
    <2>4. ASSUME NEW e \in Elements(s) \ {s[k]}
          PROVE  e \in Elements(r)
      <3>1. PICK m \in 1 .. n : e = s[m]
        BY <2>2, <2>4
      <3>2. m # k
        BY <2>4, <3>1
      <3>3. QED
        BY <1>9, <2>1, <3>1, <3>2
    <2>5. QED
      BY <2>3, <2>4
  <1>11. QED
    BY <1>4, <1>5, <1>6, <1>10 DEF Cut, Increasing

(* redp2p_pending_call_remove keeps everything but the entry.              *)
LEMMA RemoveCuts ==
    ASSUME NEW s \in Seq(Entry), NEW k \in 1 .. Len(s), Distinct(s)
    PROVE  /\ Cut(PendingCallRemove(s, k), s, k, Entry)
           /\ Distinct(PendingCallRemove(s, k))
  <1> PICK n \in Nat : n = Len(s)
    OBVIOUS
  <1>1. /\ n - 1 \in Nat /\ k \in 1 .. n /\ n \in 1 .. n /\ DOMAIN s = 1 .. n
        /\ \A j \in 1 .. n : s[j] \in Entry
    OBVIOUS
  <1> PICK r : r = PendingCallRemove(s, k)
    OBVIOUS
  <1>2. \A j \in 1 .. n - 1 : j \in 1 .. n /\ j # n
    BY <1>1
  <1>3. /\ r \in [1 .. n - 1 -> Entry]
        /\ \A j \in 1 .. n - 1 : r[j] = IF j = k THEN s[n] ELSE s[j]
    BY <1>1, <1>2 DEF PendingCallRemove
  <1>4. r \in Seq(Entry) /\ Len(r) = n - 1 /\ DOMAIN r = 1 .. n - 1
    BY <1>1, <1>3, SeqOfFunction
  <1>5. \A j \in 1 .. k - 1 : r[j] = s[j]
    BY <1>1, <1>3
  <1>6. \A a, b \in 1 .. n : s[a] = s[b] => a = b
    BY <1>1 DEF Distinct
  <1>7. \A a, b \in 1 .. n - 1 : r[a] = r[b] => a = b
    BY SMTT(30), <1>1, <1>2, <1>3, <1>6
  <1>8. ASSUME NEW j \in 1 .. n - 1
        PROVE  r[j] # s[k] /\ \E m \in 1 .. n : s[m] = r[j]
    BY <1>1, <1>2, <1>3, <1>6
  <1>9. ASSUME NEW m \in 1 .. n, m # k
        PROVE  \E j \in 1 .. n - 1 : r[j] = s[m]
    <2>1. CASE m = n
      <3>1. k \in 1 .. n - 1
        BY <1>1, <1>9, <2>1
      <3>2. QED
        BY <1>3, <2>1, <3>1
    <2>2. CASE m # n
      <3>1. m \in 1 .. n - 1
        BY <1>1, <2>2
      <3>2. QED
        BY <1>3, <1>9, <3>1
    <2>3. QED
      BY <2>1, <2>2
  <1>10. Elements(r) = Elements(s) \ {s[k]}
    <2>1. Elements(r) = {r[j] : j \in 1 .. n - 1}
      BY <1>4 DEF Elements
    <2>2. Elements(s) = {s[j] : j \in 1 .. n}
      BY <1>1 DEF Elements
    <2>3. ASSUME NEW e \in Elements(r)
          PROVE  e \in Elements(s) \ {s[k]}
      BY <1>8, <2>1, <2>2, <2>3
    <2>4. ASSUME NEW e \in Elements(s) \ {s[k]}
          PROVE  e \in Elements(r)
      <3>1. PICK m \in 1 .. n : e = s[m]
        BY <2>2, <2>4
      <3>2. m # k
        BY <2>4, <3>1
      <3>3. QED
        BY <1>9, <2>1, <3>1, <3>2
    <2>5. QED
      BY <2>3, <2>4
  <1>11. QED
    BY <1>4, <1>5, <1>7, <1>10 DEF Cut, Distinct

(* An entry written after the last one.                                    *)
LEMMA AppendAdds ==
    ASSUME NEW S, NEW s \in Seq(S), NEW e \in S
    PROVE  /\ Append(s, e) \in Seq(S) /\ Len(Append(s, e)) = Len(s) + 1
           /\ DOMAIN Append(s, e) = 1 .. Len(s) + 1
           /\ Append(s, e)[Len(s) + 1] = e
           /\ \A j \in 1 .. Len(s) : Append(s, e)[j] = s[j]
           /\ Elements(Append(s, e)) = Elements(s) \cup {e}
           /\ Distinct(s) /\ e \notin Elements(s) => Distinct(Append(s, e))
  <1> PICK n \in Nat : n = Len(s)
    OBVIOUS
  <1> PICK r : r = Append(s, e)
    OBVIOUS
  <1>1. /\ r \in Seq(S) /\ Len(r) = n + 1 /\ DOMAIN r = 1 .. n + 1
        /\ DOMAIN s = 1 .. n
    OBVIOUS
  <1>2. r[n + 1] = e /\ \A j \in 1 .. n : r[j] = s[j]
    OBVIOUS
  <1>3. /\ \A j \in 1 .. n + 1 : j \in 1 .. n \/ j = n + 1
        /\ \A j \in 1 .. n : j \in 1 .. n + 1
        /\ n + 1 \in 1 .. n + 1
    OBVIOUS
  <1>4. Elements(r) = Elements(s) \cup {e}
    BY <1>1, <1>2, <1>3 DEF Elements
  <1>5. ASSUME Distinct(s), e \notin Elements(s)
        PROVE  Distinct(r)
    BY <1>1, <1>2, <1>3, <1>5 DEF Distinct, Elements
  <1>6. QED
    BY <1>1, <1>2, <1>4, <1>5

-----------------------------------------------------------------------------
(***************************************************************************)
(* The evictions and take_all.                                             *)
(***************************************************************************)

(* One turn of redp2p_evict_stale.                                         *)
LEMMA EvictStep ==
    ASSUME EvictInv, EvictStale
    PROVE  EvictInv'
  <1>1. /\ i \in 1 .. Len(table) /\ i \in 1 .. Len(start) /\ i' = i - 1
        /\ start' = start /\ Len(table) \in Nat /\ Len(start) \in Nat
    BY DEF EvictInv, EvictStale
  <1>2. table[i] = start[i] /\ start[i].serial = i /\ start[i] \in Entry
    BY <1>1 DEF EvictInv
  <1>3. \A e \in Elements(start) : e.serial \in Nat /\ e.hit \in BOOLEAN
    <2>1. \A e \in Entry : e.serial \in Nat /\ e.hit \in BOOLEAN
      BY DEF Entry
    <2>2. Elements(start) \subseteq Entry
      BY DEF EvictInv, Elements
    <2>3. QED
      BY <2>1, <2>2
  <1>4. \A e \in Elements(start) : e.serial = i => e = start[i]
    <2>1. \A k \in 1 .. Len(start) : start[k].serial = k
      BY DEF EvictInv
    <2>2. DOMAIN start = 1 .. Len(start)
      BY DEF EvictInv
    <2>3. QED
      BY <1>1, <2>1, <2>2 DEF Elements
  <1>5. start[i] \in Elements(start)
    BY <1>1 DEF EvictInv, Elements
  <1>6. CASE table[i].hit
    <2>1. table' = MoveDown(table, i)
      BY <1>6 DEF EvictStale
    <2>2. Cut(table', table, i, Entry) /\ Increasing(table')
      BY <1>1, <2>1, MoveDownCuts DEF EvictInv
    <2>3. /\ table' \in Seq(Entry) /\ Len(table') = Len(table) - 1
          /\ \A j \in 1 .. i - 1 : table'[j] = table[j]
          /\ Elements(table') = Elements(table) \ {start[i]}
      BY <1>2, <2>2 DEF Cut
    <2>4. \A j \in 1 .. i' : table'[j] = start[j]
      BY <1>1, <2>3 DEF EvictInv
    <2>5. ASSUME NEW e \in Elements(start)
          PROVE  (e.hit => e.serial <= i) /\ e # start[i]
                    <=> (e.hit => e.serial <= i - 1)
      BY <1>1, <1>2, <1>3, <1>4, <1>6
    <2>6. Elements(table') = {e \in Elements(start) : e.hit => e.serial <= i'}
      <3>1. Elements(table) = {e \in Elements(start) : e.hit => e.serial <= i}
        BY DEF EvictInv
      <3>2. QED
        BY <1>1, <2>3, <2>5, <3>1
    <2>7. i' \in 0 .. Len(table') /\ i' <= Len(start')
      BY <1>1, <2>3
    <2>8. QED
      BY <1>1, <2>2, <2>3, <2>4, <2>6, <2>7 DEF EvictInv
  <1>7. CASE ~table[i].hit
    <2>1. table' = table
      BY <1>7 DEF EvictStale
    <2>2. \A e \in Elements(start) :
             (e.hit => e.serial <= i) <=> (e.hit => e.serial <= i - 1)
      BY <1>1, <1>2, <1>3, <1>4, <1>7
    <2>3. Elements(table') = {e \in Elements(start) : e.hit => e.serial <= i'}
      <3>1. Elements(table) = {e \in Elements(start) : e.hit => e.serial <= i}
        BY DEF EvictInv
      <3>2. QED
        BY <1>1, <2>1, <2>2, <3>1
    <2>4. i' \in 0 .. Len(table') /\ i' <= Len(start')
      BY <1>1, <2>1
    <2>5. \A j \in 1 .. i' : table'[j] = start[j]
      BY <1>1, <2>1 DEF EvictInv
    <2>6. QED
      BY <1>1, <2>1, <2>3, <2>4, <2>5 DEF EvictInv
  <1>8. QED
    BY <1>6, <1>7

(* One turn of either walk over the pending calls.                         *)
LEMMA CallStep ==
    ASSUME CallInv, EvictCalls \/ TakeAll
    PROVE  CallInv'
  <1>1. /\ i \in 1 .. Len(table) /\ start' = start /\ loop' = loop
        /\ Len(table) \in Nat /\ table \in Seq(Entry)
    BY DEF CallInv, EvictCalls, TakeAll
  <1>2. table[i] \in Elements(table) /\ table[i] \in Entry
    BY <1>1 DEF Elements
  <1>3. CASE table[i].hit
    <2>1. table' = PendingCallRemove(table, i) /\ i' = i
      BY <1>3 DEF EvictCalls, TakeAll
    <2>2. Cut(table', table, i, Entry) /\ Distinct(table')
      BY <1>1, <2>1, RemoveCuts DEF CallInv
    <2>3. /\ table' \in Seq(Entry) /\ Len(table') = Len(table) - 1
          /\ \A j \in 1 .. i - 1 : table'[j] = table[j]
          /\ Elements(table') = Elements(table) \ {table[i]}
      BY <2>2 DEF Cut
    <2>4. i' \in 1 .. Len(table') + 1
      BY <1>1, <2>1, <2>3
    <2>5. \A j \in 1 .. i' - 1 : ~table'[j].hit
      BY <2>1, <2>3 DEF CallInv
    <2>6. \A e \in Elements(start') : ~e.hit => e \in Elements(table')
      BY <1>1, <1>3, <2>3 DEF CallInv
    <2>7. CASE out' = out /\ loop = "pending_call_evict_stale"
      BY <1>1, <2>2, <2>3, <2>4, <2>5, <2>6, <2>7 DEF CallInv
    <2>8. CASE out' = Append(out, table[i]) /\ loop = "pending_call_take_all"
      <3>1. table[i] \notin Elements(out) /\ out \in Seq(Entry)
            /\ Distinct(out)
        BY <1>2 DEF CallInv
      <3>2. /\ out' \in Seq(Entry) /\ Distinct(out')
            /\ Elements(out') = Elements(out) \cup {table[i]}
        BY <1>2, <2>8, <3>1, AppendAdds
      <3>3. /\ \A e \in Elements(out') : e.hit
            /\ Elements(out') \cap Elements(table') = {}
            /\ Elements(table') \cup Elements(out') \subseteq Elements(start')
            /\ Elements(start') \subseteq Elements(table') \cup Elements(out')
        BY <1>1, <1>2, <1>3, <2>3, <2>8, <3>2 DEF CallInv
      <3>4. QED
        BY <1>1, <2>2, <2>3, <2>4, <2>5, <2>6, <2>8, <3>2, <3>3 DEF CallInv
    <2>9. QED
      BY <1>3, <2>7, <2>8 DEF EvictCalls, TakeAll
  <1>4. CASE ~table[i].hit
    <2>1. table' = table /\ i' = i + 1 /\ out' = out
      BY <1>4 DEF EvictCalls, TakeAll
    <2>2. i' \in 1 .. Len(table') + 1
      BY <1>1, <2>1
    <2>3. \A j \in 1 .. i' - 1 : j \in 1 .. i - 1 \/ j = i
      BY <1>1, <2>1
    <2>4. \A j \in 1 .. i' - 1 : ~table'[j].hit
      BY <1>4, <2>1, <2>3 DEF CallInv
    <2>5. QED
      BY <1>1, <2>1, <2>2, <2>4 DEF CallInv
  <1>5. QED
    BY <1>3, <1>4

-----------------------------------------------------------------------------
(***************************************************************************)
(* redp2p_normalize_candidates.                                            *)
(***************************************************************************)

(* redp2p_candidate_compare is a strict total order.                       *)
LEMMA BeforeOrder ==
    ASSUME NEW a \in Candidate, NEW b \in Candidate
    PROVE  /\ ~Before(a, a)
           /\ Before(a, b) => ~Before(b, a)
           /\ a = b \/ Before(a, b) \/ Before(b, a)
           /\ \A c \in Candidate : Before(a, b) /\ Before(b, c) => Before(a, c)
  <1>1. \A c \in Candidate : c.pri \in Nat /\ c.text \in Nat /\ c.port \in Nat
    BY DEF Candidate
  <1>2. a.pri = b.pri /\ a.text = b.text /\ a.port = b.port => a = b
    BY DEF Candidate
  <1>3. ~Before(a, a)
    BY <1>1 DEF Before
  <1>4. Before(a, b) => ~Before(b, a)
    BY <1>1 DEF Before
  <1>5. a = b \/ Before(a, b) \/ Before(b, a)
    BY <1>1, <1>2 DEF Before
  <1>6. ASSUME NEW c \in Candidate, Before(a, b), Before(b, c)
        PROVE  Before(a, c)
    BY <1>1, <1>6 DEF Before
  <1>7. QED
    BY <1>3, <1>4, <1>5, <1>6

(* redp2p_candidate_same_endpoint is an equivalence.                       *)
LEMMA SameEndpointEquivalence ==
    ASSUME NEW a, NEW b, NEW c
    PROVE  /\ SameEndpoint(a, a)
           /\ SameEndpoint(a, b) => SameEndpoint(b, a)
           /\ SameEndpoint(a, b) /\ SameEndpoint(b, c) => SameEndpoint(a, c)
  BY DEF SameEndpoint

(* A candidate for an endpoint not met before.                             *)
LEMMA NewEndpoint ==
    ASSUME NormInv, i <= Len(table),
           \A j \in 1 .. Len(out) : ~SameEndpoint(out[j], start[i]),
           out' = Append(out, start[i]), i' = i + 1, start' = start,
           table' = table
    PROVE  NormInv'
  <1> PICK n \in Nat : n = Len(out)
    BY DEF NormInv
  <1> PICK c \in Candidate : c = start[i]
    BY DEF NormInv
  <1>1. /\ i \in 1 .. Len(start) /\ start \in Seq(Candidate)
        /\ out \in Seq(Candidate) /\ Len(start) \in Nat
    BY DEF NormInv
  <1>2. /\ out' \in Seq(Candidate) /\ Len(out') = n + 1
        /\ DOMAIN out' = 1 .. n + 1 /\ out'[n + 1] = c
        /\ \A j \in 1 .. n : out'[j] = out[j]
    BY <1>1, AppendAdds
  <1>3. /\ \A j \in 1 .. n + 1 : j \in 1 .. n \/ j = n + 1
        /\ \A j \in 1 .. n : j \in 1 .. n + 1
        /\ n + 1 \in 1 .. n + 1
    OBVIOUS
  <1>4. /\ \A k \in 1 .. i : k \in 1 .. i - 1 \/ k = i
        /\ \A k \in 1 .. i - 1 : k \in 1 .. i
        /\ i \in 1 .. i /\ i' - 1 = i /\ i' \in 1 .. Len(start') + 1
    BY <1>1
  <1>5. \A j \in 1 .. n : ~SameEndpoint(out[j], c) /\ ~SameEndpoint(c, out[j])
    BY SameEndpointEquivalence
  <1>6. OneEach(out')
    <2>1. \A j, k \in 1 .. n : SameEndpoint(out[j], out[k]) => j = k
      <3>1. DOMAIN out = 1 .. n /\ OneEach(out)
        BY DEF NormInv
      <3>2. QED
        BY <3>1 DEF OneEach
    <2>2. QED
      BY <1>2, <1>3, <1>5, <2>1 DEF OneEach
  <1>7. ASSUME NEW j \in 1 .. n
        PROVE  IsBest(start, i, out[j])
    <2>1. IsBest(start, i - 1, out[j])
      BY DEF NormInv
    <2>2. QED
      BY <1>4, <1>5, <2>1 DEF IsBest
  <1>8. IsBest(start, i, c)
    <2>1. ASSUME NEW k \in 1 .. i - 1
          PROVE  ~SameEndpoint(start[k], c)
      <3>1. PICK j \in 1 .. n : SameEndpoint(out[j], start[k])
        BY DEF NormInv
      <3>2. QED
        BY <1>5, <3>1, SameEndpointEquivalence
    <2>2. ~Before(c, c)
      BY BeforeOrder
    <2>3. QED
      BY <1>4, <2>1, <2>2 DEF IsBest
  <1>9. \A j \in 1 .. n + 1 : IsBest(start, i, out'[j])
    BY <1>2, <1>3, <1>7, <1>8
  <1>10. ASSUME NEW k \in 1 .. i
         PROVE  \E j \in 1 .. n + 1 : SameEndpoint(out'[j], start[k])
    <2>1. CASE k \in 1 .. i - 1
      <3>1. PICK j \in 1 .. n : SameEndpoint(out[j], start[k])
        BY <2>1 DEF NormInv
      <3>2. QED
        BY <1>2, <1>3, <3>1
    <2>2. CASE k = i
      BY <1>2, <1>3, <2>2, SameEndpointEquivalence
    <2>3. QED
      BY <1>4, <2>1, <2>2
  <1>11. \A j \in 1 .. Len(out') : IsBest(start', i' - 1, out'[j])
    BY <1>2, <1>4, <1>9
  <1>12. \A k \in 1 .. i' - 1 :
            \E j \in 1 .. Len(out') : SameEndpoint(out'[j], start'[k])
    BY <1>2, <1>4, <1>10
  <1>13. start' \in Seq(Candidate) /\ table' = start'
    BY <1>1 DEF NormInv
  <1>14. QED
    BY <1>2, <1>4, <1>6, <1>11, <1>12, <1>13 DEF NormInv

(* A candidate for an endpoint met before: the better of the two stays.    *)
LEMMA KnownEndpoint ==
    ASSUME NormInv, i <= Len(table), NEW m \in 1 .. Len(out),
           SameEndpoint(out[m], start[i]),
           out' = [out EXCEPT ![m] = BetterOf(out[m], start[i])],
           i' = i + 1, start' = start, table' = table
    PROVE  NormInv'
  <1> PICK n \in Nat : n = Len(out)
    BY DEF NormInv
  <1> PICK c \in Candidate : c = start[i]
    BY DEF NormInv
  <1> PICK o \in Candidate : o = out[m]
    BY DEF NormInv
  <1> PICK b \in Candidate : b = BetterOf(o, c)
    BY DEF BetterOf
  <1>1. /\ i \in 1 .. Len(start) /\ start \in Seq(Candidate)
        /\ out \in Seq(Candidate) /\ Len(start) \in Nat
    BY DEF NormInv
  <1>2. /\ out' \in Seq(Candidate) /\ Len(out') = n /\ DOMAIN out' = 1 .. n
        /\ out'[m] = b /\ \A j \in 1 .. n : j # m => out'[j] = out[j]
    BY <1>1
  <1>3. SameEndpoint(o, c) /\ SameEndpoint(c, o) /\ SameEndpoint(o, b)
        /\ SameEndpoint(b, o) /\ SameEndpoint(b, c) /\ SameEndpoint(c, b)
    BY SameEndpointEquivalence DEF BetterOf
  <1>4. /\ \A k \in 1 .. i : k \in 1 .. i - 1 \/ k = i
        /\ \A k \in 1 .. i - 1 : k \in 1 .. i
        /\ i \in 1 .. i /\ i' - 1 = i /\ i' \in 1 .. Len(start') + 1
    BY <1>1
  <1>5. \A j \in 1 .. n : SameEndpoint(out'[j], out[j])
                          /\ SameEndpoint(out[j], out'[j])
    BY <1>2, <1>3, SameEndpointEquivalence
  <1>6. \A j, k \in 1 .. n : SameEndpoint(out[j], out[k]) => j = k
    <2>1. DOMAIN out = 1 .. n /\ OneEach(out)
      BY DEF NormInv
    <2>2. QED
      BY <2>1 DEF OneEach
  <1>7. OneEach(out')
    <2>1. ASSUME NEW j \in 1 .. n, NEW k \in 1 .. n,
                 SameEndpoint(out'[j], out'[k])
          PROVE  j = k
      <3>1. SameEndpoint(out[j], out'[k])
        BY <1>5, <2>1, SameEndpointEquivalence
      <3>2. SameEndpoint(out[j], out[k])
        BY <1>5, <3>1, SameEndpointEquivalence
      <3>3. QED
        BY <1>6, <3>2
    <2>2. QED
      BY <1>2, <2>1 DEF OneEach
  <1>8. ASSUME NEW j \in 1 .. n, j # m
        PROVE  IsBest(start, i, out[j])
    <2>1. IsBest(start, i - 1, out[j])
      BY DEF NormInv
    <2>2. ~SameEndpoint(c, out[j])
      BY <1>3, <1>6, <1>8, SameEndpointEquivalence
    <2>3. QED
      BY <1>4, <2>1, <2>2 DEF IsBest
  <1>9. IsBest(start, i, b)
    <2>1. IsBest(start, i - 1, o)
      BY DEF NormInv
    <2>2. \E k \in 1 .. i : b = start[k]
      BY <1>4, <2>1 DEF IsBest, BetterOf
    <2>3. ~Before(c, b)
      BY BeforeOrder DEF BetterOf
    <2>4. ASSUME NEW k \in 1 .. i - 1, SameEndpoint(start[k], b)
          PROVE  ~Before(start[k], b)
      <3>1. start[k] \in Candidate
        BY <1>1
      <3>2. SameEndpoint(start[k], o)
        BY <1>3, <2>4, SameEndpointEquivalence
      <3>3. ~Before(start[k], o)
        BY <2>1, <3>2 DEF IsBest
      <3>4. b = o \/ Before(b, o)
        BY DEF BetterOf
      <3>5. QED
        BY <3>1, <3>3, <3>4, BeforeOrder
    <2>5. QED
      BY <1>4, <2>2, <2>3, <2>4 DEF IsBest
  <1>10. \A j \in 1 .. n : IsBest(start, i, out'[j])
    BY <1>2, <1>8, <1>9
  <1>11. ASSUME NEW k \in 1 .. i
         PROVE  \E j \in 1 .. n : SameEndpoint(out'[j], start[k])
    <2>1. CASE k \in 1 .. i - 1
      <3>1. PICK j \in 1 .. n : SameEndpoint(out[j], start[k])
        BY <2>1 DEF NormInv
      <3>2. QED
        BY <1>5, <3>1, SameEndpointEquivalence
    <2>2. CASE k = i
      BY <1>2, <1>3, <2>2
    <2>3. QED
      BY <1>4, <2>1, <2>2
  <1>12. \A j \in 1 .. Len(out') : IsBest(start', i' - 1, out'[j])
    BY <1>2, <1>4, <1>10
  <1>13. \A k \in 1 .. i' - 1 :
            \E j \in 1 .. Len(out') : SameEndpoint(out'[j], start'[k])
    BY <1>2, <1>4, <1>11
  <1>14. start' \in Seq(Candidate) /\ table' = start'
    BY <1>1 DEF NormInv
  <1>15. QED
    BY <1>2, <1>4, <1>7, <1>12, <1>13, <1>14 DEF NormInv

(* One turn of the first loop.                                             *)
LEMMA DeduplicateStep ==
    ASSUME NormInv, Deduplicate
    PROVE  NormInv'
  <1> PICK same : same = {j \in DOMAIN out : SameEndpoint(out[j], table[i])}
    OBVIOUS
  <1>1. /\ table = start /\ i <= Len(table) /\ i' = i + 1 /\ start' = start
        /\ table' = table /\ DOMAIN out = 1 .. Len(out)
    BY DEF NormInv, Deduplicate
  <1>2. CASE same = {}
    <2>1. out' = Append(out, start[i])
      BY <1>1, <1>2 DEF Deduplicate
    <2>2. \A j \in 1 .. Len(out) : ~SameEndpoint(out[j], start[i])
      BY <1>1, <1>2
    <2>3. QED
      BY <1>1, <2>1, <2>2, NewEndpoint
  <1>3. CASE same # {}
    <2>1. PICK m \in 1 .. Len(out) : SameEndpoint(out[m], start[i])
      BY <1>1, <1>3
    <2>2. \A j \in same : j = m
      <3>1. \A j \in same : SameEndpoint(out[j], out[m])
        BY <1>1, <2>1, SameEndpointEquivalence
      <3>2. QED
        BY <1>1, <2>1, <3>1 DEF NormInv, OneEach
    <2>3. Min(same) = m
      <3>1. m \in same /\ m <= m
        BY <1>1, <2>1
      <3>2. \A y \in same : m <= y
        BY <2>2, <3>1
      <3>3. Min(same) \in same
        BY <3>1, <3>2 DEF Min
      <3>4. QED
        BY <2>2, <3>3
    <2>4. out' = [out EXCEPT ![Min(same)] = BetterOf(@, table[i])]
      BY <1>3 DEF Deduplicate
    <2>5. out' = [out EXCEPT ![m] = BetterOf(out[m], start[i])]
      BY <1>1, <2>3, <2>4
    <2>6. QED
      BY <1>1, <2>1, <2>5, KnownEndpoint
  <1>4. QED
    BY <1>2, <1>3

(* Between the loops: out holds the best candidate of every endpoint.      *)
LEMMA StartSortStep ==
    ASSUME NormInv, StartSort
    PROVE  SortInv'
  <1>1. /\ i = Len(start) + 1 /\ i' = 2 /\ start' = start /\ out' = out
        /\ start \in Seq(Candidate) /\ out \in Seq(Candidate)
        /\ DOMAIN out = 1 .. Len(out) /\ Len(start) \in Nat
        /\ i - 1 = Len(start)
    BY DEF NormInv, StartSort
  <1>2. Distinct(out)
    BY SameEndpointEquivalence DEF NormInv, OneEach, Distinct
  <1>3. \A j \in 1 .. Len(out) : IsBest(start, Len(start), out[j])
    BY <1>1 DEF NormInv
  <1>4. ASSUME NEW c, IsBest(start, Len(start), c)
        PROVE  c \in Elements(out)
    <2>1. PICK k \in 1 .. Len(start) : c = start[k]
      BY <1>4 DEF IsBest
    <2>2. PICK j \in 1 .. Len(out) : SameEndpoint(out[j], c)
      BY <1>1, <2>1 DEF NormInv
    <2>3. c \in Candidate /\ out[j] \in Candidate
      BY <1>1, <2>1
    <2>4. ~Before(c, out[j])
      BY <1>3, <2>1, <2>2, SameEndpointEquivalence DEF IsBest
    <2>5. ~Before(out[j], c)
      <3>1. PICK m \in 1 .. Len(start) : out[j] = start[m]
        BY <1>3 DEF IsBest
      <3>2. QED
        BY <1>4, <2>2, <3>1 DEF IsBest
    <2>6. c = out[j]
      BY <2>3, <2>4, <2>5, BeforeOrder
    <2>7. QED
      BY <1>1, <2>6 DEF Elements
  <1>5. \A c : c \in Elements(out) <=> IsBest(start, Len(start), c)
    BY <1>1, <1>3, <1>4 DEF Elements
  <1>6. \A j, k \in 1 .. Len(out) : ~(j < k /\ k < 2)
    BY <1>1
  <1>7. QED
    BY <1>1, <1>2, <1>5, <1>6 DEF SortInv

(* The insertion sort finds a nearest entry.                               *)
LEMMA GreatestNumber ==
    ASSUME NEW b \in Nat, NEW S \in SUBSET (0 .. b), S # {}
    PROVE  Max(S) \in S /\ \A y \in S : y <= Max(S)
  <1> PICK T : T = {b - x : x \in S}
    OBVIOUS
  <1>1. T \in SUBSET Nat /\ T # {}
    <2>1. \A x \in S : x \in 0 .. b /\ b - x \in Nat
      OBVIOUS
    <2>2. QED
      BY <2>1
  <1>2. \E m \in T : \A j \in T : ~(<<j, m>> \in OpToRel(<, Nat))
    BY <1>1, NatLessThanWellFounded, WFMin, Zenon
  <1>3. PICK m \in T : \A j \in T : ~(<<j, m>> \in OpToRel(<, Nat))
    BY <1>2
  <1>4. \A j \in T : ~(j < m)
    BY <1>1, <1>3 DEF OpToRel
  <1>5. PICK x \in S : m = b - x
    OBVIOUS
  <1>6. ASSUME NEW y \in S PROVE x >= y
    <2>1. b - y \in T /\ x \in 0 .. b /\ y \in 0 .. b
      OBVIOUS
    <2>2. ~(b - y < b - x)
      BY <1>4, <1>5, <2>1
    <2>3. QED
      BY <2>1, <2>2
  <1>7. Max(S) \in S /\ \A y \in S : Max(S) >= y
    BY <1>6 DEF Max
  <1>8. QED
    BY <1>7

(* The place p of entry k among the sorted ones below it: entries below p  *)
(* rank before it, it ranks before the others.                             *)
PlaceFound(s, k, p) ==
    /\ p \in 1 .. k
    /\ \A j \in 1 .. p - 1 : Before(s[j], s[k])
    /\ \A j \in p .. k - 1 : Before(s[k], s[j])

(* The inner loop of the insertion sort.                                   *)
LEMMA PlaceOfFinds ==
    ASSUME NEW s \in Seq(Candidate), NEW k \in 2 .. Len(s), Distinct(s),
           \A a, b \in 1 .. Len(s) : a < b /\ b < k => Before(s[a], s[b])
    PROVE  PlaceFound(s, k, PlaceOf(s, k))
  <1> PICK n \in Nat : n = Len(s)
    OBVIOUS
  <1>1. /\ k \in 1 .. n /\ k \in Nat /\ k - 1 \in Nat
        /\ DOMAIN s = 1 .. n /\ \A j \in 1 .. n : s[j] \in Candidate
        /\ \A j \in 1 .. k - 1 : j \in 1 .. n /\ j # k
    OBVIOUS
  <1>2. PICK S : S = {0} \union {j \in 1 .. k - 1 : ~Before(s[k], s[j])}
    OBVIOUS
  <1>3. S \in SUBSET (0 .. k - 1) /\ S # {}
    BY <1>1, <1>2
  <1>4. Max(S) \in S /\ \A y \in S : y <= Max(S)
    BY <1>1, <1>3, GreatestNumber
  <1>5. PICK m \in 0 .. k - 1 : m = Max(S)
    BY <1>3, <1>4
  <1>6. PlaceOf(s, k) = m + 1
    BY <1>2, <1>5 DEF PlaceOf
  <1>7. m = 0 \/ (m \in 1 .. k - 1 /\ ~Before(s[k], s[m]))
    BY <1>2, <1>4, <1>5
  <1>8. ASSUME NEW j \in m + 1 .. k - 1
        PROVE  Before(s[k], s[j])
    <2>1. j \in 1 .. k - 1 /\ ~(j <= m)
      BY <1>5
    <2>2. j \notin S
      BY <1>4, <1>5, <2>1
    <2>3. QED
      BY <1>2, <2>1, <2>2
  <1>9. ASSUME NEW j \in 1 .. m
        PROVE  Before(s[j], s[k])
    <2>1. m \in 1 .. k - 1 /\ ~Before(s[k], s[m]) /\ m \in 1 .. n /\ m # k
      BY <1>1, <1>5, <1>7
    <2>2. s[m] # s[k]
      BY <1>1, <2>1 DEF Distinct
    <2>3. s[m] \in Candidate /\ s[k] \in Candidate
      BY <1>1, <2>1
    <2>4. Before(s[m], s[k])
      BY <2>1, <2>2, <2>3, BeforeOrder
    <2>5. CASE j = m
      BY <2>4, <2>5
    <2>6. CASE j # m
      <3>1. j < m /\ m < k /\ j \in 1 .. n
        BY <1>1, <2>1, <2>6
      <3>2. Before(s[j], s[m]) /\ s[j] \in Candidate
        BY <1>1, <2>1, <3>1
      <3>3. QED
        BY <2>3, <2>4, <3>2, BeforeOrder
    <2>7. QED
      BY <2>5, <2>6
  <1>10. PICK p : p = PlaceOf(s, k)
    OBVIOUS
  <1>11. p = m + 1 /\ p \in 1 .. k /\ p - 1 = m
    BY <1>1, <1>5, <1>6, <1>10
  <1>12. PlaceFound(s, k, p)
    BY <1>8, <1>9, <1>11 DEF PlaceFound
  <1>13. QED
    BY <1>10, <1>12

(* r is s with entry k moved down to place p.                              *)
Inserted(r, s, k, p) ==
    /\ r \in Seq(Candidate) /\ Len(r) = Len(s)
    /\ \A j \in 1 .. Len(s) :
          r[j] = IF j < p \/ j > k THEN s[j]
                 ELSE IF j = p THEN s[k] ELSE s[j - 1]

(* The insertion loses and repeats nothing.                                *)
LEMMA InsertKeeps ==
    ASSUME NEW s \in Seq(Candidate), NEW k \in 1 .. Len(s), NEW p \in 1 .. k,
           NEW r, Inserted(r, s, k, p), Distinct(s)
    PROVE  Distinct(r) /\ Elements(r) = Elements(s)
  <1> PICK n \in Nat : n = Len(s)
    OBVIOUS
  <1>1. /\ DOMAIN s = 1 .. n /\ DOMAIN r = 1 .. n
        /\ k \in 1 .. n /\ p \in 1 .. n /\ p <= k
    BY DEF Inserted
  <1> DEFINE From(j) == IF j < p \/ j > k THEN j ELSE IF j = p THEN k ELSE j - 1
             To(m) == IF m < p \/ m > k THEN m ELSE IF m = k THEN p ELSE m + 1
  <1>2. \A j \in 1 .. n : From(j) \in 1 .. n /\ To(j) \in 1 .. n
    BY <1>1
  <1>3. \A j \in 1 .. n : To(From(j)) = j /\ From(To(j)) = j
    BY <1>1
  <1>4. \A j \in 1 .. n : r[j] = s[From(j)]
    BY DEF Inserted
  <1> HIDE DEF From, To
  <1>5. \A a, b \in 1 .. n : s[a] = s[b] => a = b
    BY <1>1 DEF Distinct
  <1>6. \A a, b \in 1 .. n : r[a] = r[b] => a = b
    <2>1. ASSUME NEW a \in 1 .. n, NEW b \in 1 .. n, r[a] = r[b]
          PROVE  a = b
      <3>1. From(a) = From(b)
        BY <1>2, <1>4, <1>5, <2>1
      <3>2. QED
        BY <1>3, <3>1
    <2>2. QED
      BY <2>1
  <1>7. \A m \in 1 .. n : s[m] = r[To(m)]
    BY <1>2, <1>3, <1>4
  <1>8. Elements(r) = {r[j] : j \in 1 .. n} /\ Elements(s) = {s[j] : j \in 1 .. n}
    BY <1>1 DEF Elements
  <1>9. Elements(r) = Elements(s)
    <2>1. ASSUME NEW e \in Elements(r) PROVE e \in Elements(s)
      BY <1>2, <1>4, <1>8
    <2>2. ASSUME NEW e \in Elements(s) PROVE e \in Elements(r)
      BY <1>2, <1>7, <1>8
    <2>3. QED
      BY <2>1, <2>2
  <1>10. QED
    BY <1>1, <1>6, <1>9 DEF Distinct

(* The sorted part grows by one.                                           *)
LEMMA InsertSorts ==
    ASSUME NEW s \in Seq(Candidate), NEW k \in 2 .. Len(s), NEW p,
           PlaceFound(s, k, p), NEW r, Inserted(r, s, k, p),
           \A a, b \in 1 .. Len(s) : a < b /\ b < k => Before(s[a], s[b]),
           NEW a \in 1 .. Len(s), NEW b \in 1 .. Len(s), a < b, b <= k
    PROVE  Before(r[a], r[b])
  <1> PICK n \in Nat : n = Len(s)
    OBVIOUS
  <1>1. /\ p \in 1 .. k /\ k \in Nat
        /\ \A j \in 1 .. p - 1 : Before(s[j], s[k])
        /\ \A j \in p .. k - 1 : Before(s[k], s[j])
    BY DEF PlaceFound
  <1>2. \A j \in 1 .. n : r[j] = IF j < p \/ j > k THEN s[j]
                                 ELSE IF j = p THEN s[k] ELSE s[j - 1]
    BY DEF Inserted
  <1>3. \A x, y \in 1 .. n : x < y /\ y < k => Before(s[x], s[y])
    OBVIOUS
  <1>4. CASE b < p
    <2>1. r[a] = s[a] /\ r[b] = s[b] /\ b < k
      BY <1>1, <1>2, <1>4
    <2>2. QED
      BY <1>3, <2>1
  <1>5. CASE b = p
    <2>1. r[a] = s[a] /\ r[b] = s[k] /\ a \in 1 .. p - 1
      BY <1>1, <1>2, <1>5
    <2>2. QED
      BY <1>1, <2>1
  <1>6. CASE b > p
    <2>1. r[b] = s[b - 1] /\ b - 1 \in p .. k - 1 /\ b - 1 \in 1 .. n
          /\ b - 1 < k
      BY <1>1, <1>2, <1>6
    <2>2. CASE a < p
      <3>1. r[a] = s[a] /\ a < b - 1
        BY <1>1, <1>2, <1>6, <2>2
      <3>2. QED
        BY <1>3, <2>1, <3>1
    <2>3. CASE a = p
      <3>1. r[a] = s[k]
        BY <1>1, <1>2, <2>3
      <3>2. QED
        BY <1>1, <2>1, <3>1
    <2>4. CASE a > p
      <3>1. r[a] = s[a - 1] /\ a - 1 \in 1 .. n /\ a - 1 < b - 1
        BY <1>1, <1>2, <2>4
      <3>2. QED
        BY <1>3, <2>1, <3>1
    <2>5. QED
      BY <1>1, <2>2, <2>3, <2>4
  <1>7. QED
    BY <1>1, <1>4, <1>5, <1>6

(* One turn of the second loop.                                            *)
LEMMA InsertSortStep ==
    ASSUME SortInv, InsertSort
    PROVE  SortInv'
  <1>1. /\ out \in Seq(Candidate) /\ i \in 2 .. Len(out) /\ Len(out) \in Nat
        /\ i' = i + 1 /\ start' = start /\ Distinct(out)
        /\ start \in Seq(Candidate)
        /\ \A j, k \in 1 .. Len(out) : j < k /\ k < i => Before(out[j], out[k])
        /\ DOMAIN out = 1 .. Len(out)
    BY DEF SortInv, InsertSort
  <1>2. PICK p : p = PlaceOf(out, i)
    OBVIOUS
  <1>3. PlaceFound(out, i, p)
    BY <1>1, <1>2, PlaceOfFinds
  <1>4. p \in 1 .. i /\ i \in 1 .. Len(out)
    BY <1>1, <1>3 DEF PlaceFound
  <1>5. out' = [j \in 1 .. Len(out) |->
                  IF j < p \/ j > i THEN out[j]
                  ELSE IF j = p THEN out[i] ELSE out[j - 1]]
    BY <1>1, <1>2 DEF InsertSort
  <1>6. Inserted(out', out, i, p)
    <2>1. \A j \in 1 .. Len(out) : out[j] \in Candidate
      BY <1>1
    <2>2. \A j \in 1 .. Len(out) : ~(j < p \/ j > i) /\ j # p =>
             j - 1 \in 1 .. Len(out)
      BY <1>1, <1>4
    <2>3. out' \in [1 .. Len(out) -> Candidate]
      BY <1>4, <1>5, <2>1, <2>2
    <2>4. QED
      BY <1>1, <1>5, <2>3, SeqOfFunction DEF Inserted
  <1>7. Distinct(out') /\ Elements(out') = Elements(out)
    BY <1>1, <1>4, <1>6, InsertKeeps
  <1>8. out' \in Seq(Candidate) /\ Len(out') = Len(out)
    BY <1>6 DEF Inserted
  <1>9. ASSUME NEW j \in 1 .. Len(out), NEW k \in 1 .. Len(out), j < k, k < i'
        PROVE  Before(out'[j], out'[k])
    <2>1. k <= i
      BY <1>1, <1>9
    <2>2. QED
      BY <1>1, <1>3, <1>6, <1>9, <2>1, InsertSorts
  <1>10. i' \in Nat /\ i' >= 2 /\ i' <= Len(out') + 1
    BY <1>1, <1>8
  <1>11. \A c : c \in Elements(out') <=> IsBest(start', Len(start'), c)
    BY <1>1, <1>7 DEF SortInv
  <1>12. QED
    BY <1>1, <1>7, <1>8, <1>9, <1>10, <1>11 DEF SortInv

-----------------------------------------------------------------------------
(* The arrays before the loops.                                            *)
LEMMA TablesInit == Init => TablesIInv
  <1> SUFFICES ASSUME Init PROVE TablesIInv
    OBVIOUS
  <1>1. /\ loop \in Loops \ {"sort"} /\ table = start /\ out = << >>
        /\ i = IF loop = "evict_stale" THEN Len(start) ELSE 1
    BY DEF Init
  <1>2. CASE loop = "normalize"
    <2>1. PICK n \in 0 .. MaxCands : start \in [1 .. n -> Candidate]
      BY <1>2 DEF Init
    <2>2. start \in Seq(Candidate) /\ Len(start) \in Nat
      BY <2>1, SeqOfFunction
    <2>3. /\ out \in Seq(Candidate) /\ Len(out) = 0 /\ DOMAIN out = {}
          /\ i = 1 /\ i - 1 = 0 /\ i \in 1 .. Len(start) + 1
      BY <1>1, <1>2, <2>2
    <2>4. NormInv
      <3>1. OneEach(out)
        BY <2>3 DEF OneEach
      <3>2. \A j \in 1 .. Len(out) : FALSE
        BY <2>3
      <3>3. \A k \in 1 .. i - 1 : FALSE
        BY <2>3
      <3>4. QED
        BY <1>1, <2>2, <2>3, <3>1, <3>2, <3>3 DEF NormInv
    <2>5. QED
      BY <1>1, <1>2, <2>4 DEF TablesIInv, CallLoops
  <1>3. CASE loop # "normalize"
    <2>0. PICK n \in 0 .. MaxLen : \E hit \in [1 .. n -> BOOLEAN] :
             start = [k \in 1 .. n |-> [serial |-> k, hit |-> hit[k]]]
      BY <1>3 DEF Init
    <2>1. PICK hit \in [1 .. n -> BOOLEAN] :
             start = [k \in 1 .. n |-> [serial |-> k, hit |-> hit[k]]]
      BY <2>0
    <2>2. \A k \in 1 .. n : [serial |-> k, hit |-> hit[k]] \in Entry
      BY DEF Entry
    <2>3. /\ start \in [1 .. n -> Entry]
          /\ \A k \in 1 .. n : start[k].serial = k
      BY <2>1, <2>2
    <2>4. start \in Seq(Entry) /\ Len(start) = n /\ DOMAIN start = 1 .. n
          /\ n \in Nat
      BY <2>3, SeqOfFunction
    <2>5. Increasing(start) /\ Distinct(start)
      <3>1. Increasing(start)
        BY <2>3, <2>4 DEF Increasing
      <3>2. QED
        BY <2>4, <3>1, IncreasingDistinct
    <2>6. CASE loop = "evict_stale"
      <3>1. i = n /\ i \in 0 .. Len(table) /\ i <= Len(start)
        BY <1>1, <2>4, <2>6
      <3>2. \A e \in Elements(start) : e.serial <= i
        BY <2>3, <2>4, <3>1 DEF Elements
      <3>3. Elements(table) =
               {e \in Elements(start) : e.hit => e.serial <= i}
        BY <1>1, <3>2
      <3>4. \A k \in 1 .. Len(start) : start[k].serial = k
        BY <2>3, <2>4
      <3>5. EvictInv
        BY <1>1, <2>4, <2>5, <3>1, <3>3, <3>4 DEF EvictInv
      <3>6. QED
        BY <1>1, <2>6, <3>5 DEF TablesIInv, CallLoops
    <2>7. CASE loop \in CallLoops
      <3>1. /\ out \in Seq(Entry) /\ DOMAIN out = {} /\ Elements(out) = {}
            /\ i = 1
        BY <1>1, <2>7 DEF CallLoops, Elements
      <3>2. i \in 1 .. Len(table) + 1 /\ \A j \in 1 .. i - 1 : ~table[j].hit
        BY <1>1, <2>4, <3>1
      <3>3. Distinct(out)
        BY <3>1 DEF Distinct
      <3>4. CallInv
        BY <1>1, <2>4, <2>5, <3>1, <3>2, <3>3 DEF CallInv
      <3>5. QED
        BY <1>1, <2>7, <3>4 DEF TablesIInv, CallLoops
    <2>8. QED
      BY <1>1, <1>3, <2>6, <2>7 DEF Loops, CallLoops
  <1>4. QED
    BY <1>2, <1>3

(* Every turn of every loop keeps its loop invariant.                      *)
LEMMA TablesNext == TablesIInv /\ [Next]_vars => TablesIInv'
  <1> SUFFICES ASSUME TablesIInv, [Next]_vars PROVE TablesIInv'
    OBVIOUS
  <1>1. CASE EvictStale
    <2>1. loop = "evict_stale" /\ loop' = loop
      BY <1>1 DEF EvictStale
    <2>2. EvictInv'
      BY <1>1, <2>1, EvictStep DEF TablesIInv
    <2>3. QED
      BY <2>1, <2>2 DEF TablesIInv, Loops, CallLoops
  <1>2. CASE EvictCalls \/ TakeAll
    <2>1. loop \in CallLoops /\ loop' = loop
      BY <1>2 DEF EvictCalls, TakeAll, CallLoops
    <2>2. CallInv'
      BY <1>2, <2>1, CallStep DEF TablesIInv
    <2>3. QED
      BY <2>1, <2>2 DEF TablesIInv, Loops, CallLoops
  <1>3. CASE Deduplicate
    <2>1. loop = "normalize" /\ loop' = loop
      BY <1>3 DEF Deduplicate
    <2>2. NormInv'
      BY <1>3, <2>1, DeduplicateStep DEF TablesIInv
    <2>3. QED
      BY <2>1, <2>2 DEF TablesIInv, Loops, CallLoops
  <1>4. CASE StartSort
    <2>1. loop = "normalize" /\ loop' = "sort"
      BY <1>4 DEF StartSort
    <2>2. SortInv'
      BY <1>4, <2>1, StartSortStep DEF TablesIInv
    <2>3. QED
      BY <2>1, <2>2 DEF TablesIInv, Loops, CallLoops
  <1>5. CASE InsertSort
    <2>1. loop = "sort" /\ loop' = loop
      BY <1>5 DEF InsertSort
    <2>2. SortInv'
      BY <1>5, <2>1, InsertSortStep DEF TablesIInv
    <2>3. QED
      BY <2>1, <2>2 DEF TablesIInv, Loops, CallLoops
  <1>6. CASE UNCHANGED vars
    BY <1>6 DEF TablesIInv, EvictInv, CallInv, NormInv, SortInv, vars
  <1>7. QED
    BY <1>1, <1>2, <1>3, <1>4, <1>5, <1>6 DEF Next

(* redp2p_evict_stale leaves exactly the live records, in order            *)
(* (RecordsLeft), for a table of any length.                               *)
THEOREM EvictionExact == Spec => []RecordsLeft
  <1>1. ASSUME TablesIInv PROVE RecordsLeft
    <2>1. SUFFICES ASSUME loop = "evict_stale", Done
                   PROVE  /\ Elements(table) = {e \in Elements(start) : ~e.hit}
                          /\ Increasing(table)
      BY DEF RecordsLeft, Increasing
    <2>2. i = 0 /\ EvictInv
      BY <1>1, <2>1 DEF Done, TablesIInv
    <2>3. \A e \in Elements(start) : ~(e.serial <= 0)
      <3>1. \A k \in 1 .. Len(start) : ~(start[k].serial <= 0)
        BY <2>2 DEF EvictInv
      <3>2. DOMAIN start = 1 .. Len(start)
        BY <2>2 DEF EvictInv
      <3>3. QED
        BY <3>1, <3>2 DEF Elements
    <2>4. Elements(table) = {e \in Elements(start) : e.hit => e.serial <= 0}
      BY <2>2 DEF EvictInv
    <2>5. Increasing(table)
      BY <2>2 DEF EvictInv
    <2>6. QED
      BY <2>3, <2>4, <2>5
  <1>2. QED
    BY <1>1, TablesInit, TablesNext, PTL DEF Spec

(* The walks over the pending calls split them exactly (CallsSplit),       *)
(* although the last entry jumps into the place under the index.           *)
THEOREM SplitExact == Spec => []CallsSplit
  <1>1. ASSUME TablesIInv PROVE CallsSplit
    <2>1. SUFFICES ASSUME loop \in CallLoops, Done PROVE CallsSplit
      BY DEF CallsSplit, CallLoops
    <2>2. CallInv /\ i = Len(table) + 1
      BY <1>1, <2>1 DEF Done, TablesIInv, CallLoops
    <2>3. \A e \in Elements(table) : ~e.hit
      <3>1. Len(table) \in Nat /\ DOMAIN table = 1 .. Len(table)
        BY <2>2 DEF CallInv
      <3>2. \A j \in 1 .. Len(table) : ~table[j].hit
        BY <2>2, <3>1 DEF CallInv
      <3>3. QED
        BY <3>1, <3>2 DEF Elements
    <2>4. Elements(table) = {e \in Elements(start) : ~e.hit}
      BY <2>2, <2>3 DEF CallInv
    <2>5. loop = "pending_call_take_all" =>
             Elements(out) = {e \in Elements(start) : e.hit}
      BY <2>2, <2>3 DEF CallInv
    <2>6. QED
      BY <2>2, <2>4, <2>5 DEF CallsSplit, CallInv
  <1>2. QED
    BY <1>1, TablesInit, TablesNext, PTL DEF Spec

(* redp2p_normalize_candidates ranks (Ranked): for any candidates, the     *)
(* best one of every endpoint, once, in ranking order.                     *)
THEOREM CandidatesRanked == Spec => []Ranked
  <1>1. ASSUME TablesIInv PROVE Ranked
    <2>1. SUFFICES ASSUME loop = "sort", Done PROVE Ranked
      BY DEF Ranked
    <2>2. SortInv /\ i > Len(out)
      BY <1>1, <2>1 DEF Done, TablesIInv
    <2>3. Len(out) \in Nat /\ i \in Nat /\ DOMAIN start = 1 .. Len(start)
      BY <2>2 DEF SortInv
    <2>4. ASSUME NEW j \in 1 .. Len(out) - 1
          PROVE  Before(out[j], out[j + 1])
      <3>1. /\ j \in 1 .. Len(out) /\ j + 1 \in 1 .. Len(out) /\ j < j + 1
            /\ j + 1 < i
        BY <2>2, <2>3
      <3>2. QED
        BY <2>2, <3>1 DEF SortInv
    <2>5. \A c : IsBest(start, Len(start), c) <=>
             c \in {d \in Elements(start) : \A e \in Elements(start) :
                       SameEndpoint(e, d) => ~Before(e, d)}
      BY <2>3 DEF IsBest, Elements
    <2>6. Elements(out) = {c \in Elements(start) : \A d \in Elements(start) :
                              SameEndpoint(d, c) => ~Before(d, c)}
      BY <2>2, <2>5 DEF SortInv
    <2>7. QED
      BY <2>4, <2>6 DEF Ranked
  <1>2. QED
    BY <1>1, TablesInit, TablesNext, PTL DEF Spec
=============================================================================
