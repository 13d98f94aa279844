----------------------------- MODULE KcpProofs ------------------------------
(***************************************************************************)
(* Theorems about the two KCP ends and the network between them (module    *)
(* Kcp), for every window, segment size and number of lost and repeated    *)
(* datagrams: the stream arrives in order, nothing is given up before it   *)
(* arrived, the receiver's window is never overrun, and each direction     *)
(* implements a pipe (module Pipe).                                        *)
(***************************************************************************)
EXTENDS Kcp, FiniteSetTheorems, WellFoundedInduction, TLAPS

USE KcpAssumption

Span == [from : Nat, to : Nat]
Seg == [sn : Nat, from : Nat, to : Nat]
Message == [to : Ends, type : {"ack", "push"}, sn : Nat, from : Nat,
            thru : Nat, una : Nat]

Shape ==
    /\ sent \in [Ends -> Nat]
    /\ snd_queue \in [Ends -> Seq(Span)]
    /\ snd_buf \in [Ends -> SUBSET Seg]
    /\ \A x \in Ends : IsFiniteSet(snd_buf[x])
    /\ snd_una \in [Ends -> Nat] /\ snd_nxt \in [Ends -> Nat]
    /\ cwnd \in [Ends -> Nat]
    /\ rcv_nxt \in [Ends -> Nat]
    /\ rcv_buf \in [Ends -> SUBSET Seg]
    /\ acklist \in [Ends -> SUBSET Nat]
    /\ written \in [Ends -> Seq(Span)]
    /\ net \in SUBSET Message

(* Segments that follow each other up to the position last.                 *)
Chain(q, last) ==
    \A i \in 1 .. Len(q) :
        /\ 1 <= q[i].from /\ q[i].from <= q[i].to /\ q[i].to <= last
        /\ i < Len(q) => q[i + 1].from = q[i].to + 1
        /\ i = Len(q) => q[i].to = last

(* The first position that has no number yet.                               *)
NextFrom(x) ==
    IF snd_queue[x] = <<>> THEN sent[x] + 1 ELSE snd_queue[x][1].from

(* Every copy of a numbered segment of the stream from x: waiting for its   *)
(* acknowledgement, on its way, received early, or written.                 *)
PushesFrom(x) == {m \in net : m.type = "push" /\ m.to = Peer(x)}
DataOf(m) == [sn |-> m.sn, from |-> m.from, to |-> m.thru]
WrittenAs(y, i) == [sn |-> i - 1, from |-> written[y][i].from,
                    to |-> written[y][i].to]
Copies(x) ==
    snd_buf[x] \cup rcv_buf[Peer(x)]
    \cup {DataOf(m) : m \in PushesFrom(x)}
    \cup {WrittenAs(Peer(x), i) : i \in 1 .. Len(written[Peer(x)])}

(* Copies of one number agree, those of neighbours fit together, and the    *)
(* queue goes on where the numbered segments end.                           *)
CopyOK(x, a) ==
    /\ a.sn < snd_nxt[x] /\ 1 <= a.from /\ a.from <= a.to /\ a.to <= sent[x]
    /\ a.sn = 0 => a.from = 1
    /\ a.sn = snd_nxt[x] - 1 => a.to + 1 = NextFrom(x)
Agree(a, b) ==
    /\ a.sn = b.sn => a = b
    /\ b.sn = a.sn + 1 => b.from = a.to + 1
CopyInv(x) ==
    /\ \A a \in Copies(x) : CopyOK(x, a)
    /\ \A a, b \in Copies(x) : Agree(a, b)
    /\ snd_nxt[x] = 0 => NextFrom(x) = 1

(* What is acknowledged has been received.                                  *)
Has(y, sn) == sn < rcv_nxt[y] \/ sn \in Numbers(rcv_buf[y])
AckInv(x) ==
    /\ \A m \in net : m.to = x =>
          /\ m.una <= rcv_nxt[Peer(x)]
          /\ m.type = "ack" => Has(Peer(x), m.sn)
    /\ \A sn \in acklist[Peer(x)] : Has(Peer(x), sn)

(* The windows of both ends.                                                *)
WindowInv(x) ==
    /\ snd_una[x] <= snd_nxt[x] /\ snd_nxt[x] <= snd_una[x] + SndWnd
    /\ \A s \in snd_buf[x] : s.sn >= snd_una[x]
    /\ \A s \in rcv_buf[Peer(x)] : s.sn > rcv_nxt[Peer(x)]
    /\ Len(written[Peer(x)]) = rcv_nxt[Peer(x)]

(* Every numbered segment is still kept by the sender or has been received. *)
KeptInv(x) ==
    \A sn \in 0 .. snd_nxt[x] - 1 :
        sn \in Numbers(snd_buf[x]) \/ Has(Peer(x), sn)

StreamInv(x) ==
    /\ Chain(snd_queue[x], sent[x])
    /\ CopyInv(x) /\ AckInv(x) /\ WindowInv(x) /\ KeptInv(x)

KcpIInv == Shape /\ \A x \in Ends : StreamInv(x)

-----------------------------------------------------------------------------
(* Lemmas about ikcp_send's cutting of the data into segments.              *)

(* There are two ends, each the other's peer.                               *)
LEMMA EndsFact ==
    /\ \A x \in Ends : Peer(x) \in Ends /\ Peer(Peer(x)) = x /\ Peer(x) # x
    /\ \A x, y \in Ends : y = x \/ y = Peer(x)
  BY DEF Ends, Peer

(* How many whole segments.                                                 *)
LEMMA Division ==
    ASSUME NEW a \in Nat
    PROVE  LET k == a \div Mss
           IN  k \in Nat /\ k * Mss <= a /\ a < (k + 1) * Mss
  OBVIOUS

(* The first i segments hold no more bytes than the first k.                *)
LEMMA Multiples ==
    ASSUME NEW i \in Int, NEW k \in Int, i <= k
    PROVE  i * Mss <= k * Mss /\ i * Mss \in Int
  OBVIOUS

(* The fragments of first .. last follow each other.                        *)
LEMMA FragmentsChain ==
    ASSUME NEW first \in Nat, NEW last \in Nat, 1 <= first, first <= last + 1
    PROVE  LET f == Fragments(first, last)
           IN  /\ f \in Seq(Span) /\ Chain(f, last)
               /\ f = <<>> => first = last + 1
               /\ f # <<>> => f[1].from = first
               /\ first <= last => f # <<>>
  <1> DEFINE k == (last - first + Mss) \div Mss
             f == Fragments(first, last)
  <1>1. /\ k \in Nat /\ k * Mss <= last - first + Mss
        /\ last - first + Mss < (k + 1) * Mss
    <2>1. last - first + Mss \in Nat
      OBVIOUS
    <2>2. QED
      BY <2>1, Division
  <1> HIDE DEF k
  <1>2. f = [i \in 1 .. k |-> [from |-> first + (i - 1) * Mss,
                              to |-> Least(first + i * Mss - 1, last)]]
    BY DEF Fragments, k
  <1> HIDE DEF f
  <1>3. (k + 1) * Mss = k * Mss + Mss /\ k * Mss \in Nat
    BY <1>1
  <1>4. ASSUME NEW i \in 1 .. k
        PROVE  /\ (i - 1) * Mss \in Nat /\ i * Mss = (i - 1) * Mss + Mss
               /\ (i - 1) * Mss <= last - first
               /\ i < k => i * Mss <= last - first
               /\ i = k => i * Mss > last - first
    <2>1. (i - 1) * Mss \in Nat /\ i * Mss = (i - 1) * Mss + Mss
      BY <1>1
    <2>2. i * Mss <= k * Mss
      BY <1>1, Multiples
    <2>3. i < k => i * Mss <= (k - 1) * Mss
      BY <1>1, Multiples
    <2>4. (k - 1) * Mss = k * Mss - Mss
      BY <1>1
    <2>5. QED
      BY <1>1, <1>3, <2>1, <2>2, <2>3, <2>4
  <1>5. ASSUME NEW i \in 1 .. k
        PROVE  /\ f[i] \in Span /\ f[i].from = first + (i - 1) * Mss
               /\ f[i].to = IF i < k THEN first + i * Mss - 1 ELSE last
               /\ first <= f[i].from /\ f[i].from <= f[i].to
               /\ f[i].to <= last
    <2>1. f[i] = [from |-> first + (i - 1) * Mss,
                  to |-> Least(first + i * Mss - 1, last)]
      BY <1>2
    <2>2. f[i].from = first + (i - 1) * Mss
          /\ f[i].to = Least(first + i * Mss - 1, last)
      BY <2>1
    <2>3. f[i].to = IF i < k THEN first + i * Mss - 1 ELSE last
      BY <1>1, <1>4, <2>2 DEF Least
    <2>4. /\ f[i].from \in Nat /\ f[i].to \in Nat /\ first <= f[i].from
          /\ f[i].from <= f[i].to /\ f[i].to <= last
      BY <1>1, <1>4, <2>2, <2>3
    <2>5. QED
      BY <2>1, <2>2, <2>3, <2>4 DEF Span
  <1>6. f \in Seq(Span) /\ Len(f) = k
    <2>1. f \in [1 .. k -> Span]
      BY <1>2, <1>5
    <2>2. QED
      BY <1>1, <2>1
  <1>7. ASSUME NEW i \in 1 .. k, i < k
        PROVE  f[i + 1].from = f[i].to + 1
    <2>1. i + 1 \in 1 .. k /\ (i + 1) - 1 = i
      BY <1>1, <1>7
    <2>2. f[i + 1].from = first + i * Mss
      BY <1>5, <2>1
    <2>3. f[i].to = first + i * Mss - 1 /\ i * Mss \in Int
      BY <1>4, <1>5, <1>7
    <2>4. QED
      BY <2>2, <2>3
  <1>8. Chain(f, last)
    <2> SUFFICES ASSUME NEW i \in 1 .. k
                 PROVE  /\ 1 <= f[i].from /\ f[i].from <= f[i].to
                        /\ f[i].to <= last
                        /\ i < k => f[i + 1].from = f[i].to + 1
                        /\ i = k => f[i].to = last
      BY <1>6 DEF Chain
    <2>1. 1 <= f[i].from
      BY <1>5 DEF Span
    <2>2. QED
      BY <1>1, <1>5, <1>7, <2>1
  <1>9. k = 0 => first = last + 1
    <2>1. k = 0 => k * Mss + Mss = Mss
      BY <1>1
    <2>2. QED
      BY <1>1, <1>3, <2>1
  <1>10. k # 0 => f[1].from = first
    <2>1. (1 - 1) * Mss = 0
      OBVIOUS
    <2>2. k # 0 => 1 \in 1 .. k
      BY <1>1
    <2>3. QED
      BY <1>5, <2>1, <2>2
  <1>11. f = <<>> <=> k = 0
    BY <1>6
  <1>12. QED
    BY <1>6, <1>8, <1>9, <1>10, <1>11 DEF f

(* r goes on from the queue p, which ends at e, up to the position last.    *)
GoesOn(r, p, e, last) ==
    /\ r \in Seq(Span) /\ Chain(r, last) /\ r # <<>>
    /\ r[1].from = IF p = <<>> THEN e + 1 ELSE p[1].from

(* A queue that reaches the position e followed by the fragments of the    *)
(* positions after e reaches the new end.                                   *)
LEMMA AppendChain ==
    ASSUME NEW p \in Seq(Span), NEW e \in Nat, NEW last \in Nat, Chain(p, e),
           e <= last, p = <<>> => e < last
    PROVE  GoesOn(p \o Fragments(e + 1, last), p, e, last)
  <1> DEFINE f == Fragments(e + 1, last)
             l == Len(p)
             m == Len(f)
             r == p \o f
  <1>0. l \in Nat
    OBVIOUS
  <1>1. /\ f \in Seq(Span) /\ Chain(f, last)
        /\ f = <<>> => e = last
        /\ f # <<>> => f[1].from = e + 1
        /\ e + 1 <= last => f # <<>>
    <2>1. e + 1 \in Nat /\ 1 <= e + 1 /\ e + 1 <= last + 1
      BY <1>0
    <2>2. e + 1 = last + 1 => e = last
      BY <1>0
    <2>3. QED
      BY <1>0, <2>1, <2>2, FragmentsChain
  <1> HIDE DEF f
  <1>2. m \in Nat /\ (m = 0 <=> f = <<>>) /\ (l = 0 <=> p = <<>>)
    BY <1>1
  <1>3. /\ r \in Seq(Span) /\ Len(r) = l + m
        /\ \A i \in 1 .. l : r[i] = p[i]
        /\ \A i \in 1 .. m : r[l + i] = f[i]
    BY <1>1
  <1> HIDE DEF l, m, r
  <1>4. \A i \in 1 .. l : p[i] \in Span
    BY DEF l
  <1>5. \A i \in 1 .. m : f[i] \in Span
    BY <1>1 DEF m
  <1>6. ASSUME NEW i \in 1 .. l + m
        PROVE  /\ 1 <= r[i].from /\ r[i].from <= r[i].to /\ r[i].to <= last
               /\ i < l + m => r[i + 1].from = r[i].to + 1
               /\ i = l + m => r[i].to = last
    <2>1. CASE i <= l
      <3>1. i \in 1 .. l /\ r[i] = p[i] /\ p[i] \in Span
        BY <1>0, <1>2, <1>3, <1>4, <2>1 DEF l
      <3>2. /\ 1 <= p[i].from /\ p[i].from <= p[i].to /\ p[i].to <= e
            /\ i < l => p[i + 1].from = p[i].to + 1
            /\ i = l => p[i].to = e
        BY <3>1 DEF Chain, l
      <3>3. p[i].to \in Nat
        BY <3>1 DEF Span
      <3>4. CASE i < l
        <4>1. i + 1 \in 1 .. l
          BY <1>0, <3>1, <3>4 DEF l
        <4>2. QED
          BY <1>0, <1>2, <1>3, <3>1, <3>2, <3>3, <3>4, <4>1 DEF l
      <3>5. CASE i = l /\ m # 0
        <4>1. 1 \in 1 .. m
          BY <1>2, <3>5
        <4>2. r[i + 1] = f[1]
          BY <1>3, <3>5, <4>1
        <4>3. QED
          BY <1>0, <1>1, <1>2, <3>1, <3>2, <3>3, <3>5, <4>2 DEF l
      <3>6. CASE i = l /\ m = 0
        BY <1>0, <1>1, <1>2, <3>1, <3>2, <3>6 DEF l
      <3>7. QED
        BY <1>0, <2>1, <3>4, <3>5, <3>6 DEF l
    <2>2. CASE i > l
      <3> DEFINE j == i - l
      <3>1. j \in 1 .. m /\ i = l + j
        BY <1>0, <1>2, <2>2 DEF l
      <3>2. r[i] = f[j] /\ f[j] \in Span
        BY <1>3, <1>5, <3>1
      <3>3. /\ 1 <= f[j].from /\ f[j].from <= f[j].to /\ f[j].to <= last
            /\ j < m => f[j + 1].from = f[j].to + 1
            /\ j = m => f[j].to = last
        BY <1>1, <3>1 DEF Chain, m
      <3>4. CASE j < m
        <4>1. j + 1 \in 1 .. m /\ l + (j + 1) = i + 1
          BY <1>0, <1>2, <3>1, <3>4 DEF l
        <4>2. r[i + 1] = f[j + 1]
          BY <1>3, <4>1
        <4>3. QED
          BY <1>0, <1>2, <3>1, <3>2, <3>3, <3>4, <4>2 DEF l
      <3>5. CASE j = m
        BY <1>0, <1>2, <3>1, <3>2, <3>3, <3>5 DEF l
      <3>6. QED
        BY <1>2, <3>1, <3>4, <3>5
    <2>3. QED
      BY <1>0, <1>2, <2>1, <2>2 DEF l
  <1>7. Chain(r, last)
    BY <1>3, <1>6 DEF Chain
  <1>8. CASE p # <<>>
    <2>1. 1 \in 1 .. l
      BY <1>0, <1>2, <1>8 DEF l
    <2>2. r[1] = p[1] /\ p # <<>> /\ r # <<>>
      BY <1>0, <1>2, <1>3, <1>8, <2>1 DEF l
    <2>3. QED
      BY <1>3, <1>7, <1>8, <2>2 DEF r, f, GoesOn
  <1>9. CASE p = <<>>
    <2>1. l = 0 /\ f # <<>>
      BY <1>0, <1>1, <1>2, <1>9
    <2>2. 1 \in 1 .. m
      BY <1>2, <2>1
    <2>3. l + 1 = 1 /\ l + m = m
      BY <1>2, <2>1
    <2>4. r[1] = f[1] /\ r # <<>>
      BY <1>2, <1>3, <2>1, <2>2, <2>3
    <2>5. QED
      BY <1>1, <1>3, <1>7, <1>9, <2>1, <2>4 DEF r, f, GoesOn
  <1>10. QED
    BY <1>8, <1>9

(* Filling up the last queued segment only moves its end.                   *)
LEMMA FilledChain ==
    ASSUME NEW q \in Seq(Span), NEW s \in Nat, NEW e \in Nat, s <= e,
           q # <<>>, Chain(q, s)
    PROVE  LET p == [q EXCEPT ![Len(q)].to = e]
           IN  /\ p \in Seq(Span) /\ Chain(p, e) /\ p # <<>>
               /\ p[1].from = q[1].from
  <1> HIDE KcpAssumption
  <1> PICK l \in Nat : l = Len(q)
    OBVIOUS
  <1>1. l \in 1 .. l /\ \A i \in 1 .. l : q[i] \in Span
    OBVIOUS
  <1>2. ASSUME NEW i \in 1 .. l
        PROVE  /\ q[i].from \in Nat /\ q[i].to \in Nat
               /\ 1 <= q[i].from /\ q[i].from <= q[i].to /\ q[i].to <= s
               /\ i < l => q[i + 1].from = q[i].to + 1
    BY <1>1 DEF Chain, Span
  <1> DEFINE w == [from |-> q[l].from, to |-> e]
             p == [q EXCEPT ![l].to = e]
  <1>3. w \in Span
    BY <1>1, <1>2 DEF Span
  <1>4. p = [i \in 1 .. l |-> IF i = l THEN w ELSE q[i]]
    <2>1. [q[l] EXCEPT !.to = e] = w
      <3>1. ASSUME NEW v \in Span
            PROVE  [v EXCEPT !.to = e] = [from |-> v.from, to |-> e]
        BY DEF Span
      <3>2. q[l] \in Span
        BY <1>1
      <3>3. QED
        BY <3>1, <3>2
    <2>2. p = [q EXCEPT ![l] = [q[l] EXCEPT !.to = e]]
      OBVIOUS
    <2> HIDE DEF w, p
    <2>3. p = [q EXCEPT ![l] = w]
      BY <2>1, <2>2
    <2>4. DOMAIN q = 1 .. l
      OBVIOUS
    <2>5. QED
      BY <2>3, <2>4
  <1> HIDE DEF p
  <1>5. \A i \in 1 .. l : /\ i # l => p[i] = q[i]
                          /\ p[l].from = q[l].from /\ p[l].to = e
    BY <1>1, <1>4
  <1>6. p \in Seq(Span) /\ Len(p) = l
    <2>1. p \in [1 .. l -> Span]
      <3> HIDE DEF w
      <3>1. QED
        BY <1>1, <1>3, <1>4
    <2>2. QED
      BY <2>1
  <1>7. Chain(p, e)
    <2> SUFFICES ASSUME NEW i \in 1 .. l
                 PROVE  /\ 1 <= p[i].from /\ p[i].from <= p[i].to
                        /\ p[i].to <= e
                        /\ i < l => p[i + 1].from = p[i].to + 1
                        /\ i = l => p[i].to = e
      BY <1>6 DEF Chain
    <2>1. CASE i = l
      BY <1>2, <1>5, <2>1
    <2>2. CASE i # l
      <3>1. p[i] = q[i] /\ i + 1 \in 1 .. l /\ i < l
        BY <1>5, <2>2
      <3>2. p[i + 1].from = q[i + 1].from
        BY <1>1, <1>5, <3>1
      <3>3. QED
        BY <1>2, <2>2, <3>1, <3>2
    <2>3. QED
      BY <2>1, <2>2
  <1>8. 1 \in 1 .. l /\ p # <<>>
    BY <1>1, <1>6
  <1>9. p[1].from = q[1].from
    BY <1>1, <1>5, <1>8
  <1>10. QED
    BY <1>6, <1>7, <1>8, <1>9 DEF p

(* ikcp_send keeps the queue in order and appends up to the new end.        *)
LEMMA QueuedChain ==
    ASSUME NEW q \in Seq(Span), NEW s \in Nat, NEW n \in Nat, 1 <= n,
           Chain(q, s)
    PROVE  GoesOn(Queued(q, s + 1, s + n), q, s, s + n)
  <1> PICK last \in Nat : last = s + n
    OBVIOUS
  <1> PICK l \in Nat : l = Len(q)
    OBVIOUS
  <1>1. CASE ~(q # <<>> /\ q[l].to - q[l].from + 1 < Mss)
    <2>1. Queued(q, s + 1, last) = q \o Fragments(s + 1, last)
      BY <1>1 DEF Queued
    <2>2. s <= last /\ (q = <<>> => s < last)
      OBVIOUS
    <2>3. GoesOn(q \o Fragments(s + 1, last), q, s, last)
      BY <2>2, AppendChain
    <2>4. QED
      BY <2>1, <2>3 DEF GoesOn
  <1>2. CASE q # <<>> /\ q[l].to - q[l].from + 1 < Mss
    <2>1. /\ l \in 1 .. l /\ q[l].from \in Nat /\ q[l].to \in Nat
          /\ q[l].to = s /\ q[l].from <= s
      <3>1. l \in 1 .. l /\ q[l] \in Span
        BY <1>2
      <3>2. QED
        BY <3>1 DEF Chain, Span
    <2> PICK e \in Nat : e = Least(q[l].from + Mss - 1, last)
      BY <2>1 DEF Least
    <2>2. s <= e /\ e <= last
      BY <1>2, <2>1 DEF Least
    <2> DEFINE p == [q EXCEPT ![l].to = e]
    <2>3. Queued(q, s + 1, last) = p \o Fragments(e + 1, last)
      BY <1>2 DEF Queued
    <2>4. /\ p \in Seq(Span) /\ Chain(p, e) /\ p # <<>>
          /\ p[1].from = q[1].from
      <3> DEFINE f == [q EXCEPT ![Len(q)].to = e]
      <3>1. /\ f \in Seq(Span) /\ Chain(f, e) /\ f # <<>>
            /\ f[1].from = q[1].from
        BY ZenonT(30), <1>2, <2>2, FilledChain
      <3>2. p = f
        OBVIOUS
      <3> HIDE DEF p, f
      <3>3. QED
        BY <3>1, <3>2
    <2> HIDE DEF p
    <2>5. GoesOn(p \o Fragments(e + 1, last), p, e, last)
      <3>1. p = <<>> => e < last
        BY <2>4
      <3>2. QED
        BY <2>2, <2>4, <3>1, AppendChain
    <2>6. QED
      BY <1>2, <2>3, <2>4, <2>5 DEF GoesOn
  <1>3. QED
    BY <1>1, <1>2

-----------------------------------------------------------------------------
(* Lemmas about the segments that are in order.                             *)

(* A set of numbers that is not empty has a least one: what ikcp_shrink_buf *)
(* finds, and the first missing segment.                                    *)
LEMMA LeastNumber ==
    ASSUME NEW S \in SUBSET Nat, S # {}
    PROVE  \E m \in S : \A j \in S : m <= j
  <1>1. \E m \in S : \A j \in S : ~(<<j, m>> \in OpToRel(<, Nat))
    BY NatLessThanWellFounded, WFMin, Zenon
  <1>2. PICK m \in S : \A j \in S : ~(<<j, m>> \in OpToRel(<, Nat))
    BY <1>1
  <1>3. \A j \in S : ~(j < m)
    BY <1>2 DEF OpToRel
  <1>4. QED
    BY <1>3

(* The segments InputPush takes out of buf when it waits for the number r.  *)
DueOf(buf, r) == {s \in buf : r .. s.sn \subseteq Numbers(buf)}

(* They are those before the first missing number e, one for each number.   *)
DueUpTo(buf, r, e) ==
    /\ e \in Nat /\ r <= e /\ e \notin Numbers(buf)
    /\ \A n \in r .. e - 1 : n \in Numbers(buf)
    /\ DueOf(buf, r) = {s \in buf : s.sn < e}
    /\ Cardinality(DueOf(buf, r)) = e - r

(* ikcp_parse_data and ikcp_recv stop at the first missing number.          *)
LEMMA DuePrefix ==
    ASSUME NEW buf \in SUBSET Seg, NEW r \in Nat, NEW bound \in Nat,
           \A s \in buf : r <= s.sn /\ s.sn < bound,
           \A s, t \in buf : s.sn = t.sn => s = t
    PROVE  \E e \in Nat : DueUpTo(buf, r, e)
  <1>0. \A s \in buf : s.sn \in Nat
    BY DEF Seg
  <1> DEFINE T == {n \in Nat : r <= n /\ n \notin Numbers(buf)}
  <1>1. T # {}
    <2>1. CASE bound \in T
      BY <2>1
    <2>2. CASE bound \notin T
      <3>1. bound \notin Numbers(buf)
        BY <1>0 DEF Numbers
      <3>2. bound < r
        BY <2>2, <3>1
      <3>3. r \notin Numbers(buf)
        BY <1>0, <3>2 DEF Numbers
      <3>4. QED
        BY <3>3
    <2>3. QED
      BY <2>1, <2>2
  <1>2. PICK e \in T : \A j \in T : e <= j
    BY <1>1, LeastNumber
  <1>3. e \in Nat /\ r <= e /\ e \notin Numbers(buf)
    BY <1>2
  <1>4. \A n \in r .. e - 1 : n \in Numbers(buf)
    BY <1>2
  <1> HIDE DEF T
  <1>5. ASSUME NEW s \in buf
        PROVE  r .. s.sn \subseteq Numbers(buf) <=> s.sn < e
    <2>1. s.sn \in Nat /\ s.sn \in Numbers(buf) /\ r <= s.sn
      BY <1>0 DEF Numbers
    <2>2. s.sn # e
      BY <1>3, <2>1
    <2>3. CASE s.sn < e
      BY <1>3, <1>4, <2>1, <2>3
    <2>4. CASE s.sn > e
      <3>1. e \in r .. s.sn
        BY <1>3, <2>1, <2>4
      <3>2. QED
        BY <1>3, <2>1, <2>4, <3>1
    <2>5. QED
      BY <1>3, <2>1, <2>2, <2>3, <2>4
  <1> DEFINE D == {s \in buf : s.sn < e}
  <1>6. DueOf(buf, r) = D
    BY <1>5 DEF DueOf
  <1>7. IsFiniteSet(r .. e - 1) /\ Cardinality(r .. e - 1) = e - r
    <2>1. r \in Int /\ e - 1 \in Int
      BY <1>3
    <2>2. QED
      BY <1>3, <2>1, FS_Interval
  <1>8. \A n \in r .. e - 1 : \E s \in D : s.sn = n
    <2> SUFFICES ASSUME NEW n \in r .. e - 1
                 PROVE  \E s \in D : s.sn = n
      OBVIOUS
    <2>1. PICK s \in buf : s.sn = n
      BY <1>4 DEF Numbers
    <2>2. s \in D
      BY <1>3, <2>1
    <2>3. QED
      BY <2>1, <2>2
  <1> DEFINE g == [n \in r .. e - 1 |-> CHOOSE s \in D : s.sn = n]
  <1>9. \A n \in r .. e - 1 : g[n] \in D /\ g[n].sn = n
    BY <1>8
  <1>10. g \in [r .. e - 1 -> D]
    BY <1>9
  <1>11. \A s \in D : \E n \in r .. e - 1 : g[n] = s
    <2> SUFFICES ASSUME NEW s \in D
                 PROVE  \E n \in r .. e - 1 : g[n] = s
      OBVIOUS
    <2>1. s.sn \in r .. e - 1
      BY <1>0, <1>3
    <2>2. g[s.sn] \in buf /\ g[s.sn].sn = s.sn
      BY <1>9, <2>1
    <2>3. g[s.sn] = s
      <3> HIDE DEF g
      <3>1. QED
        BY <2>2
    <2>4. QED
      BY <2>1, <2>3
  <1> HIDE DEF g, D
  <1>12. g \in Bijection(r .. e - 1, D)
    BY <1>9, <1>10, <1>11 DEF Bijection, Injection, IsInjective, Surjection
  <1>13. Cardinality(D) = e - r
    <2>1. ExistsBijection(r .. e - 1, D)
      BY <1>12 DEF ExistsBijection
    <2>2. QED
      BY <1>7, <2>1, FS_Bijection
  <1>14. DueUpTo(buf, r, e)
    BY <1>3, <1>4, <1>6, <1>13 DEF DueUpTo, D
  <1>15. QED
    BY <1>3, <1>14

-----------------------------------------------------------------------------
(* The parts of the invariant and what may change under them.               *)

SenderSame(x) ==
    /\ sent'[x] = sent[x] /\ snd_queue'[x] = snd_queue[x]
    /\ snd_buf'[x] = snd_buf[x] /\ snd_una'[x] = snd_una[x]
    /\ snd_nxt'[x] = snd_nxt[x]
ReceiverSame(y) ==
    /\ rcv_nxt'[y] = rcv_nxt[y] /\ rcv_buf'[y] = rcv_buf[y]
    /\ acklist'[y] = acklist[y] /\ written'[y] = written[y]

(* What y has received it keeps.                                            *)
MoreHad(y) ==
    /\ rcv_nxt[y] <= rcv_nxt'[y]
    /\ \A sn \in Nat : Has(y, sn) => Has(y, sn)'

(* The invariant at one end, in types.                                      *)
LEMMA ShapeAt ==
    ASSUME Shape, NEW x \in Ends
    PROVE  /\ sent[x] \in Nat /\ snd_queue[x] \in Seq(Span)
           /\ snd_buf[x] \in SUBSET Seg /\ IsFiniteSet(snd_buf[x])
           /\ snd_una[x] \in Nat /\ snd_nxt[x] \in Nat /\ cwnd[x] \in Nat
           /\ rcv_nxt[x] \in Nat /\ rcv_buf[x] \in SUBSET Seg
           /\ acklist[x] \in SUBSET Nat /\ written[x] \in Seq(Span)
  BY DEF Shape

(* Every copy is a segment.                                                 *)
LEMMA CopiesAreSegments ==
    ASSUME Shape, NEW x \in Ends
    PROVE  Copies(x) \subseteq Seg /\ \A a \in Copies(x) :
              a.sn \in Nat /\ a.from \in Nat /\ a.to \in Nat
  <1>1. Peer(x) \in Ends
    BY EndsFact
  <1>2. snd_buf[x] \subseteq Seg /\ rcv_buf[Peer(x)] \subseteq Seg
    BY <1>1, ShapeAt
  <1>3. ASSUME NEW m \in PushesFrom(x)
        PROVE  DataOf(m) \in Seg
    BY DEF Shape, PushesFrom, Message, DataOf, Seg
  <1>4. ASSUME NEW i \in 1 .. Len(written[Peer(x)])
        PROVE  WrittenAs(Peer(x), i) \in Seg
    <2>1. written[Peer(x)][i] \in Span
      BY <1>1, ShapeAt
    <2>2. i - 1 \in Nat
      BY <1>1, ShapeAt
    <2>3. QED
      BY <2>1, <2>2 DEF WrittenAs, Span, Seg
  <1>5. Copies(x) \subseteq Seg
    BY <1>2, <1>3, <1>4 DEF Copies
  <1>6. \A a \in Seg : a.sn \in Nat /\ a.from \in Nat /\ a.to \in Nat
    BY DEF Seg
  <1>7. QED
    BY <1>5, <1>6

(* No new copy, and the queue still begins where the numbered segments end. *)
LEMMA CopyStable ==
    ASSUME Shape, Shape', NEW x \in Ends, CopyInv(x),
           Copies(x)' \subseteq Copies(x), snd_nxt'[x] = snd_nxt[x],
           sent[x] <= sent'[x], NextFrom(x)' = NextFrom(x)
    PROVE  CopyInv(x)'
  <1>1. sent[x] \in Nat /\ sent'[x] \in Nat
    BY DEF Shape
  <1>2. ASSUME NEW a \in Copies(x)
        PROVE  CopyOK(x, a)'
    <2>1. CopyOK(x, a) /\ a.to \in Nat
      BY CopiesAreSegments DEF CopyInv
    <2>2. QED
      BY <1>1, <2>1 DEF CopyOK
  <1>3. \A a, b \in Copies(x) : Agree(a, b)
    BY DEF CopyInv
  <1>4. snd_nxt'[x] = 0 => NextFrom(x)' = 1
    BY DEF CopyInv
  <1>5. QED
    BY <1>2, <1>3, <1>4 DEF CopyInv

(* Acknowledgements stay true: receivers keep what they have.               *)
LEMMA AckStable ==
    ASSUME Shape, Shape', NEW x \in Ends, AckInv(x), MoreHad(Peer(x)),
           \A m \in net' : m.to = x =>
              \/ m \in net
              \/ /\ m.una <= rcv_nxt'[Peer(x)]
                 /\ m.type = "ack" => Has(Peer(x), m.sn)',
           \A sn \in acklist'[Peer(x)] :
              sn \in acklist[Peer(x)] \/ Has(Peer(x), sn)'
    PROVE  AckInv(x)'
  <1> PICK y \in Ends : y = Peer(x)
    BY EndsFact
  <1>1. /\ rcv_nxt[y] \in Nat /\ rcv_nxt'[y] \in Nat
        /\ acklist[y] \in SUBSET Nat
    BY DEF Shape
  <1>2. ASSUME NEW m \in net', m.to = x
        PROVE  m.una <= rcv_nxt'[y] /\ (m.type = "ack" => Has(y, m.sn)')
    <2>1. CASE m \in net
      <3>1. m.una \in Nat /\ m.sn \in Nat
        BY <2>1 DEF Shape, Message
      <3>2. m.una <= rcv_nxt[y] /\ (m.type = "ack" => Has(y, m.sn))
        BY <1>2, <2>1 DEF AckInv
      <3>3. QED
        BY <1>1, <3>1, <3>2 DEF MoreHad
    <2>2. CASE m \notin net
      BY <1>2, <2>2
    <2>3. QED
      BY <2>1, <2>2
  <1>3. ASSUME NEW sn \in acklist'[y]
        PROVE  Has(y, sn)'
    <2>1. CASE sn \in acklist[y]
      BY <1>1, <2>1 DEF AckInv, MoreHad
    <2>2. QED
      BY <2>1
  <1>4. QED
    BY <1>2, <1>3 DEF AckInv

(* What the sender no longer keeps has been received.                       *)
LEMMA KeptStable ==
    ASSUME Shape, NEW x \in Ends, KeptInv(x), MoreHad(Peer(x)),
           snd_nxt'[x] = snd_nxt[x],
           \A s \in snd_buf[x] : \/ s \in snd_buf'[x]
                                 \/ Has(Peer(x), s.sn)'
    PROVE  KeptInv(x)'
  <1> SUFFICES ASSUME NEW sn \in 0 .. snd_nxt[x] - 1
               PROVE  sn \in Numbers(snd_buf'[x]) \/ Has(Peer(x), sn)'
    BY DEF KeptInv, Numbers
  <1>1. sn \in Nat
    BY ShapeAt
  <1>2. CASE Has(Peer(x), sn)
    BY <1>1, <1>2 DEF MoreHad
  <1>3. CASE sn \in Numbers(snd_buf[x])
    BY <1>3 DEF Numbers
  <1>4. QED
    BY <1>2, <1>3 DEF KeptInv

(* A direction none of whose parts a step touches, but for lost datagrams.  *)
LEMMA CopiesShrink ==
    ASSUME NEW x \in Ends, snd_buf'[x] \subseteq snd_buf[x],
           rcv_buf'[Peer(x)] = rcv_buf[Peer(x)],
           written'[Peer(x)] = written[Peer(x)],
           \A m \in net' : m.to = Peer(x) => m \in net
    PROVE  Copies(x)' \subseteq Copies(x)
  <1>1. PushesFrom(x)' \subseteq PushesFrom(x)
    BY DEF PushesFrom
  <1>2. \A i : WrittenAs(Peer(x), i)' = WrittenAs(Peer(x), i)
    BY DEF WrittenAs
  <1>3. QED
    BY <1>1, <1>2 DEF Copies

(* Steps of the other direction leave this one alone.                       *)
LEMMA StreamStable ==
    ASSUME Shape, Shape', NEW x \in Ends, StreamInv(x),
           SenderSame(x), ReceiverSame(Peer(x)),
           \A m \in net' : m.to = Peer(x) => m \in net,
           \A m \in net' : m.to = x => m \in net
    PROVE  StreamInv(x)'
  <1>1. Copies(x)' \subseteq Copies(x)
    BY CopiesShrink DEF SenderSame, ReceiverSame
  <1>2. NextFrom(x)' = NextFrom(x)
    BY DEF NextFrom, SenderSame
  <1>3. sent[x] <= sent'[x]
    BY ShapeAt DEF SenderSame
  <1>4. CopyInv(x)'
    BY <1>1, <1>2, <1>3, CopyStable DEF StreamInv, SenderSame
  <1>5. MoreHad(Peer(x))
    <2>1. rcv_nxt[Peer(x)] \in Nat
      BY EndsFact, ShapeAt
    <2>2. QED
      BY <2>1 DEF MoreHad, Has, ReceiverSame, Numbers
  <1>6. AckInv(x)'
    BY <1>5, AckStable DEF StreamInv, ReceiverSame
  <1>7. KeptInv(x)'
    BY <1>5, KeptStable DEF StreamInv, SenderSame
  <1>8. WindowInv(x)'
    BY DEF StreamInv, WindowInv, SenderSame, ReceiverSame
  <1>9. Chain(snd_queue[x], sent[x])'
    BY DEF StreamInv, SenderSame, Chain
  <1>10. QED
    BY <1>4, <1>6, <1>7, <1>8, <1>9 DEF StreamInv

-----------------------------------------------------------------------------
(* ikcp_send.                                                               *)

(* Its queue goes on from the one before, and never is empty.               *)
LEMMA SendDoes ==
    ASSUME KcpIInv, NEW x \in Ends, NEW n \in 1 .. MaxChunk, Send(x, n)
    PROVE  /\ sent'[x] = sent[x] + n
           /\ GoesOn(snd_queue'[x], snd_queue[x], sent[x], sent'[x])
           /\ \A y \in Ends : y # x => /\ sent'[y] = sent[y]
                                       /\ snd_queue'[y] = snd_queue[y]
  <1>1. sent'[x] = sent[x] + n /\ n \in Nat /\ 1 <= n
    BY DEF Send, KcpIInv, Shape
  <1>2. snd_queue'[x] = Queued(snd_queue[x], sent[x] + 1, sent[x] + n)
    BY DEF Send, KcpIInv, Shape
  <1>3. Chain(snd_queue[x], sent[x])
    BY DEF KcpIInv, StreamInv
  <1>4. snd_queue[x] \in Seq(Span) /\ sent[x] \in Nat
    BY ShapeAt DEF KcpIInv
  <1>5. GoesOn(snd_queue'[x], snd_queue[x], sent[x], sent'[x])
    BY <1>1, <1>2, <1>3, <1>4, QueuedChain
  <1>6. QED
    BY <1>1, <1>5 DEF Send, KcpIInv, Shape

(* Sending more data preserves the invariant.                               *)
LEMMA SendStep ==
    ASSUME KcpIInv, NEW x \in Ends, NEW n \in 1 .. MaxChunk, Send(x, n)
    PROVE  KcpIInv'
  <1>0. Shape
    BY DEF KcpIInv
  <1>1. Shape'
    <2>1. sent' = [sent EXCEPT ![x] = sent'[x]] /\ sent'[x] \in Nat
      BY <1>0, SendDoes, ShapeAt DEF Send, Shape
    <2>2. snd_queue' = [snd_queue EXCEPT ![x] = snd_queue'[x]]
          /\ snd_queue'[x] \in Seq(Span)
      BY <1>0, SendDoes DEF Send, Shape, GoesOn
    <2>3. sent' \in [Ends -> Nat]
      BY <1>0, <2>1 DEF Shape
    <2>4. snd_queue' \in [Ends -> Seq(Span)]
      BY <1>0, <2>2 DEF Shape
    <2>5. QED
      BY <1>0, <2>3, <2>4 DEF Shape, Send, window, receiver
  <1>2. StreamInv(x)'
    <2>1. StreamInv(x)
      BY DEF KcpIInv
    <2>2. Chain(snd_queue[x], sent[x])'
      <3>1. Chain(snd_queue'[x], sent'[x])
        BY SendDoes DEF GoesOn
      <3>2. QED
        BY <3>1 DEF Chain
    <2>3. NextFrom(x)' = NextFrom(x)
      BY SendDoes DEF GoesOn, NextFrom
    <2>4. Copies(x)' \subseteq Copies(x)
      BY CopiesShrink DEF Send, receiver
    <2>5. sent[x] <= sent'[x]
      BY <1>0, SendDoes, ShapeAt
    <2>6. CopyInv(x)'
      BY <1>0, <1>1, <2>1, <2>3, <2>4, <2>5, CopyStable DEF StreamInv, Send
    <2>7. AckInv(x)' /\ WindowInv(x)' /\ KeptInv(x)'
      BY <2>1 DEF StreamInv, AckInv, WindowInv, KeptInv, Has, Numbers, Send,
                  receiver
    <2>8. QED
      BY <2>2, <2>6, <2>7 DEF StreamInv
  <1>3. StreamInv(Peer(x))'
    <2>1. Peer(x) \in Ends /\ Peer(x) # x
      BY EndsFact
    <2>2. SenderSame(Peer(x)) /\ ReceiverSame(Peer(Peer(x)))
      BY <2>1, SendDoes DEF Send, receiver, SenderSame, ReceiverSame
    <2>3. QED
      BY <1>0, <1>1, <2>1, <2>2, StreamStable DEF KcpIInv, Send
  <1>4. QED
    BY <1>1, <1>2, <1>3, EndsFact DEF KcpIInv

-----------------------------------------------------------------------------
(* ikcp_flush.                                                              *)

NumberedAs(x, i) ==
    [sn |-> snd_nxt[x] + i - 1, from |-> snd_queue[x][i].from,
     to |-> snd_queue[x][i].to]

(* The window has room for the segments that get a number.                  *)
LEMMA AdmittedFits ==
    ASSUME Shape, NEW x \in Ends, WindowInv(x)
    PROVE  /\ Admitted(x) \in Nat /\ Admitted(x) <= Len(snd_queue[x])
           /\ snd_nxt[x] + Admitted(x) <= snd_una[x] + SndWnd
  <1>1. /\ snd_una[x] \in Nat /\ snd_nxt[x] \in Nat /\ cwnd[x] \in Nat
        /\ Len(snd_queue[x]) \in Nat
    BY ShapeAt
  <1>2. snd_nxt[x] <= snd_una[x] + SndWnd
    BY DEF WindowInv
  <1>3. PICK c \in Nat : c = Least(cwnd[x], SndWnd) /\ c <= SndWnd
    BY <1>1 DEF Least
  <1>4. PICK n \in Nat : /\ n = Most(0, snd_una[x] + c - snd_nxt[x])
                        /\ snd_nxt[x] + n <= snd_una[x] + SndWnd
    BY <1>1, <1>2, <1>3 DEF Most
  <1>5. Admitted(x) = Least(Len(snd_queue[x]), n)
    BY <1>3, <1>4 DEF Admitted
  <1>6. PICK l \in Nat : l = Len(snd_queue[x])
    BY <1>1
  <1>7. PICK a \in Nat : a = Least(l, n) /\ a <= l /\ a <= n
    BY DEF Least
  <1>8. snd_nxt[x] + a <= snd_una[x] + SndWnd
    BY <1>1, <1>4, <1>7
  <1>9. QED
    BY <1>5, <1>6, <1>7, <1>8

(* What a flush does to the side that sends.                                *)
LEMMA FlushDoes ==
    ASSUME KcpIInv, NEW x \in Ends, NEW lost, NEW fast, Flush(x, lost, fast)
    PROVE  /\ snd_buf'[x] = snd_buf[x] \cup Fresh(x)
           /\ snd_nxt'[x] = snd_nxt[x] + Admitted(x)
           /\ snd_queue'[x] = SubSeq(snd_queue[x], Admitted(x) + 1,
                                     Len(snd_queue[x]))
           /\ sent' = sent /\ snd_una' = snd_una /\ rcv_nxt' = rcv_nxt
           /\ rcv_buf' = rcv_buf /\ written' = written
           /\ acklist'[x] = {}
           /\ \A y \in Ends : y # x =>
                 /\ snd_buf'[y] = snd_buf[y] /\ snd_nxt'[y] = snd_nxt[y]
                 /\ snd_queue'[y] = snd_queue[y] /\ acklist'[y] = acklist[y]
  BY DEF Flush, KcpIInv, Shape

(* The segments that get a number, in types.                                *)
LEMMA FreshSegments ==
    ASSUME KcpIInv, NEW x \in Ends
    PROVE  /\ Fresh(x) = {NumberedAs(x, i) : i \in 1 .. Admitted(x)}
           /\ Fresh(x) \subseteq Seg /\ IsFiniteSet(Fresh(x))
           /\ \A i \in 1 .. Admitted(x) :
                 /\ i \in 1 .. Len(snd_queue[x])
                 /\ NumberedAs(x, i).sn = snd_nxt[x] + i - 1
                 /\ NumberedAs(x, i).from = snd_queue[x][i].from
                 /\ NumberedAs(x, i).to = snd_queue[x][i].to
  <1>0. Shape /\ WindowInv(x)
    BY DEF KcpIInv, StreamInv
  <1>1. Admitted(x) \in Nat /\ Admitted(x) <= Len(snd_queue[x])
    BY <1>0, AdmittedFits
  <1>2. snd_nxt[x] \in Nat /\ snd_queue[x] \in Seq(Span)
    BY <1>0, ShapeAt
  <1>3. Fresh(x) = {NumberedAs(x, i) : i \in 1 .. Admitted(x)}
    BY DEF Fresh, NumberedAs
  <1>4. ASSUME NEW i \in 1 .. Admitted(x)
        PROVE  i \in 1 .. Len(snd_queue[x]) /\ NumberedAs(x, i) \in Seg
    <2>1. i \in 1 .. Len(snd_queue[x])
      BY <1>1, <1>2
    <2>2. snd_queue[x][i] \in Span
      BY <1>2, <2>1
    <2>3. snd_nxt[x] + i - 1 \in Nat
      BY <1>1, <1>2
    <2>4. QED
      BY <2>1, <2>2, <2>3 DEF NumberedAs, Span, Seg
  <1>5. Fresh(x) \subseteq Seg
    BY <1>3, <1>4
  <1>6. IsFiniteSet(Fresh(x))
    <2> DEFINE I == 1 .. Admitted(x)
               g == [i \in I |-> NumberedAs(x, i)]
    <2>1. IsFiniteSet(I)
      BY <1>1, FS_Interval
    <2>2. g \in Surjection(I, Fresh(x))
      BY <1>3 DEF Surjection
    <2> HIDE DEF g, I
    <2>3. QED
      BY <2>1, <2>2, FS_Surjection
  <1>7. QED
    BY <1>3, <1>4, <1>5, <1>6 DEF NumberedAs

(* The rest of a sequence after its first A elements.                       *)
LEMMA RestOf ==
    ASSUME NEW S, NEW q \in Seq(S), NEW A \in Nat, NEW l \in Nat,
           l = Len(q), A <= l
    PROVE  LET r == SubSeq(q, A + 1, l)
           IN  /\ r \in Seq(S) /\ Len(r) = l - A
               /\ \A i \in 1 .. l - A : r[i] = q[A + i]
  <1> PICK r : r = SubSeq(q, A + 1, l)
    OBVIOUS
  <1>1. r \in Seq(S)
    OBVIOUS
  <1>2. Len(r) = l - A
    OBVIOUS
  <1>3. ASSUME NEW i \in 1 .. l - A
        PROVE  r[i] = q[A + i]
    <2>1. r[i] = q[i + (A + 1) - 1]
      OBVIOUS
    <2>2. QED
      BY <2>1
  <1>4. QED
    BY <1>1, <1>2, <1>3

Remains(q, r, A, l, last) ==
    /\ Chain(r, last)
    /\ r = <<>> <=> l = A
    /\ l # A => r[1] = q[A + 1]
    /\ A > 0 => q[A].to + 1 = IF r = <<>> THEN last + 1 ELSE r[1].from

(* The rest of a queue still is in order, and begins where the part before  *)
(* it ends.                                                                 *)
LEMMA RestChain ==
    ASSUME NEW q \in Seq(Span), NEW r \in Seq(Span), NEW A \in Nat,
           NEW l \in Nat, NEW last \in Nat, l = Len(q), A <= l, Chain(q, last),
           Len(r) = l - A, \A i \in 1 .. l - A : r[i] = q[A + i]
    PROVE  Remains(q, r, A, l, last)
  <1>1. ASSUME NEW i \in 1 .. l - A
        PROVE  /\ 1 <= r[i].from /\ r[i].from <= r[i].to
               /\ r[i].to <= last
               /\ i < l - A => r[i + 1].from = r[i].to + 1
               /\ i = l - A => r[i].to = last
    <2>1. A + i \in 1 .. l /\ r[i] = q[A + i]
      OBVIOUS
    <2>2. /\ 1 <= q[A + i].from /\ q[A + i].from <= q[A + i].to
          /\ q[A + i].to <= last
          /\ A + i < l => q[(A + i) + 1].from = q[A + i].to + 1
          /\ A + i = l => q[A + i].to = last
      BY <2>1 DEF Chain
    <2>3. i < l - A => i + 1 \in 1 .. l - A /\ A + (i + 1) = (A + i) + 1
      OBVIOUS
    <2>4. i < l - A => r[i + 1] = q[(A + i) + 1]
      BY <2>3
    <2>5. (i < l - A <=> A + i < l) /\ (i = l - A <=> A + i = l)
      OBVIOUS
    <2>6. QED
      BY <2>1, <2>2, <2>4, <2>5
  <1>2. Chain(r, last)
    BY <1>1 DEF Chain
  <1>3. r = <<>> <=> l = A
    <2>1. r = <<>> <=> Len(r) = 0
      OBVIOUS
    <2>2. QED
      BY <2>1
  <1>4. l # A => r[1] = q[A + 1]
    <2>1. l # A => 1 \in 1 .. l - A
      OBVIOUS
    <2>2. QED
      BY <2>1
  <1>5. A > 0 => /\ A < l => q[A + 1].from = q[A].to + 1
                 /\ A = l => q[A].to = last
    <2>1. A > 0 => A \in 1 .. l
      OBVIOUS
    <2>2. QED
      BY <2>1 DEF Chain
  <1>6. QED
    BY <1>2, <1>3, <1>4, <1>5 DEF Remains

(* The queue after a flush.                                                 *)
LEMMA FlushQueue ==
    ASSUME KcpIInv, NEW x \in Ends, NEW lost, NEW fast, Flush(x, lost, fast)
    PROVE  /\ snd_queue'[x] \in Seq(Span)
           /\ Len(snd_queue'[x]) = Len(snd_queue[x]) - Admitted(x)
           /\ Chain(snd_queue'[x], sent[x])
           /\ Admitted(x) = 0 => NextFrom(x)' = NextFrom(x)
           /\ Admitted(x) > 0 =>
                 NextFrom(x)' = snd_queue[x][Admitted(x)].to + 1
  <1> PICK A \in Nat : A = Admitted(x) /\ A <= Len(snd_queue[x])
    BY AdmittedFits DEF KcpIInv, StreamInv
  <1> PICK q \in Seq(Span) : q = snd_queue[x]
    BY ShapeAt DEF KcpIInv
  <1> PICK l \in Nat : l = Len(q)
    OBVIOUS
  <1> PICK last \in Nat : last = sent[x]
    BY ShapeAt DEF KcpIInv
  <1> PICK r : r = snd_queue'[x]
    OBVIOUS
  <1>1. r = SubSeq(q, A + 1, l)
    BY FlushDoes
  <1>2. r \in Seq(Span) /\ Len(r) = l - A
        /\ \A i \in 1 .. l - A : r[i] = q[A + i]
    BY SMTT(30), <1>1, RestOf
  <1>3. Chain(q, last)
    BY DEF KcpIInv, StreamInv
  <1>4. Remains(q, r, A, l, last)
    BY <1>2, <1>3, RestChain
  <1>5. NextFrom(x)' = IF r = <<>> THEN last + 1 ELSE r[1].from
    BY FlushDoes DEF NextFrom
  <1>6. A = 0 => NextFrom(x)' = NextFrom(x)
    <2>1. q = <<>> <=> l = 0
      OBVIOUS
    <2>2. NextFrom(x) = IF q = <<>> THEN last + 1 ELSE q[1].from
      BY DEF NextFrom
    <2>3. QED
      BY <1>4, <1>5, <2>1, <2>2 DEF Remains
  <1>7. QED
    BY <1>2, <1>4, <1>5, <1>6 DEF Remains

(* The numbered segments go on without a gap.                               *)
LEMMA FreshFollows ==
    ASSUME KcpIInv, NEW x \in Ends, NEW lost, NEW fast, Flush(x, lost, fast),
           NEW i \in 1 .. Admitted(x), NEW s, s = NumberedAs(x, i)
    PROVE  /\ CopyOK(x, s)'
           /\ \A a \in Copies(x) : Agree(a, s) /\ Agree(s, a)
           /\ \A j \in 1 .. Admitted(x) : Agree(s, NumberedAs(x, j))
  <1> PICK A \in Nat : A = Admitted(x) /\ A <= Len(snd_queue[x])
    BY AdmittedFits DEF KcpIInv, StreamInv
  <1> PICK q \in Seq(Span) : q = snd_queue[x]
    BY ShapeAt DEF KcpIInv
  <1> PICK N \in Nat : N = snd_nxt[x]
    BY ShapeAt DEF KcpIInv
  <1>1. /\ snd_nxt'[x] = N + A /\ NextFrom(x)' = q[A].to + 1
        /\ sent' = sent
    BY FlushDoes, FlushQueue
  <1>2. ASSUME NEW j \in 1 .. A
        PROVE  /\ NumberedAs(x, j).sn = N + j - 1
               /\ NumberedAs(x, j).from = q[j].from
               /\ NumberedAs(x, j).to = q[j].to
               /\ 1 <= q[j].from /\ q[j].from <= q[j].to /\ q[j].to <= sent[x]
               /\ j < A => q[j + 1].from = q[j].to + 1
    <2>1. j \in 1 .. Len(q)
      OBVIOUS
    <2>2. Chain(q, sent[x])
      BY DEF KcpIInv, StreamInv
    <2>3. /\ 1 <= q[j].from /\ q[j].from <= q[j].to /\ q[j].to <= sent[x]
          /\ j < A => q[j + 1].from = q[j].to + 1
      BY <2>1, <2>2 DEF Chain
    <2>4. QED
      BY <2>3, FreshSegments
  <1>3. NextFrom(x) = q[1].from
    BY DEF NextFrom
  <1>4. CopyInv(x)
    BY DEF KcpIInv, StreamInv
  <1>5. CopyOK(x, s)'
    <2>1. N + i - 1 < N + A
      OBVIOUS
    <2>2. N + i - 1 = 0 => q[i].from = 1
      <3>1. N + i - 1 = 0 => N = 0 /\ i = 1
        OBVIOUS
      <3>2. QED
        BY <1>3, <1>4, <3>1 DEF CopyInv
    <2>3. N + i - 1 = (N + A) - 1 => q[i].to + 1 = NextFrom(x)'
      <3>1. N + i - 1 = (N + A) - 1 => i = A
        OBVIOUS
      <3>2. QED
        BY <1>1, <3>1
    <2>4. s.sn = N + i - 1 /\ s.from = q[i].from /\ s.to = q[i].to
      BY <1>2
    <2>5. QED
      BY <1>1, <1>2, <2>1, <2>2, <2>3, <2>4 DEF CopyOK
  <1>6. ASSUME NEW a \in Copies(x)
        PROVE  Agree(a, s) /\ Agree(s, a)
    <2>1. a.sn \in Nat /\ a.to \in Nat
      BY CopiesAreSegments DEF KcpIInv
    <2>2. a.sn < N /\ (a.sn = N - 1 => a.to + 1 = q[1].from)
      BY <1>3, <1>4 DEF CopyInv, CopyOK
    <2>3. s.sn = N + i - 1 /\ s.from = q[i].from
      BY <1>2
    <2>4. a.sn # s.sn /\ a.sn # s.sn + 1
      <3>1. a.sn # N + i - 1 /\ a.sn # N + i - 1 + 1
        BY <2>1, <2>2
      <3>2. QED
        BY <2>3, <3>1
    <2>5. s.sn = a.sn + 1 => i = 1 /\ a.sn = N - 1
      <3> PICK b \in Nat : b = a.sn
        BY <2>1
      <3>1. b < N
        BY <2>2
      <3>2. N + i - 1 = b + 1 => i = 1 /\ b = N - 1
        BY SMTT(30), <3>1
      <3>3. QED
        BY <2>3, <3>2
    <2>6. QED
      BY <2>2, <2>3, <2>4, <2>5 DEF Agree
  <1>7. ASSUME NEW j \in 1 .. A
        PROVE  Agree(s, NumberedAs(x, j))
    <2>1. N + i - 1 = N + j - 1 => i = j
      OBVIOUS
    <2>2. N + j - 1 = N + i - 1 + 1 => j = i + 1 /\ i < A
      OBVIOUS
    <2> PICK t : t = NumberedAs(x, j)
      OBVIOUS
    <2>3. /\ s.sn = N + i - 1 /\ s.to = q[i].to
          /\ t.sn = N + j - 1 /\ t.from = q[j].from
      BY <1>2
    <2>4. s.sn = t.sn => s = t
      BY <2>1, <2>3
    <2>5. t.sn = s.sn + 1 => t.from = s.to + 1
      BY <1>2, <2>2, <2>3
    <2>6. QED
      BY <2>4, <2>5 DEF Agree
  <1>8. QED
    BY <1>5, <1>6, <1>7

(* The copies after a flush: those before and the fresh ones.               *)
LEMMA FlushCopies ==
    ASSUME KcpIInv, NEW x \in Ends, NEW lost, NEW fast, Flush(x, lost, fast)
    PROVE  Copies(x)' \subseteq Copies(x) \cup Fresh(x)
  <1>1. lost \cup fast \subseteq snd_buf[x]
    BY DEF Flush, Skipped
  <1>2. ASSUME NEW m \in PushesFrom(x)'
        PROVE  DataOf(m) \in Copies(x) \cup Fresh(x)
    <2>1. CASE m \in net
      BY <1>2, <2>1 DEF PushesFrom, Copies
    <2>2. CASE m \notin net
      <3>1. m.type = "push"
        BY <1>2 DEF PushesFrom
      <3>2. \A sn : Ack(x, sn).type = "ack"
        BY DEF Ack
      <3>3. PICK s \in lost \cup fast \cup Fresh(x) : m = Push(x, s)
        BY <1>2, <2>2, <3>1, <3>2 DEF PushesFrom, Flush
      <3>4. s \in Seg
        BY <1>1, <3>3, FreshSegments, ShapeAt DEF KcpIInv
      <3>5. DataOf(m) = s
        BY <3>3, <3>4 DEF DataOf, Push, Seg
      <3>6. QED
        BY <1>1, <3>3, <3>5 DEF Copies
    <2>3. QED
      BY <2>1, <2>2
  <1>3. snd_buf'[x] = snd_buf[x] \cup Fresh(x) /\ rcv_buf' = rcv_buf
        /\ written' = written
    BY FlushDoes
  <1>4. \A i : WrittenAs(Peer(x), i)' = WrittenAs(Peer(x), i)
    BY <1>3 DEF WrittenAs
  <1>5. QED
    BY <1>2, <1>3, <1>4 DEF Copies

(* A flush preserves the invariant.                                         *)
LEMMA FlushStep ==
    ASSUME KcpIInv, NEW x \in Ends, NEW lost, NEW fast, Flush(x, lost, fast)
    PROVE  KcpIInv'
  <1>0. Shape /\ StreamInv(x) /\ Peer(x) \in Ends /\ Peer(x) # x
        /\ Peer(Peer(x)) = x /\ StreamInv(Peer(x))
    BY EndsFact DEF KcpIInv
  <1> PICK A \in Nat : A = Admitted(x) /\ A <= Len(snd_queue[x])
                       /\ snd_nxt[x] + A <= snd_una[x] + SndWnd
    BY <1>0, AdmittedFits DEF StreamInv
  <1>1. ASSUME NEW m \in net'
        PROVE  \/ m \in net
               \/ /\ m \in Message /\ m.to = Peer(x)
                  /\ m.una = rcv_nxt[x]
                  /\ m.type = "ack" => m.sn \in acklist[x]
    <2>1. CASE \E sn \in acklist[x] : m = Ack(x, sn)
      BY <1>0, <2>1, ShapeAt DEF Ack, Message
    <2>2. CASE \E s \in lost \cup fast \cup Fresh(x) : m = Push(x, s)
      <3>1. PICK s \in lost \cup fast \cup Fresh(x) : m = Push(x, s)
        BY <2>2
      <3>2. lost \cup fast \subseteq snd_buf[x]
        BY DEF Flush, Skipped
      <3>3. s \in Seg
        BY <1>0, <3>1, <3>2, FreshSegments, ShapeAt
      <3>4. QED
        BY <1>0, <3>1, <3>3, ShapeAt DEF Push, Message, Seg
    <2>3. QED
      BY <2>1, <2>2 DEF Flush
  <1>2. Shape'
    <2>1. net' \in SUBSET Message
      BY <1>0, <1>1 DEF Shape
    <2>2. snd_queue' \in [Ends -> Seq(Span)]
      <3>1. snd_queue' = [snd_queue EXCEPT ![x] = snd_queue'[x]]
        BY <1>0 DEF Flush, Shape
      <3>2. QED
        BY <1>0, <3>1, FlushQueue DEF Shape
    <2>3. snd_buf' \in [Ends -> SUBSET Seg]
          /\ \A y \in Ends : IsFiniteSet(snd_buf'[y])
      <3>1. snd_buf' = [snd_buf EXCEPT ![x] = snd_buf[x] \cup Fresh(x)]
        BY DEF Flush
      <3>2. snd_buf[x] \cup Fresh(x) \in SUBSET Seg
        BY <1>0, FreshSegments, ShapeAt
      <3>3. IsFiniteSet(snd_buf[x] \cup Fresh(x))
        BY <1>0, FreshSegments, FS_Union, ShapeAt
      <3>4. QED
        BY <1>0, <3>1, <3>2, <3>3 DEF Shape
    <2>4. snd_nxt' \in [Ends -> Nat]
      <3>1. snd_nxt[x] + Admitted(x) \in Nat
        BY <1>0, ShapeAt
      <3>2. QED
        BY <1>0, <3>1 DEF Flush, Shape
    <2>5. cwnd' \in [Ends -> Nat]
      <3>1. ASSUME NEW k \in Int
            PROVE  Threshold(k) \in Nat
        BY DEF Threshold, Most
      <3>2. snd_nxt[x] + Admitted(x) - snd_una[x] \in Int /\ cwnd[x] \in Nat
        BY <1>0, ShapeAt
      <3>3. WindowAfter(x, lost, fast) \in Nat
        BY SMTT(30), <3>1, <3>2 DEF WindowAfter, Most
      <3>4. QED
        BY <1>0, <3>3 DEF Flush, Shape
    <2>6. acklist' \in [Ends -> SUBSET Nat]
      BY <1>0 DEF Flush, Shape
    <2>7. QED
      BY <1>0, <2>1, <2>2, <2>3, <2>4, <2>5, <2>6 DEF Flush, Shape
  <1>3. StreamInv(x)'
    <2>1. Chain(snd_queue[x], sent[x])'
      <3>1. Chain(snd_queue'[x], sent'[x])
        BY FlushDoes, FlushQueue
      <3>2. QED
        BY <3>1 DEF Chain
    <2>2. CopyInv(x)'
      <3>1. CopyInv(x)
        BY <1>0 DEF StreamInv
      <3>2. CASE A = 0
        <4>1. Fresh(x) = {}
          <5>1. 1 .. Admitted(x) = {}
            BY <3>2
          <5>2. QED
            BY <5>1, FreshSegments
        <4>2. snd_nxt'[x] = snd_nxt[x] /\ sent[x] <= sent'[x]
          <5>1. snd_nxt[x] \in Nat /\ sent[x] \in Nat
            BY <1>0, ShapeAt
          <5>2. snd_nxt'[x] = snd_nxt[x] + A /\ sent' = sent
            BY FlushDoes
          <5>3. QED
            BY <3>2, <5>1, <5>2
        <4>3. Copies(x)' \subseteq Copies(x) /\ NextFrom(x)' = NextFrom(x)
          BY <3>2, <4>1, FlushCopies, FlushQueue
        <4>4. QED
          BY <1>0, <1>2, <3>1, <4>2, <4>3, CopyStable
      <3>3. CASE A > 0
        <4>1. ASSUME NEW a \in Copies(x)
              PROVE  CopyOK(x, a)'
          <5>1. a.sn \in Nat /\ CopyOK(x, a)
            BY <1>0, <3>1, CopiesAreSegments DEF CopyInv
          <5>2. snd_nxt'[x] = snd_nxt[x] + A /\ sent' = sent
                /\ snd_nxt[x] \in Nat
            BY <1>0, FlushDoes, ShapeAt
          <5>3. QED
            BY <3>3, <5>1, <5>2 DEF CopyOK
        <4>2. \A a \in Copies(x)' : CopyOK(x, a)'
          <5>1. ASSUME NEW a \in Fresh(x)
                PROVE  CopyOK(x, a)'
            <6>1. PICK i \in 1 .. Admitted(x) : a = NumberedAs(x, i)
              BY FreshSegments
            <6>2. QED
              BY <6>1, FreshFollows
          <5>2. QED
            BY <4>1, <5>1, FlushCopies
        <4>3. \A a, b \in Copies(x)' : Agree(a, b)
          <5>1. ASSUME NEW a \in Copies(x) \cup Fresh(x),
                       NEW b \in Copies(x) \cup Fresh(x)
                PROVE  Agree(a, b)
            <6>1. CASE a \in Copies(x) /\ b \in Copies(x)
              BY <3>1, <6>1 DEF CopyInv
            <6>2. CASE a \in Fresh(x)
              BY <5>1, <6>2, FreshSegments, FreshFollows
            <6>3. CASE b \in Fresh(x) /\ a \in Copies(x)
              BY <5>1, <6>3, FreshSegments, FreshFollows
            <6>4. QED
              BY <5>1, <6>1, <6>2, <6>3
          <5>2. QED
            BY <5>1, FlushCopies
        <4>4. snd_nxt'[x] # 0
          BY <1>0, <3>3, FlushDoes, ShapeAt
        <4>5. QED
          BY <4>2, <4>3, <4>4 DEF CopyInv, Agree
      <3>4. QED
        BY <3>2, <3>3
    <2>3. MoreHad(Peer(x))
      <3>1. rcv_nxt[Peer(x)] \in Nat
        BY <1>0, ShapeAt
      <3>2. QED
        BY <3>1, FlushDoes DEF MoreHad, Has, Numbers
    <2>4. AckInv(x)'
      <3>1. \A m \in net' : m.to = x => m \in net
        BY <1>0, <1>1
      <3>2. acklist'[Peer(x)] = acklist[Peer(x)]
        BY <1>0, FlushDoes
      <3>3. QED
        BY <1>0, <1>2, <2>3, <3>1, <3>2, AckStable DEF StreamInv
    <2>5. WindowInv(x)'
      <3>1. /\ snd_una[x] \in Nat /\ snd_nxt[x] \in Nat
            /\ snd_nxt'[x] = snd_nxt[x] + A /\ snd_una' = snd_una
        BY <1>0, FlushDoes, ShapeAt
      <3>2. WindowInv(x)
        BY <1>0 DEF StreamInv
      <3>3. \A s \in Fresh(x) : s.sn >= snd_una[x]
        BY <3>1, <3>2, FreshSegments DEF WindowInv
      <3>4. \A s \in snd_buf'[x] : s.sn >= snd_una[x]
        BY <3>2, <3>3, FlushDoes DEF WindowInv
      <3>5. snd_una[x] <= snd_nxt'[x] /\ snd_nxt'[x] <= snd_una[x] + SndWnd
        BY <3>1, <3>2 DEF WindowInv
      <3>6. rcv_nxt' = rcv_nxt /\ rcv_buf' = rcv_buf /\ written' = written
        BY FlushDoes
      <3>7. QED
        BY <3>1, <3>2, <3>4, <3>5, <3>6 DEF WindowInv
    <2>6. KeptInv(x)'
      <3> SUFFICES ASSUME NEW sn \in 0 .. (snd_nxt[x] + A) - 1
                   PROVE  sn \in Numbers(snd_buf'[x]) \/ Has(Peer(x), sn)'
        BY FlushDoes DEF KeptInv, Numbers
      <3>1. snd_nxt[x] \in Nat /\ sn \in Nat
        BY <1>0, ShapeAt
      <3>2. CASE sn < snd_nxt[x]
        <4>1. sn \in Numbers(snd_buf[x]) \/ Has(Peer(x), sn)
          BY <1>0, <3>1, <3>2 DEF StreamInv, KeptInv
        <4>2. sn \in Numbers(snd_buf[x]) => sn \in Numbers(snd_buf'[x])
          BY FlushDoes DEF Numbers
        <4>3. QED
          BY <2>3, <3>1, <4>1, <4>2 DEF MoreHad
      <3>3. CASE sn >= snd_nxt[x]
        <4> PICK i \in 1 .. A : i = sn - snd_nxt[x] + 1
          BY <3>1, <3>3
        <4>0. /\ NumberedAs(x, i) \in Fresh(x)
              /\ NumberedAs(x, i).sn = snd_nxt[x] + i - 1
          BY FreshSegments
        <4>1. NumberedAs(x, i) \in Fresh(x) /\ NumberedAs(x, i).sn = sn
          BY <3>1, <4>0
        <4>2. QED
          BY <4>1, FlushDoes DEF Numbers
      <3>4. QED
        BY <3>1, <3>2, <3>3
    <2>7. QED
      BY <2>1, <2>2, <2>4, <2>5, <2>6 DEF StreamInv
  <1>4. StreamInv(Peer(x))'
    <2> PICK y \in Ends : y = Peer(x) /\ y # x /\ Peer(y) = x
      BY <1>0
    <2>1. SenderSame(y)
      BY FlushDoes DEF SenderSame
    <2>2. MoreHad(x)
      <3>1. rcv_nxt[x] \in Nat
        BY <1>0, ShapeAt
      <3>2. QED
        BY <3>1, FlushDoes DEF MoreHad, Has, Numbers
    <2>3. AckInv(y)'
      <3>1. acklist'[x] = {} /\ rcv_nxt'[x] = rcv_nxt[x] /\ rcv_nxt[x] \in Nat
        BY <1>0, FlushDoes, ShapeAt
      <3>2. \A sn \in acklist[x] : Has(x, sn)
        BY <1>0 DEF StreamInv, AckInv
      <3>3. ASSUME NEW m \in net', m.to = y, m \notin net
            PROVE  m.una <= rcv_nxt'[x] /\ (m.type = "ack" => Has(x, m.sn)')
        <4>1. m.una = rcv_nxt[x] /\ (m.type = "ack" => m.sn \in acklist[x])
          BY <1>1, <3>3
        <4>2. m.sn \in acklist[x] => m.sn \in Nat
          BY <1>0, ShapeAt
        <4>3. QED
          BY <2>2, <3>1, <3>2, <4>1, <4>2 DEF MoreHad
      <3>4. AckInv(y)
        BY <1>0 DEF StreamInv
      <3>5. QED
        BY <1>0, <1>2, <2>2, <3>1, <3>3, <3>4, AckStable
    <2>4. CopyInv(y)'
      <3>1. \A m \in net' : m.to = x => m \in net
        BY <1>0, <1>1
      <3>2. Copies(y)' \subseteq Copies(y)
        BY <2>1, <3>1, CopiesShrink, FlushDoes DEF SenderSame
      <3>3. NextFrom(y)' = NextFrom(y)
        BY <2>1 DEF SenderSame, NextFrom
      <3>4. sent[y] <= sent'[y] /\ snd_nxt'[y] = snd_nxt[y]
        BY <1>0, <2>1, ShapeAt DEF SenderSame
      <3>5. CopyInv(y)
        BY <1>0 DEF StreamInv
      <3>6. QED
        BY <1>0, <1>2, <3>2, <3>3, <3>4, <3>5, CopyStable
    <2>5. KeptInv(y)'
      <3>1. KeptInv(y)
        BY <1>0 DEF StreamInv
      <3>2. QED
        BY <1>0, <2>1, <2>2, <3>1, KeptStable DEF SenderSame
    <2>6. WindowInv(y)'
      BY <1>0, <2>1, FlushDoes DEF StreamInv, WindowInv, SenderSame
    <2>7. Chain(snd_queue[y], sent[y])'
      BY <1>0, <2>1 DEF StreamInv, Chain, SenderSame
    <2>8. QED
      BY <2>3, <2>4, <2>5, <2>6, <2>7 DEF StreamInv
  <1>5. QED
    BY <1>0, <1>2, <1>3, <1>4, EndsFact DEF KcpIInv

-----------------------------------------------------------------------------
(* ikcp_input: the side that sends.                                         *)

(* ikcp_shrink_buf finds the first number that is still kept, and snd_una   *)
(* never goes back.                                                         *)
LEMMA UnaAdvances ==
    ASSUME KcpIInv, NEW x \in Ends, NEW buf \in SUBSET snd_buf[x],
           NEW u, u = FirstUnacked(x, buf)
    PROVE  /\ u \in Nat /\ snd_una[x] <= u /\ u <= snd_nxt[x]
           /\ \A s \in buf : s.sn >= u
  <1>1. Shape /\ WindowInv(x) /\ CopyInv(x)
    BY DEF KcpIInv, StreamInv
  <1>2. snd_una[x] \in Nat /\ snd_nxt[x] \in Nat /\ buf \in SUBSET Seg
    BY <1>1, ShapeAt
  <1>3. CASE buf = {}
    BY <1>1, <1>2, <1>3 DEF FirstUnacked, WindowInv
  <1>4. CASE buf # {}
    <2> DEFINE S == {s.sn : s \in buf}
    <2>1. S \in SUBSET Nat /\ S # {}
      BY <1>2, <1>4 DEF Seg
    <2>2. \E n \in S : \A j \in S : n <= j
      <3> HIDE DEF S
      <3>1. QED
        BY <2>1, LeastNumber
    <2>3. \E n \in S : \A s \in buf : n <= s.sn
      BY <2>2
    <2>4. u \in S /\ \A s \in buf : u <= s.sn
      BY <1>4, <2>3 DEF FirstUnacked
    <2>5. PICK s \in buf : u = s.sn
      BY <2>4
    <2>6. s.sn \in Nat /\ s.sn >= snd_una[x] /\ s.sn < snd_nxt[x]
      BY <1>1, <1>2 DEF WindowInv, CopyInv, CopyOK, Copies, Seg
    <2>7. \A t \in buf : t.sn >= u
      BY <1>2, <2>4, <2>5, <2>6 DEF Seg
    <2>8. QED
      BY <1>2, <2>5, <2>6, <2>7
  <1>5. QED
    BY <1>3, <1>4

(* What ikcp_parse_una and ikcp_parse_ack do to the side that sends.        *)
LEMMA AcksDo ==
    ASSUME KcpIInv, NEW x \in Ends, NEW m, InputAcks(x, m)
    PROVE  /\ snd_buf'[x] = Unacked(x, m)
           /\ snd_una'[x] = FirstUnacked(x, Unacked(x, m))
           /\ \A y \in Ends : y # x => /\ snd_buf'[y] = snd_buf[y]
                                       /\ snd_una'[y] = snd_una[y]
           /\ snd_buf' = [snd_buf EXCEPT ![x] = Unacked(x, m)]
           /\ snd_una' = [snd_una EXCEPT ![x] = FirstUnacked(x, Unacked(x, m))]
           /\ cwnd' \in [Ends -> Nat]
  <1>1. /\ snd_buf' = [snd_buf EXCEPT ![x] = Unacked(x, m)]
        /\ snd_una' = [snd_una EXCEPT ![x] = FirstUnacked(x, Unacked(x, m))]
    BY DEF InputAcks
  <1>2. cwnd[x] \in Nat
    BY ShapeAt DEF KcpIInv
  <1>3. Grown(x) \subseteq Nat
    BY <1>2 DEF Grown, Least
  <1>4. \E w \in Nat : cwnd' = [cwnd EXCEPT ![x] = w]
    BY <1>2, <1>3 DEF InputAcks
  <1>5. cwnd' \in [Ends -> Nat]
    BY <1>4 DEF KcpIInv, Shape
  <1>6. QED
    BY <1>1, <1>5 DEF KcpIInv, Shape

(* The direction from x after x has taken an acknowledgement.               *)
LEMMA InputSender ==
    ASSUME KcpIInv, Shape', NEW x \in Ends, NEW m \in net, m.to = x,
           InputAcks(x, m), net' \subseteq net, ReceiverSame(Peer(x)),
           sent' = sent, snd_queue' = snd_queue, snd_nxt' = snd_nxt
    PROVE  StreamInv(x)'
  <1>0. Shape /\ StreamInv(x)
    BY DEF KcpIInv
  <1>1. snd_buf'[x] = Unacked(x, m) /\ Unacked(x, m) \in SUBSET snd_buf[x]
    <2>1. snd_buf'[x] = Unacked(x, m)
      BY AcksDo
    <2>2. Unacked(x, m) \in SUBSET snd_buf[x]
      BY DEF Unacked
    <2>3. QED
      BY <2>1, <2>2
  <1>2. CopyInv(x)'
    <2>1. Copies(x)' \subseteq Copies(x)
      BY <1>1, CopiesShrink DEF ReceiverSame
    <2>2. NextFrom(x)' = NextFrom(x)
      BY DEF NextFrom
    <2>3. sent[x] <= sent'[x]
      BY <1>0, ShapeAt
    <2>4. QED
      BY <1>0, <2>1, <2>2, <2>3, CopyStable DEF StreamInv
  <1>3. MoreHad(Peer(x))
    <2>1. rcv_nxt[Peer(x)] \in Nat
      BY <1>0, EndsFact, ShapeAt
    <2>2. QED
      BY <2>1 DEF MoreHad, Has, Numbers, ReceiverSame
  <1>4. AckInv(x)'
    BY <1>0, <1>3, AckStable DEF StreamInv, ReceiverSame
  <1>5. KeptInv(x)'
    <2>1. ASSUME NEW s \in snd_buf[x], s \notin snd_buf'[x]
          PROVE  Has(Peer(x), s.sn)'
      <3> PICK y \in Ends : y = Peer(x)
        BY EndsFact
      <3>1. s.sn \in Nat /\ rcv_nxt[y] \in Nat /\ m.una \in Nat
        BY <1>0, ShapeAt DEF Shape, Message, Seg
      <3>2. m.una <= rcv_nxt[y] /\ (m.type = "ack" => Has(y, m.sn))
        BY <1>0 DEF StreamInv, AckInv
      <3>3. s.sn < m.una \/ (m.type = "ack" /\ s.sn = m.sn)
        BY <1>1, <2>1, <3>1 DEF Unacked
      <3>4. Has(y, s.sn)
        BY <3>1, <3>2, <3>3 DEF Has
      <3>5. QED
        BY <1>3, <3>1, <3>4 DEF MoreHad
    <2>2. QED
      BY <1>0, <1>3, <2>1, KeptStable DEF StreamInv
  <1>6. WindowInv(x)'
    <2> PICK u : u = FirstUnacked(x, Unacked(x, m))
      OBVIOUS
    <2>1. /\ u \in Nat /\ snd_una[x] <= u /\ u <= snd_nxt[x]
          /\ \A s \in snd_buf'[x] : s.sn >= u
      BY <1>1, UnaAdvances
    <2>2. snd_una'[x] = u
      BY AcksDo
    <2>3. WindowInv(x) /\ snd_una[x] \in Nat /\ snd_nxt[x] \in Nat
      BY <1>0, ShapeAt DEF StreamInv
    <2>4. QED
      BY <2>1, <2>2, <2>3 DEF WindowInv, ReceiverSame
  <1>7. Chain(snd_queue[x], sent[x])'
    BY <1>0 DEF StreamInv, Chain
  <1>8. QED
    BY <1>2, <1>4, <1>5, <1>6, <1>7 DEF StreamInv

-----------------------------------------------------------------------------
(* ikcp_input: the side that receives.                                      *)

(* What may be in rcv_buf after ikcp_parse_data.                            *)
LEMMA ArrivedFacts ==
    ASSUME KcpIInv, NEW x \in Ends, NEW m \in net, m.to = x,
           m.type = "push"
    PROVE  /\ Arrived(x, m) \subseteq Copies(Peer(x))
           /\ Arrived(x, m) \in SUBSET Seg
           /\ rcv_buf[x] \subseteq Arrived(x, m)
           /\ \A s \in Arrived(x, m) :
                 rcv_nxt[x] <= s.sn /\ s.sn < snd_nxt[Peer(x)]
           /\ \A s, t \in Arrived(x, m) : s.sn = t.sn => s = t
           /\ \A s \in Arrived(x, m) : s.sn # rcv_nxt[x] => s.sn > rcv_nxt[x]
           /\ m.sn >= rcv_nxt[x] /\ m.sn < rcv_nxt[x] + RcvWnd =>
                 m.sn \in Numbers(Arrived(x, m))
  <1> PICK y \in Ends : y = Peer(x) /\ Peer(y) = x
    BY EndsFact
  <1>0. Shape /\ CopyInv(y) /\ WindowInv(y)
    BY DEF KcpIInv, StreamInv
  <1>1. /\ rcv_nxt[x] \in Nat /\ snd_nxt[y] \in Nat /\ rcv_buf[x] \subseteq Seg
        /\ m.sn \in Nat /\ m \in Message
    BY <1>0, ShapeAt DEF Shape, Message
  <1>2. DataOf(m) \in Copies(y) /\ DataOf(m) \in Seg /\ DataOf(m).sn = m.sn
    <2>1. m \in PushesFrom(y)
      BY DEF PushesFrom
    <2>2. QED
      BY <1>1, <2>1 DEF Copies, DataOf, Seg, Message
  <1>3. Arrived(x, m) \subseteq rcv_buf[x] \cup {DataOf(m)}
        /\ rcv_buf[x] \subseteq Arrived(x, m)
    BY DEF Arrived, DataOf
  <1>4. rcv_buf[x] \subseteq Copies(y)
    BY DEF Copies
  <1>5. Arrived(x, m) \subseteq Copies(y) /\ Arrived(x, m) \in SUBSET Seg
    BY <1>1, <1>2, <1>3, <1>4
  <1>6. ASSUME NEW s \in Arrived(x, m)
        PROVE  rcv_nxt[x] <= s.sn /\ s.sn < snd_nxt[y] /\ s.sn \in Nat
    <2>1. s.sn \in Nat
      BY <1>5 DEF Seg
    <2>2. s.sn < snd_nxt[y]
      BY <1>0, <1>5 DEF CopyInv, CopyOK
    <2>3. CASE s \in rcv_buf[x]
      BY <1>0, <1>1, <2>1, <2>2, <2>3 DEF WindowInv
    <2>4. CASE s \notin rcv_buf[x]
      BY <1>1, <2>1, <2>2, <2>4 DEF Arrived
    <2>5. QED
      BY <2>3, <2>4
  <1>7. \A s, t \in Arrived(x, m) : s.sn = t.sn => s = t
    BY <1>0, <1>5 DEF CopyInv, Agree
  <1>8. ASSUME m.sn >= rcv_nxt[x], m.sn < rcv_nxt[x] + RcvWnd
        PROVE  m.sn \in Numbers(Arrived(x, m))
    <2>1. m.sn \in rcv_nxt[x] .. rcv_nxt[x] + RcvWnd - 1
      BY <1>1, <1>8
    <2>2. CASE m.sn \in Numbers(rcv_buf[x])
      BY <1>3, <2>2 DEF Numbers
    <2>3. CASE m.sn \notin Numbers(rcv_buf[x])
      <3>1. DataOf(m) \in Arrived(x, m)
        BY <2>1, <2>3 DEF Arrived, DataOf
      <3>2. QED
        BY <1>2, <3>1 DEF Numbers
    <2>4. QED
      BY <2>2, <2>3
  <1>9. QED
    BY <1>1, <1>3, <1>5, <1>6, <1>7, <1>8

(* A function on 1 .. k is a sequence.                                      *)
LEMMA SeqOfFunction ==
    ASSUME NEW S, NEW k \in Nat, NEW d \in [1 .. k -> S]
    PROVE  d \in Seq(S) /\ Len(d) = k
  OBVIOUS

(* v is w followed by d.                                                    *)
JoinOf(v, w, d) ==
    /\ v \in Seq(Span) /\ Len(v) = Len(w) + Len(d)
    /\ \A i \in 1 .. Len(w) : v[i] = w[i]
    /\ \A i \in 1 .. Len(d) : v[Len(w) + i] = d[i]

(* Appending the data of one datagram to what is written.                   *)
LEMMA Joined ==
    ASSUME NEW w \in Seq(Span), NEW d \in Seq(Span)
    PROVE  JoinOf(w \o d, w, d)
  BY DEF JoinOf

(* The receiver takes everything before the first missing number e.         *)
Takes(x, m, e) ==
    /\ e \in Nat /\ rcv_nxt'[x] = e /\ rcv_nxt[x] <= e
    /\ e \notin Numbers(Arrived(x, m))
    /\ \A n \in rcv_nxt[x] .. e - 1 : n \in Numbers(Arrived(x, m))
    /\ rcv_buf'[x] = {s \in Arrived(x, m) : s.sn >= e}
    /\ written'[x] \in Seq(Span) /\ Len(written'[x]) = e
    /\ \A i \in 1 .. rcv_nxt[x] : written'[x][i] = written[x][i]
    /\ \A i \in rcv_nxt[x] + 1 .. e : WrittenAs(x, i)' \in Arrived(x, m)
    /\ acklist'[x] = acklist[x] \cup AckDue(x, m)

TakenData(x, m, sn) ==
    LET s == CHOOSE t \in DueOf(Arrived(x, m), rcv_nxt[x]) : t.sn = sn
    IN  [from |-> s.from, to |-> s.to]

(* What ikcp_parse_data and redp2p_stream_drain do.                         *)
LEMMA InputTakes ==
    ASSUME KcpIInv, NEW x \in Ends, NEW m \in net, m.to = x,
           m.type = "push", InputPush(x, m)
    PROVE  \E e \in Nat : Takes(x, m, e)
  <1> PICK y \in Ends : y = Peer(x) /\ Peer(y) = x
    BY EndsFact
  <1>0. Shape /\ WindowInv(y)
    BY DEF KcpIInv, StreamInv
  <1> PICK r \in Nat : r = rcv_nxt[x]
    BY <1>0, ShapeAt
  <1> PICK buf \in SUBSET Seg : buf = Arrived(x, m)
    BY ArrivedFacts
  <1> PICK w \in Seq(Span) : w = written[x] /\ Len(w) = r
    BY <1>0, ShapeAt DEF WindowInv
  <1>1. PICK e \in Nat : DueUpTo(buf, r, e)
    <2>1. /\ \A s \in buf : r <= s.sn /\ s.sn < snd_nxt[y]
          /\ \A s, t \in buf : s.sn = t.sn => s = t
          /\ snd_nxt[y] \in Nat
      BY <1>0, ArrivedFacts, ShapeAt
    <2>2. QED
      BY <2>1, DuePrefix
  <1>2. /\ r <= e /\ e \notin Numbers(buf)
        /\ \A n \in r .. e - 1 : n \in Numbers(buf)
        /\ DueOf(buf, r) = {s \in buf : s.sn < e}
        /\ Cardinality(DueOf(buf, r)) = e - r
    BY <1>1 DEF DueUpTo
  <1>3. /\ acklist' = [acklist EXCEPT ![x] = @ \cup AckDue(x, m)]
        /\ rcv_buf' = [rcv_buf EXCEPT ![x] = buf \ DueOf(buf, r)]
        /\ rcv_nxt' = [rcv_nxt EXCEPT ![x] = @ + Cardinality(DueOf(buf, r))]
        /\ written' = [written EXCEPT ![x] = @ \o
              [i \in 1 .. Cardinality(DueOf(buf, r)) |->
                  TakenData(x, m, r + i - 1)]]
    BY DEF InputPush, TakenData, DueOf
  <1> PICK k \in Nat : k = e - r
    BY <1>2
  <1>d. PICK d : d = [i \in 1 .. k |-> TakenData(x, m, r + i - 1)]
    OBVIOUS
  <1>4. /\ acklist'[x] = acklist[x] \cup AckDue(x, m)
        /\ rcv_buf'[x] = buf \ DueOf(buf, r)
        /\ rcv_nxt'[x] = r + k
        /\ written'[x] = w \o d
    BY <1>0, <1>2, <1>3, <1>d DEF Shape
  <1>5. ASSUME NEW i \in 1 .. k
        PROVE  \E s \in buf : /\ s.sn = r + i - 1
                              /\ d[i] = [from |-> s.from, to |-> s.to]
    <2>1. r + i - 1 \in r .. e - 1
      BY <1>2
    <2>2. PICK t \in buf : t.sn = r + i - 1
      BY <1>2, <2>1 DEF Numbers
    <2>3. t \in DueOf(buf, r)
      BY <1>2, <2>1, <2>2
    <2> PICK s : s = CHOOSE v \in DueOf(buf, r) : v.sn = r + i - 1
      OBVIOUS
    <2>4. s \in DueOf(buf, r) /\ s.sn = r + i - 1
      BY <2>2, <2>3
    <2>5. s \in buf
      BY <2>4 DEF DueOf
    <2>6. TakenData(x, m, r + i - 1) = [from |-> s.from, to |-> s.to]
      BY DEF TakenData
    <2>7. d[i] = TakenData(x, m, r + i - 1)
      BY <1>d
    <2>8. QED
      BY <2>4, <2>5, <2>6, <2>7
  <1>6. d \in Seq(Span) /\ Len(d) = k
    <2>1. ASSUME NEW i \in 1 .. k
          PROVE  d[i] \in Span
      <3>1. PICK s \in buf : d[i] = [from |-> s.from, to |-> s.to]
        BY <1>5
      <3>2. QED
        BY <3>1 DEF Seg, Span
    <2>2. d \in [1 .. k -> Span]
      BY <1>d, <2>1
    <2>3. QED
      BY <2>2, SeqOfFunction
  <1>v. PICK v : v = w \o d
    OBVIOUS
  <1>7. /\ v \in Seq(Span) /\ Len(v) = r + k
        /\ \A i \in 1 .. r : v[i] = w[i]
        /\ \A i \in 1 .. k : v[r + i] = d[i]
    <2>1. JoinOf(v, w, d)
      BY <1>6, <1>v, Joined
    <2>2. QED
      BY <1>6, <2>1 DEF JoinOf
  <1>8. ASSUME NEW i \in r + 1 .. e
        PROVE  WrittenAs(x, i)' \in buf
    <2>0. i - r \in 1 .. k /\ r + (i - r) = i
      BY SMTT(30)
    <2> PICK j \in 1 .. k : j = i - r /\ r + j = i
      BY <2>0
    <2>1. PICK s \in buf : /\ s.sn = r + j - 1
                           /\ d[j] = [from |-> s.from, to |-> s.to]
      BY <1>5
    <2>2. v[i] = d[j]
      BY <1>7
    <2>3. WrittenAs(x, i)' = [sn |-> i - 1, from |-> v[i].from, to |-> v[i].to]
      BY <1>4, <1>v DEF WrittenAs
    <2>4. WrittenAs(x, i)' = [sn |-> s.sn, from |-> s.from, to |-> s.to]
      <3>1. i - 1 = s.sn
        BY SMTT(30), <2>1
      <3>2. v[i].from = s.from /\ v[i].to = s.to
        BY <2>1, <2>2
      <3>3. QED
        BY <2>3, <3>1, <3>2
    <2>5. QED
      BY <2>4 DEF Seg
  <1>9. buf \ DueOf(buf, r) = {s \in buf : s.sn >= e}
    <2>1. \A s \in buf : s.sn \in Nat
      BY DEF Seg
    <2>2. \A s \in buf : s.sn >= e <=> ~(s.sn < e)
      BY <2>1
    <2>3. QED
      BY <1>2, <2>2
  <1>10. r + k = e
    BY <1>2
  <1>11. Takes(x, m, e)
    BY SMTT(30), <1>2, <1>4, <1>7, <1>8, <1>9, <1>10, <1>v DEF Takes
  <1>12. QED
    BY <1>11

(* The direction to x after x has taken a data segment: what x has it       *)
(* keeps, and it acknowledges only what it has.                             *)
LEMMA InputReceiver ==
    ASSUME KcpIInv, Shape', NEW x \in Ends, NEW m \in net, m.to = x,
           m.type = "push", NEW e \in Nat, Takes(x, m, e),
           SenderSame(Peer(x)), net' \subseteq net
    PROVE  StreamInv(Peer(x))'
  <1> PICK y \in Ends : y = Peer(x) /\ Peer(y) = x
    BY EndsFact
  <1>0. Shape /\ StreamInv(y)
    BY DEF KcpIInv
  <1> PICK r \in Nat : r = rcv_nxt[x]
    BY <1>0, ShapeAt
  <1> PICK buf \in SUBSET Seg : buf = Arrived(x, m)
    BY ArrivedFacts
  <1>1. /\ rcv_nxt'[x] = e /\ r <= e /\ e \notin Numbers(buf)
        /\ rcv_buf'[x] = {s \in buf : s.sn >= e}
        /\ Len(written'[x]) = e /\ acklist'[x] = acklist[x] \cup AckDue(x, m)
    BY DEF Takes
  <1>2. \A s \in buf : s.sn \in Nat
    BY DEF Seg
  <1>3. rcv_buf[x] \subseteq buf
    BY ArrivedFacts
  <1>4. ASSUME NEW sn \in Nat, sn < e \/ sn \in Numbers(buf)
        PROVE  Has(x, sn)'
    <2>1. CASE sn < e
      BY <1>1, <2>1 DEF Has
    <2>2. CASE sn >= e /\ sn \in Numbers(buf)
      <3>1. PICK s \in buf : s.sn = sn
        BY <2>2 DEF Numbers
      <3>2. s \in rcv_buf'[x]
        BY <1>1, <2>2, <3>1
      <3>3. QED
        BY <3>1, <3>2 DEF Has, Numbers
    <2>3. QED
      BY <1>4, <2>1, <2>2
  <1>5. MoreHad(x)
    <2>1. ASSUME NEW sn \in Nat, Has(x, sn)
          PROVE  sn < e \/ sn \in Numbers(buf)
      BY <1>1, <1>3, <2>1 DEF Has, Numbers
    <2>2. QED
      BY <1>1, <1>4, <2>1 DEF MoreHad
  <1>6. CopyInv(y)'
    <2>1. Copies(y)' \subseteq Copies(y)
      <3>1. snd_buf'[y] = snd_buf[y]
        BY DEF SenderSame
      <3>2. buf \subseteq Copies(y)
        BY ArrivedFacts
      <3>3. rcv_buf'[x] \subseteq Copies(y)
        BY <1>1, <3>2
      <3>4. PushesFrom(y)' \subseteq PushesFrom(y)
        BY DEF PushesFrom
      <3>5. ASSUME NEW i \in 1 .. e
            PROVE  WrittenAs(x, i)' \in Copies(y)
        <4>1. CASE i <= r
          <5>1. i \in 1 .. r /\ Len(written[x]) = r
            BY <1>0, <4>1 DEF StreamInv, WindowInv
          <5>2. WrittenAs(x, i)' = WrittenAs(x, i)
            BY <5>1 DEF Takes, WrittenAs
          <5>3. QED
            BY <5>1, <5>2 DEF Copies
        <4>2. CASE i > r
          <5>1. i \in r + 1 .. e
            BY <4>2
          <5>2. QED
            BY <3>2, <5>1 DEF Takes
        <4>3. QED
          BY <4>1, <4>2
      <3>6. QED
        BY <1>1, <3>1, <3>3, <3>4, <3>5 DEF Copies
    <2>2. NextFrom(y)' = NextFrom(y)
      BY DEF NextFrom, SenderSame
    <2>3. sent[y] <= sent'[y] /\ snd_nxt'[y] = snd_nxt[y]
      BY <1>0, ShapeAt DEF SenderSame
    <2>4. CopyInv(y)
      BY <1>0 DEF StreamInv
    <2>5. QED
      BY <1>0, <2>1, <2>2, <2>3, <2>4, CopyStable
  <1>7. AckInv(y)'
    <2>1. ASSUME NEW sn \in AckDue(x, m)
          PROVE  Has(x, sn)'
      <3>1. sn = m.sn /\ m.sn \in Nat /\ m.sn < r + RcvWnd
        BY <1>0, <2>1 DEF AckDue, Shape, Message
      <3>2. m.sn >= r => m.sn \in Numbers(buf)
        BY <3>1, ArrivedFacts
      <3>3. sn < e \/ sn \in Numbers(buf)
        BY <1>1, <3>1, <3>2
      <3>4. QED
        BY <1>4, <3>1, <3>3
    <2>2. \A sn \in acklist'[x] : sn \in acklist[x] \/ Has(x, sn)'
      BY <1>1, <2>1
    <2>3. AckInv(y)
      BY <1>0 DEF StreamInv
    <2>4. QED
      BY <1>0, <1>5, <2>2, <2>3, AckStable
  <1>8. KeptInv(y)'
    <2>1. KeptInv(y) /\ snd_nxt'[y] = snd_nxt[y] /\ snd_buf'[y] = snd_buf[y]
      BY <1>0 DEF StreamInv, SenderSame
    <2>2. QED
      BY <1>0, <1>5, <2>1, KeptStable
  <1>9. WindowInv(y)'
    <2>1. \A s \in rcv_buf'[x] : s.sn > e
      <3> SUFFICES ASSUME NEW s \in rcv_buf'[x]
                   PROVE  s.sn > e
        OBVIOUS
      <3>1. s \in buf /\ s.sn >= e
        BY <1>1
      <3>2. s.sn # e /\ s.sn \in Nat
        BY <1>1, <1>2, <3>1 DEF Numbers
      <3>3. QED
        BY <3>1, <3>2
    <2>2. QED
      BY <1>0, <1>1, <2>1 DEF StreamInv, WindowInv, SenderSame
  <1>10. Chain(snd_queue[y], sent[y])'
    BY SMTT(30), <1>0 DEF StreamInv, Chain, SenderSame
  <1>11. QED
    BY <1>6, <1>7, <1>8, <1>9, <1>10 DEF StreamInv

(* The types after a datagram.                                              *)
LEMMA InputShape ==
    ASSUME KcpIInv, NEW m \in net, Input(m.to, m), net' \subseteq net
    PROVE  Shape'
  <1>0. Shape
    BY DEF KcpIInv
  <1> PICK x \in Ends : x = m.to
    BY <1>0 DEF Shape, Message
  <1>1. InputAcks(x, m)
    BY DEF Input
  <1>2. Unacked(x, m) \in SUBSET snd_buf[x]
    BY DEF Unacked
  <1>3. snd_buf' \in [Ends -> SUBSET Seg]
        /\ \A z \in Ends : IsFiniteSet(snd_buf'[z])
    <2>1. Unacked(x, m) \in SUBSET Seg /\ IsFiniteSet(Unacked(x, m))
      BY <1>0, <1>2, FS_Subset, ShapeAt
    <2>2. snd_buf' = [snd_buf EXCEPT ![x] = Unacked(x, m)]
      BY <1>1, AcksDo
    <2>3. QED
      BY <1>0, <2>1, <2>2 DEF Shape
  <1>4. snd_una' \in [Ends -> Nat] /\ cwnd' \in [Ends -> Nat]
    <2>1. FirstUnacked(x, Unacked(x, m)) \in Nat
      BY <1>2, UnaAdvances
    <2>2. snd_una' = [snd_una EXCEPT ![x] = FirstUnacked(x, Unacked(x, m))]
          /\ cwnd' \in [Ends -> Nat]
      BY <1>1, AcksDo
    <2>3. QED
      BY <1>0, <2>1, <2>2 DEF Shape
  <1>5. net' \in SUBSET Message
    BY <1>0 DEF Shape
  <1>6. /\ rcv_nxt' \in [Ends -> Nat] /\ rcv_buf' \in [Ends -> SUBSET Seg]
        /\ acklist' \in [Ends -> SUBSET Nat]
        /\ written' \in [Ends -> Seq(Span)]
    <2>1. CASE m.type # "push"
      BY <1>0, <2>1 DEF Input, receiver, Shape
    <2>2. CASE m.type = "push"
      <3>1. InputPush(x, m)
        BY <2>2 DEF Input
      <3>2. PICK e \in Nat : Takes(x, m, e)
        BY <2>2, <3>1, InputTakes
      <3>3. /\ rcv_nxt' = [rcv_nxt EXCEPT ![x] = rcv_nxt'[x]]
            /\ rcv_buf' = [rcv_buf EXCEPT ![x] = rcv_buf'[x]]
            /\ acklist' = [acklist EXCEPT ![x] = acklist'[x]]
            /\ written' = [written EXCEPT ![x] = written'[x]]
        BY <1>0, <3>1 DEF InputPush, Shape
      <3>4. /\ rcv_nxt'[x] \in Nat /\ written'[x] \in Seq(Span)
            /\ rcv_buf'[x] \in SUBSET Arrived(x, m)
            /\ acklist'[x] = acklist[x] \cup AckDue(x, m)
        BY <3>2 DEF Takes
      <3>5. rcv_buf'[x] \in SUBSET Seg
        BY <2>2, <3>4, ArrivedFacts
      <3>6. acklist'[x] \in SUBSET Nat
        <4>1. m.sn \in Nat
          BY <1>0 DEF Shape, Message
        <4>2. QED
          BY <1>0, <3>4, <4>1, ShapeAt DEF AckDue
      <3>7. rcv_nxt' \in [Ends -> Nat]
        BY <1>0, <3>3, <3>4 DEF Shape
      <3>8. rcv_buf' \in [Ends -> SUBSET Seg]
        BY <1>0, <3>3, <3>5 DEF Shape
      <3>9. acklist' \in [Ends -> SUBSET Nat]
        BY <1>0, <3>3, <3>6 DEF Shape
      <3>10. written' \in [Ends -> Seq(Span)]
        BY <1>0, <3>3, <3>4 DEF Shape
      <3>11. QED
        BY <3>7, <3>8, <3>9, <3>10
    <2>3. QED
      BY <2>1, <2>2
  <1>7. QED
    BY <1>0, <1>3, <1>4, <1>5, <1>6 DEF Shape, Input

(* What a datagram leaves alone at the other end.                           *)
LEMMA InputLeaves ==
    ASSUME KcpIInv, NEW m \in net, Input(m.to, m)
    PROVE  SenderSame(Peer(m.to)) /\ ReceiverSame(Peer(m.to))
  <1>0. Shape
    BY DEF KcpIInv
  <1> PICK x \in Ends : x = m.to
    BY <1>0 DEF Shape, Message
  <1> PICK y \in Ends : y = Peer(x) /\ y # x
    BY EndsFact
  <1>1. SenderSame(y)
    <2>1. InputAcks(x, m)
      BY DEF Input
    <2>2. QED
      BY <2>1, AcksDo DEF Input, SenderSame
  <1>2. ReceiverSame(y)
    BY <1>0 DEF Input, InputPush, receiver, Shape, ReceiverSame
  <1>3. QED
    BY <1>1, <1>2

(* A datagram that arrives preserves the invariant.                         *)
LEMMA InputStep ==
    ASSUME KcpIInv, NEW m \in net, Input(m.to, m), net' \subseteq net
    PROVE  KcpIInv'
  <1>0. Shape /\ Shape'
    BY InputShape DEF KcpIInv
  <1> PICK x \in Ends : x = m.to
    BY <1>0 DEF Shape, Message
  <1> PICK y \in Ends : y = Peer(x) /\ Peer(y) = x
    BY EndsFact
  <1>1. SenderSame(y) /\ ReceiverSame(y)
    BY InputLeaves
  <1>2. StreamInv(x)'
    BY <1>0, <1>1, InputSender DEF Input
  <1>3. StreamInv(y)'
    <2>1. CASE m.type = "push"
      <3>1. InputPush(x, m)
        BY <2>1 DEF Input
      <3>2. PICK e \in Nat : Takes(x, m, e)
        BY <2>1, <3>1, InputTakes
      <3>3. QED
        BY <1>0, <1>1, <2>1, <3>2, InputReceiver
    <2>2. CASE m.type # "push"
      <3>1. ReceiverSame(x)
        BY <2>2 DEF Input, receiver, ReceiverSame
      <3>2. StreamInv(y)
        BY DEF KcpIInv
      <3>3. QED
        BY <1>0, <1>1, <3>1, <3>2, StreamStable
    <2>3. QED
      BY <2>1, <2>2
  <1>4. QED
    BY <1>0, <1>2, <1>3, EndsFact DEF KcpIInv

-----------------------------------------------------------------------------
(* The theorems.                                                            *)

(* Losing a datagram preserves the invariant.                               *)
LEMMA LoseStep ==
    ASSUME KcpIInv, NEW m \in net, Lose(m)
    PROVE  KcpIInv'
  <1>1. Shape /\ Shape'
    BY DEF KcpIInv, Shape, Lose, sender, window, receiver
  <1>2. ASSUME NEW x \in Ends
        PROVE  StreamInv(x)'
    <2>1. SenderSame(x) /\ ReceiverSame(Peer(x)) /\ net' \subseteq net
      BY DEF SenderSame, ReceiverSame, Lose, sender, receiver
    <2>2. QED
      BY <1>1, <2>1, StreamStable DEF KcpIInv
  <1>3. QED
    BY <1>1, <1>2 DEF KcpIInv

(* The two control blocks of ikcp_create satisfy the invariant.             *)
LEMMA KcpInit == Init => KcpIInv
  <1> SUFFICES ASSUME Init
               PROVE  KcpIInv
    OBVIOUS
  <1>1. Shape
    <2>1. IsFiniteSet({})
      BY FS_EmptySet
    <2>2. <<>> \in Seq(Span)
      OBVIOUS
    <2>3. QED
      BY <2>1, <2>2 DEF Init, Shape
  <1>2. ASSUME NEW x \in Ends
        PROVE  StreamInv(x)
    <2> PICK y \in Ends : y = Peer(x)
      BY EndsFact
    <2>1. Copies(x) = {}
      <3>1. snd_buf[x] = {} /\ rcv_buf[y] = {} /\ PushesFrom(x) = {}
        BY DEF Init, PushesFrom
      <3>2. written[y] = <<>> /\ 1 .. Len(written[y]) = {}
        BY DEF Init
      <3>3. QED
        BY <3>1, <3>2 DEF Copies
    <2>2. CopyInv(x)
      BY <2>1 DEF CopyInv, NextFrom, Init
    <2>3. Chain(snd_queue[x], sent[x])
      BY DEF Chain, Init
    <2>4. AckInv(x) /\ KeptInv(x)
      BY DEF AckInv, KeptInv, Init
    <2>5. WindowInv(x)
      BY DEF WindowInv, Init
    <2>6. QED
      BY <2>2, <2>3, <2>4, <2>5 DEF StreamInv
  <1>3. QED
    BY <1>1, <1>2 DEF KcpIInv

(* Every step preserves the invariant.                                      *)
LEMMA KcpStep == KcpIInv /\ [Next]_vars => KcpIInv'
  <1> SUFFICES ASSUME KcpIInv, [Next]_vars
               PROVE  KcpIInv'
    OBVIOUS
  <1>1. ASSUME NEW x \in Ends, NEW n \in 1 .. MaxChunk, Send(x, n)
        PROVE  KcpIInv'
    BY <1>1, SendStep
  <1>2. ASSUME NEW x \in Ends, NEW lost, NEW fast, Flush(x, lost, fast)
        PROVE  KcpIInv'
    BY <1>2, FlushStep
  <1>3. ASSUME NEW m \in net, Deliver(m) \/ Duplicate(m)
        PROVE  KcpIInv'
    <2>1. Input(m.to, m) /\ net' \subseteq net
      BY <1>3 DEF Deliver, Duplicate
    <2>2. QED
      BY <2>1, InputStep
  <1>4. ASSUME NEW m \in net, Lose(m)
        PROVE  KcpIInv'
    BY <1>4, LoseStep
  <1>5. CASE UNCHANGED vars
    <2>1. Shape /\ Shape'
      BY <1>5 DEF KcpIInv, Shape, vars, sender, window, receiver
    <2>2. ASSUME NEW x \in Ends
          PROVE  StreamInv(x)'
      <3>1. SenderSame(x) /\ ReceiverSame(Peer(x)) /\ net' \subseteq net
        BY <1>5 DEF SenderSame, ReceiverSame, vars, sender, receiver
      <3>2. QED
        BY <2>1, <3>1, StreamStable DEF KcpIInv
    <2>3. QED
      BY <2>1, <2>2 DEF KcpIInv
  <1>6. QED
    BY <1>1, <1>2, <1>3, <1>4, <1>5 DEF Next

(* The invariant holds in every state the two ends and the network reach.   *)
LEMMA KcpInductive == Spec => []KcpIInv
  BY KcpInit, KcpStep, PTL DEF Spec

(* The writes that redp2p_stream_drain makes to the local socket are the    *)
(* peer's stream without a gap or an overlap, whatever the network loses,   *)
(* repeats or reorders: two copies of neighbouring numbers fit together.    *)
THEOREM StreamInOrder == Spec => []InOrder
  <1>1. KcpIInv => InOrder
    <2> SUFFICES ASSUME KcpIInv, NEW x \in Ends,
                        NEW i \in 1 .. Len(written[x])
                 PROVE  written[x][i].from =
                           IF i = 1 THEN 1 ELSE written[x][i - 1].to + 1
      BY DEF InOrder
    <2> PICK y \in Ends : y = Peer(x) /\ Peer(y) = x
      BY EndsFact
    <2>1. CopyInv(y) /\ Len(written[x]) \in Nat
      BY ShapeAt DEF KcpIInv, StreamInv
    <2> PICK b : b = WrittenAs(x, i)
      OBVIOUS
    <2>2. b \in Copies(y) /\ b.sn = i - 1 /\ b.from = written[x][i].from
      BY DEF Copies, WrittenAs
    <2>3. CASE i = 1
      <3>1. b.sn = 0
        BY <2>2, <2>3
      <3>2. QED
        BY <2>1, <2>2, <2>3, <3>1 DEF CopyInv, CopyOK
    <2>4. CASE i # 1
      <3> PICK j \in 1 .. Len(written[x]) : j = i - 1
        BY <2>1, <2>4
      <3> PICK a : a = WrittenAs(x, j)
        OBVIOUS
      <3>1. a \in Copies(y) /\ a.sn = j - 1 /\ a.to = written[x][j].to
        BY DEF Copies, WrittenAs
      <3>2. b.sn = a.sn + 1
        BY <2>2, <3>1
      <3>3. b.from = a.to + 1
        BY <2>1, <2>2, <3>1, <3>2 DEF CopyInv, Agree
      <3>4. QED
        BY <2>2, <2>4, <3>1, <3>3
    <2>5. QED
      BY <2>3, <2>4
  <1>2. QED
    BY <1>1, KcpInductive, PTL

(* A numbered segment leaves snd_buf only after the peer has received it,   *)
(* whether ikcp_parse_una or ikcp_parse_ack removes it.                     *)
THEOREM NothingGivenUp == Spec => []Kept
  <1>1. KcpIInv => Kept
    BY DEF KcpIInv, StreamInv, KeptInv, Has, Kept
  <1>2. QED
    BY <1>1, KcpInductive, PTL

(* The first number the sender keeps is not past the one the receiver       *)
(* waits for.                                                               *)
LEMMA UnaBehind ==
    ASSUME KcpIInv, NEW x \in Ends
    PROVE  snd_una[x] <= rcv_nxt[Peer(x)]
  <1> PICK y \in Ends : y = Peer(x)
    BY EndsFact
  <1>1. /\ snd_una[x] \in Nat /\ snd_nxt[x] \in Nat /\ rcv_nxt[y] \in Nat
        /\ snd_buf[x] \in SUBSET Seg /\ rcv_buf[y] \in SUBSET Seg
    BY ShapeAt DEF KcpIInv
  <1>2. WindowInv(x) /\ KeptInv(x)
    BY DEF KcpIInv, StreamInv
  <1>3. SUFFICES ASSUME rcv_nxt[y] < snd_una[x]
                 PROVE  FALSE
    BY <1>1
  <1>4. rcv_nxt[y] \in 0 .. snd_nxt[x] - 1
    BY <1>1, <1>2, <1>3 DEF WindowInv
  <1>5. rcv_nxt[y] \notin Numbers(snd_buf[x])
    BY <1>1, <1>2, <1>3 DEF WindowInv, Numbers
  <1>6. ~Has(y, rcv_nxt[y])
    BY <1>1, <1>2 DEF WindowInv, Has, Numbers
  <1>7. QED
    BY <1>2, <1>4, <1>5, <1>6 DEF KeptInv

(* No data segment in flight is ahead of the receiver's window, so          *)
(* ikcp_parse_data never drops one for lack of room: the send window is     *)
(* not larger than the receive window and counts from the first number      *)
(* that is not acknowledged.                                                *)
THEOREM WindowRespected == Spec => []InWindow
  <1>1. KcpIInv => InWindow
    <2> SUFFICES ASSUME KcpIInv, NEW m \in net, m.type = "push"
                 PROVE  m.sn < rcv_nxt[m.to] + RcvWnd
      BY DEF InWindow
    <2> PICK y \in Ends : y = m.to
      BY DEF KcpIInv, Shape, Message
    <2> PICK x \in Ends : x = Peer(y) /\ Peer(x) = y
      BY EndsFact
    <2>1. CopyInv(x) /\ WindowInv(x)
      BY DEF KcpIInv, StreamInv
    <2>2. DataOf(m) \in Copies(x) /\ DataOf(m).sn = m.sn
      BY DEF Copies, PushesFrom, DataOf
    <2>3. m.sn < snd_nxt[x]
      BY <2>1, <2>2 DEF CopyInv, CopyOK
    <2>4. snd_una[x] <= rcv_nxt[y] /\ snd_nxt[x] <= snd_una[x] + SndWnd
      BY <2>1, UnaBehind DEF WindowInv
    <2>5. /\ m.sn \in Nat /\ snd_nxt[x] \in Nat /\ snd_una[x] \in Nat
          /\ rcv_nxt[y] \in Nat
      BY ShapeAt DEF KcpIInv, Shape, Message
    <2>6. QED
      BY <2>3, <2>4, <2>5
  <1>2. QED
    BY <1>1, KcpInductive, PTL

-----------------------------------------------------------------------------
(* Each direction implements a pipe.                                        *)

Idle(x) == snd_buf[x] = {} /\ snd_queue[x] = <<>>

(* ikcp_waitsnd is zero when nothing is queued and nothing in flight.       *)
LEMMA IdleMeans ==
    ASSUME KcpIInv, NEW x \in Ends
    PROVE  (WaitSnd(x) = 0) = Idle(x)
  <1>1. Shape
    BY DEF KcpIInv
  <1>2. /\ snd_queue[x] \in Seq(Span) /\ Len(snd_queue[x]) \in Nat
        /\ IsFiniteSet(snd_buf[x])
    BY <1>1, ShapeAt
  <1>3. Len(snd_queue[x]) = 0 <=> snd_queue[x] = <<>>
    BY <1>2
  <1>4. /\ Cardinality(snd_buf[x]) \in Nat
        /\ Cardinality(snd_buf[x]) = 0 <=> snd_buf[x] = {}
    BY <1>2, FS_CardinalityType, FS_EmptySet
  <1>5. WaitSnd(x) = 0 <=> Idle(x)
    <2> PICK c \in Nat : c = Cardinality(snd_buf[x])
      BY <1>4
    <2> PICK l \in Nat : l = Len(snd_queue[x])
      BY <1>2
    <2>1. c + l = 0 <=> c = 0 /\ l = 0
      OBVIOUS
    <2>2. WaitSnd(x) = c + l
      BY DEF WaitSnd
    <2>3. QED
      BY <1>3, <1>4, <2>1, <2>2 DEF Idle
  <1>6. QED
    BY <1>5 DEF Idle

(* With nothing queued and nothing in flight the peer's application has     *)
(* everything.                                                              *)
LEMMA IdleComplete ==
    ASSUME KcpIInv, NEW x \in Ends, Idle(x)
    PROVE  Got(Peer(x)) = sent[x]
  <1> PICK y \in Ends : y = Peer(x)
    BY EndsFact
  <1>1. /\ sent[x] \in Nat /\ snd_nxt[x] \in Nat /\ rcv_nxt[y] \in Nat
        /\ rcv_buf[y] \in SUBSET Seg /\ written[y] \in Seq(Span)
    BY ShapeAt DEF KcpIInv
  <1>2. CopyInv(x) /\ WindowInv(x) /\ KeptInv(x)
    BY DEF KcpIInv, StreamInv
  <1>3. rcv_nxt[y] >= snd_nxt[x]
    <2> SUFFICES ASSUME rcv_nxt[y] < snd_nxt[x]
                 PROVE  FALSE
      BY <1>1
    <2>1. rcv_nxt[y] \in 0 .. snd_nxt[x] - 1
      BY <1>1
    <2>2. rcv_nxt[y] \notin Numbers(snd_buf[x])
      BY DEF Idle, Numbers
    <2>3. ~Has(y, rcv_nxt[y])
      BY <1>1, <1>2 DEF WindowInv, Has, Numbers
    <2>4. QED
      BY <1>2, <2>1, <2>2, <2>3 DEF KeptInv
  <1>4. Len(written[y]) = rcv_nxt[y]
    BY <1>2 DEF WindowInv
  <1>5. NextFrom(x) = sent[x] + 1
    BY DEF Idle, NextFrom
  <1>6. CASE rcv_nxt[y] = 0
    <2>1. snd_nxt[x] = 0 /\ written[y] = <<>>
      BY <1>1, <1>3, <1>4, <1>6
    <2>2. sent[x] = 0
      BY <1>1, <1>2, <1>5, <2>1 DEF CopyInv
    <2>3. QED
      BY <2>1, <2>2 DEF Got
  <1>7. CASE rcv_nxt[y] > 0
    <2> PICK i \in 1 .. Len(written[y]) : i = Len(written[y])
      BY <1>1, <1>4, <1>7
    <2> PICK a : a = WrittenAs(y, i)
      OBVIOUS
    <2>1. a \in Copies(x) /\ a.sn = i - 1 /\ a.to = written[y][i].to
      BY DEF Copies, WrittenAs
    <2>2. CopyOK(x, a)
      BY <1>2, <2>1 DEF CopyInv
    <2>3. a.sn = snd_nxt[x] - 1
      BY <1>1, <1>3, <1>4, <2>1, <2>2 DEF CopyOK
    <2>4. a.to + 1 = sent[x] + 1 /\ a.to \in Nat
      BY <1>5, <2>1, <2>2, <2>3, CopiesAreSegments DEF CopyOK, KcpIInv
    <2>5. written[y] # <<>>
      BY <1>1, <1>4, <1>7
    <2>6. QED
      BY <1>1, <2>1, <2>4, <2>5 DEF Got
  <1>8. QED
    BY <1>1, <1>6, <1>7

(* The two lemmas in the state after a step.                                *)
LEMMA IdleNext ==
    (KcpIInv => \A x \in Ends : /\ (WaitSnd(x) = 0) = Idle(x)
                                /\ Idle(x) => Got(Peer(x)) = sent[x])'
  <1>1. KcpIInv => \A x \in Ends : /\ (WaitSnd(x) = 0) = Idle(x)
                                   /\ Idle(x) => Got(Peer(x)) = sent[x]
    BY IdleMeans, IdleComplete
  <1>2. QED
    BY <1>1, PTL

(* The step of the pipe that a step of the protocol is.                     *)
PipeSend(x) ==
    /\ sent'[x] \in Nat /\ sent'[x] > sent[x]
    /\ ~Idle(x)' /\ Got(Peer(x))' = Got(Peer(x))
PipeHandOver(x) ==
    /\ Got(Peer(x))' \in Got(Peer(x)) + 1 .. sent[x]
    /\ sent'[x] = sent[x] /\ (Idle(x)' <=> Idle(x))
PipeSettle(x) ==
    /\ Got(Peer(x)) = sent[x] /\ ~Idle(x) /\ Idle(x)'
    /\ sent'[x] = sent[x] /\ Got(Peer(x))' = Got(Peer(x))
PipeStutter(x) ==
    /\ sent'[x] = sent[x] /\ (Idle(x)' <=> Idle(x))
    /\ Got(Peer(x))' = Got(Peer(x))
PipeStep(x) ==
    PipeSend(x) \/ PipeHandOver(x) \/ PipeSettle(x) \/ PipeStutter(x)

(* ikcp_send fills one direction and leaves the other.                      *)
LEMMA SendPipe ==
    ASSUME KcpIInv, NEW x \in Ends, NEW n \in 1 .. MaxChunk, Send(x, n),
           NEW y \in Ends
    PROVE  PipeStep(y)
  <1>1. CASE y = x
    <2>1. sent[x] \in Nat
      BY ShapeAt DEF KcpIInv
    <2>2. sent'[x] = sent[x] + n /\ snd_queue'[x] # <<>>
      BY SendDoes DEF GoesOn
    <2>3. Got(Peer(x))' = Got(Peer(x))
      BY DEF Send, receiver, Got
    <2>4. PipeSend(x)
      BY <2>1, <2>2, <2>3 DEF PipeSend, Idle
    <2>5. QED
      BY <1>1, <2>4 DEF PipeStep
  <1>2. CASE y # x
    <2>1. sent'[y] = sent[y] /\ snd_queue'[y] = snd_queue[y]
      BY <1>2, SendDoes
    <2>2. snd_buf' = snd_buf /\ written' = written
      BY DEF Send, receiver
    <2>3. PipeStutter(y)
      BY <2>1, <2>2 DEF PipeStutter, Idle, Got
    <2>4. QED
      BY <2>3 DEF PipeStep
  <1>3. QED
    BY <1>1, <1>2

(* ikcp_flush moves segments from the queue to snd_buf, which ikcp_waitsnd  *)
(* does not notice.                                                         *)
LEMMA FlushPipe ==
    ASSUME KcpIInv, NEW x \in Ends, NEW lost, NEW fast, Flush(x, lost, fast),
           NEW y \in Ends
    PROVE  PipeStep(y)
  <1>1. sent' = sent /\ written' = written
    BY FlushDoes
  <1>2. CASE y # x
    <2>1. snd_buf'[y] = snd_buf[y] /\ snd_queue'[y] = snd_queue[y]
      BY <1>2, FlushDoes
    <2>2. PipeStutter(y)
      BY <1>1, <2>1 DEF PipeStutter, Idle, Got
    <2>3. QED
      BY <2>2 DEF PipeStep
  <1>3. CASE y = x
    <2> PICK A \in Nat : A = Admitted(x) /\ A <= Len(snd_queue[x])
      BY AdmittedFits DEF KcpIInv, StreamInv
    <2>1. snd_queue[x] \in Seq(Span) /\ Len(snd_queue[x]) \in Nat
      BY ShapeAt DEF KcpIInv
    <2>2. snd_queue'[x] \in Seq(Span)
          /\ Len(snd_queue'[x]) = Len(snd_queue[x]) - A
      BY FlushQueue
    <2>3. snd_buf'[x] = snd_buf[x] \cup Fresh(x)
      BY FlushDoes
    <2>4. Fresh(x) = {} <=> A = 0
      <3>1. CASE A = 0
        <4>1. 1 .. Admitted(x) = {}
          BY <3>1
        <4>2. QED
          BY <3>1, <4>1, FreshSegments
      <3>2. CASE A > 0
        <4>1. 1 \in 1 .. Admitted(x)
          BY <3>2
        <4>2. QED
          BY <3>2, <4>1, FreshSegments
      <3>3. QED
        BY <3>1, <3>2
    <2>5. Idle(x) <=> snd_buf[x] = {} /\ Len(snd_queue[x]) = 0
      BY <2>1 DEF Idle
    <2>6. Idle(x)' <=> snd_buf'[x] = {} /\ Len(snd_queue'[x]) = 0
      BY <2>2 DEF Idle
    <2>7. Idle(x)' <=> Idle(x)
      BY <2>1, <2>2, <2>3, <2>4, <2>5, <2>6
    <2>8. PipeStutter(x)
      BY <1>1, <2>7 DEF PipeStutter, Got
    <2>9. QED
      BY <1>3, <2>8 DEF PipeStep
  <1>4. QED
    BY <1>2, <1>3

(* The writes only move on.                                                 *)
LEMMA GotGrows ==
    ASSUME KcpIInv, KcpIInv', NEW x \in Ends, NEW m \in net, m.to = x,
           m.type = "push", NEW e \in Nat, Takes(x, m, e),
           sent' = sent
    PROVE  Got(x)' = Got(x) \/ Got(x)' \in Got(x) + 1 .. sent[Peer(x)]
  <1> PICK y \in Ends : y = Peer(x) /\ Peer(y) = x
    BY EndsFact
  <1> PICK r \in Nat : r = rcv_nxt[x]
    BY ShapeAt DEF KcpIInv
  <1> PICK v \in Seq(Span) : v = written'[x]
    BY DEF Takes
  <1> PICK w \in Seq(Span) : w = written[x]
    BY ShapeAt DEF KcpIInv
  <1>1. /\ Len(v) = e /\ Len(w) = r /\ r <= e /\ sent[y] \in Nat
        /\ \A i \in 1 .. r : v[i] = w[i]
    BY ShapeAt DEF Takes, KcpIInv, StreamInv, WindowInv
  <1>2. ASSUME NEW i \in 1 .. e
        PROVE  /\ v[i].from \in Nat /\ v[i].to \in Nat
               /\ v[i].from <= v[i].to /\ v[i].to <= sent[y]
               /\ i # 1 => v[i].from = v[i - 1].to + 1
               /\ i = 1 => v[i].from = 1
    <2>1. CopyInv(y)'
      BY DEF KcpIInv, StreamInv
    <2> PICK b : b = WrittenAs(x, i)'
      OBVIOUS
    <2>2. b \in Copies(y)' /\ b.sn = i - 1 /\ b.from = v[i].from
          /\ b.to = v[i].to
      BY <1>1 DEF Copies, WrittenAs
    <2>3. CopyOK(y, b)'
      BY <2>1, <2>2 DEF CopyInv
    <2>4. v[i].from \in Nat /\ v[i].to \in Nat
      <3>1. v[i] \in Span
        BY <1>1
      <3>2. QED
        BY <3>1 DEF Span
    <2>5. v[i].from <= v[i].to /\ v[i].to <= sent[y]
      BY <2>2, <2>3 DEF CopyOK
    <2>6. i = 1 => v[i].from = 1
      BY <2>2, <2>3 DEF CopyOK
    <2>7. ASSUME i # 1
          PROVE  v[i].from = v[i - 1].to + 1
      <3> PICK j \in 1 .. e : j = i - 1
        BY <2>7
      <3> PICK a : a = WrittenAs(x, j)'
        OBVIOUS
      <3>1. a \in Copies(y)' /\ a.sn = j - 1 /\ a.to = v[j].to
        BY <1>1 DEF Copies, WrittenAs
      <3>2. b.sn = a.sn + 1
        BY <2>2, <3>1
      <3>3. Agree(a, b)
        BY <2>1, <2>2, <3>1 DEF CopyInv, Agree
      <3>4. QED
        BY <2>2, <3>1, <3>2, <3>3 DEF Agree
    <2>8. QED
      BY <2>4, <2>5, <2>6, <2>7
  <1> PICK g : g = Got(x)
    OBVIOUS
  <1>3. g = IF r = 0 THEN 0 ELSE w[r].to
    BY <1>1 DEF Got
  <1>4. Got(x)' = IF e = 0 THEN 0 ELSE v[e].to
    BY <1>1 DEF Got
  <1>5. CASE e = r
    <2>1. r # 0 => r \in 1 .. r
      OBVIOUS
    <2>2. QED
      BY <1>1, <1>3, <1>4, <1>5, <2>1
  <1>6. CASE e # r
    <2>1. g \in Nat /\ (r # 0 => v[r].to = g)
      <3>1. r # 0 => r \in 1 .. e /\ r \in 1 .. r
        BY <1>1
      <3>2. QED
        BY <1>1, <1>2, <1>3, <3>1
    <2> DEFINE T == {i \in Nat : r < i /\ i <= e /\ v[i].to <= g}
    <2>2. T = {}
      <3> SUFFICES ASSUME T # {}
                   PROVE  FALSE
        OBVIOUS
      <3>1. T \in SUBSET Nat
        OBVIOUS
      <3>2. PICK i \in T : \A j \in T : i <= j
        <4> HIDE DEF T
        <4>1. QED
          BY <3>1, LeastNumber
      <3>3. /\ i \in 1 .. e /\ r < i /\ i <= e /\ v[i].to <= g
        BY <3>2
      <3>4. v[i].from > g
        <4>1. CASE i = 1
          <5>1. r = 0
            BY <3>3, <4>1
          <5>2. QED
            BY <1>2, <1>3, <3>3, <4>1, <5>1
        <4>2. CASE i # 1 /\ i - 1 = r
          <5>1. v[i].from = v[i - 1].to + 1
            BY <1>2, <3>3, <4>2
          <5>2. QED
            BY <2>1, <4>2, <5>1
        <4>3. CASE i # 1 /\ i - 1 # r
          <5>1. i - 1 \in Nat /\ r < i - 1 /\ i - 1 <= e /\ i - 1 \in 1 .. e
            BY <3>3, <4>3
          <5>2. i - 1 \notin T
            BY <3>2, <3>3, <5>1
          <5>3. v[i - 1].to > g
            BY SMTT(30), <1>2, <2>1, <5>1, <5>2
          <5>4. v[i].from = v[i - 1].to + 1
            BY <1>2, <3>3, <4>3
          <5>5. v[i - 1].to \in Nat
            BY <1>2, <5>1
          <5>6. QED
            BY <2>1, <5>3, <5>4, <5>5
        <4>4. QED
          BY <4>1, <4>2, <4>3
      <3>5. QED
        BY <1>2, <2>1, <3>3, <3>4
    <2>3. e \in 1 .. e /\ r < e
      BY <1>1, <1>6
    <2>4. v[e].to \in Nat /\ v[e].to <= sent[y]
      BY <1>2, <2>3
    <2>5. ~(v[e].to <= g)
      BY <2>2, <2>3
    <2> HIDE DEF T
    <2>6. QED
      BY <1>1, <1>4, <2>1, <2>3, <2>4, <2>5
  <1>7. QED
    BY <1>5, <1>6

(* A datagram settles one direction or hands over in the other.             *)
LEMMA InputPipe ==
    ASSUME KcpIInv, KcpIInv', NEW m \in net, Input(m.to, m), NEW z \in Ends
    PROVE  PipeStep(z)
  <1> PICK x \in Ends : x = m.to
    BY DEF KcpIInv, Shape, Message
  <1> PICK y \in Ends : y = Peer(x) /\ Peer(y) = x
    BY EndsFact
  <1>1. SenderSame(y) /\ ReceiverSame(y)
    BY InputLeaves
  <1>2. sent' = sent /\ snd_queue' = snd_queue /\ InputAcks(x, m)
    BY DEF Input
  <1>3. PipeStep(x)
    <2>1. Got(y)' = Got(y)
      BY <1>1 DEF ReceiverSame, Got
    <2>2. snd_buf'[x] \subseteq snd_buf[x]
      BY <1>2, AcksDo DEF Unacked
    <2>3. Idle(x) => Idle(x)'
      BY <1>2, <2>2 DEF Idle
    <2>4. CASE Idle(x)' /\ ~Idle(x)
      <3>1. Got(y)' = sent'[x]
        <4>1. (Got(Peer(x)) = sent[x])'
          BY <2>4, IdleNext
        <4>2. QED
          BY <4>1
      <3>2. PipeSettle(x)
        BY <1>2, <2>1, <2>4, <3>1 DEF PipeSettle
      <3>3. QED
        BY <3>2 DEF PipeStep
    <2>5. CASE Idle(x)' <=> Idle(x)
      <3>1. PipeStutter(x)
        BY <1>2, <2>1, <2>5 DEF PipeStutter
      <3>2. QED
        BY <3>1 DEF PipeStep
    <2>6. QED
      BY <2>3, <2>4, <2>5
  <1>4. PipeStep(y)
    <2>1. sent'[y] = sent[y] /\ (Idle(y)' <=> Idle(y))
      BY <1>1 DEF SenderSame, Idle
    <2>2. Got(x)' = Got(x) \/ Got(x)' \in Got(x) + 1 .. sent[y]
      <3>1. CASE m.type = "push"
        <4>1. InputPush(x, m)
          BY <3>1 DEF Input
        <4>2. PICK e \in Nat : Takes(x, m, e)
          BY <3>1, <4>1, InputTakes
        <4>3. QED
          BY <1>2, <3>1, <4>2, GotGrows
      <3>2. CASE m.type # "push"
        BY <3>2 DEF Input, receiver, Got
      <3>3. QED
        BY <3>1, <3>2
    <2>3. PipeHandOver(y) \/ PipeStutter(y)
      BY <2>1, <2>2 DEF PipeHandOver, PipeStutter
    <2>4. QED
      BY <2>3 DEF PipeStep
  <1>5. QED
    BY <1>3, <1>4, EndsFact

(* Every step of the protocol is a step of the pipe in each direction.      *)
LEMMA EveryStepPipe ==
    ASSUME KcpIInv, KcpIInv', [Next]_vars, NEW y \in Ends
    PROVE  PipeStep(y)
  <1>1. ASSUME NEW x \in Ends, NEW n \in 1 .. MaxChunk, Send(x, n)
        PROVE  PipeStep(y)
    BY <1>1, SendPipe
  <1>2. ASSUME NEW x \in Ends, NEW lost, NEW fast, Flush(x, lost, fast)
        PROVE  PipeStep(y)
    BY <1>2, FlushPipe
  <1>3. ASSUME NEW m \in net, Deliver(m) \/ Duplicate(m)
        PROVE  PipeStep(y)
    BY <1>3, InputPipe DEF Deliver, Duplicate
  <1>4. CASE (\E m \in net : Lose(m)) \/ UNCHANGED vars
    <2>1. /\ sent' = sent /\ snd_queue' = snd_queue /\ snd_buf' = snd_buf
          /\ written' = written
      BY <1>4 DEF Lose, vars, sender, receiver
    <2>2. PipeStutter(y)
      BY <2>1 DEF PipeStutter, Idle, Got
    <2>3. QED
      BY <2>2 DEF PipeStep
  <1>5. QED
    BY <1>1, <1>2, <1>3, <1>4 DEF Next

(* The protocol implements a pipe in each direction (module Pipe): what is  *)
(* handed to the application only grows and never passes what was sent, and *)
(* ikcp_waitsnd returns to zero only when the peer's application has all of *)
(* it, which the tunnel relies on before it sends CLOSE.                    *)
THEOREM ImplementsPipe == Spec => IsPipe
  <1>1. Consumer \in Ends /\ Publisher \in Ends /\ Peer(Consumer) = Publisher
        /\ Peer(Publisher) = Consumer
    BY DEF Ends, Peer
  <1>2. Init => Upstream!Init /\ Downstream!Init
    <2> SUFFICES ASSUME Init
                 PROVE  Upstream!Init /\ Downstream!Init
      OBVIOUS
    <2>1. KcpIInv
      BY KcpInit
    <2>2. \A x \in Ends : /\ sent[x] = 0 /\ Got(x) = 0 /\ Idle(x)
      BY DEF Init, Got, Idle
    <2>3. (WaitSnd(Consumer) = 0) = TRUE /\ (WaitSnd(Publisher) = 0) = TRUE
      BY <1>1, <2>1, <2>2, IdleMeans
    <2>4. QED
      BY <1>1, <2>2, <2>3 DEF Upstream!Init, Downstream!Init
  <1>3. ASSUME KcpIInv, KcpIInv', PipeStep(Consumer)
        PROVE  [Upstream!Next]_(Upstream!vars)
    <2>1. /\ WaitSnd(Consumer) = 0 <=> Idle(Consumer)
          /\ (WaitSnd(Consumer) = 0)' <=> Idle(Consumer)'
      <3>1. (WaitSnd(Consumer) = 0)' = Idle(Consumer)'
        BY <1>1, <1>3, IdleNext
      <3>2. QED
        BY <1>1, <1>3, <3>1, IdleMeans
    <2>2. CASE PipeSend(Consumer)
      BY <1>1, <2>1, <2>2 DEF PipeSend, Upstream!Next, Upstream!Send
    <2>3. CASE PipeHandOver(Consumer)
      BY <1>1, <2>1, <2>3 DEF PipeHandOver, Upstream!Next, Upstream!HandOver
    <2>4. CASE PipeSettle(Consumer)
      BY <1>1, <2>1, <2>4 DEF PipeSettle, Upstream!Next, Upstream!Settle
    <2>5. CASE PipeStutter(Consumer)
      BY <1>1, <2>1, <2>5 DEF PipeStutter, Upstream!vars
    <2>6. QED
      BY <1>3, <2>2, <2>3, <2>4, <2>5 DEF PipeStep
  <1>4. ASSUME KcpIInv, KcpIInv', PipeStep(Publisher)
        PROVE  [Downstream!Next]_(Downstream!vars)
    <2>1. /\ WaitSnd(Publisher) = 0 <=> Idle(Publisher)
          /\ (WaitSnd(Publisher) = 0)' <=> Idle(Publisher)'
      <3>1. (WaitSnd(Publisher) = 0)' = Idle(Publisher)'
        BY <1>1, <1>4, IdleNext
      <3>2. QED
        BY <1>1, <1>4, <3>1, IdleMeans
    <2>2. CASE PipeSend(Publisher)
      BY <1>1, <2>1, <2>2 DEF PipeSend, Downstream!Next, Downstream!Send
    <2>3. CASE PipeHandOver(Publisher)
      BY <1>1, <2>1, <2>3 DEF PipeHandOver, Downstream!Next,
                              Downstream!HandOver
    <2>4. CASE PipeSettle(Publisher)
      BY <1>1, <2>1, <2>4 DEF PipeSettle, Downstream!Next, Downstream!Settle
    <2>5. CASE PipeStutter(Publisher)
      BY <1>1, <2>1, <2>5 DEF PipeStutter, Downstream!vars
    <2>6. QED
      BY <1>4, <2>2, <2>3, <2>4, <2>5 DEF PipeStep
  <1>5. KcpIInv /\ KcpIInv' /\ [Next]_vars =>
           [Upstream!Next]_(Upstream!vars) /\ [Downstream!Next]_(Downstream!vars)
    BY <1>1, <1>3, <1>4, EveryStepPipe
  <1>6. QED
    BY <1>2, <1>5, KcpInductive, PTL
       DEF Spec, IsPipe, Upstream!Spec, Downstream!Spec
=============================================================================
