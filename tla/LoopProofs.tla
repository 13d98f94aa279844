----------------------------- MODULE LoopProofs -----------------------------
(***************************************************************************)
(* The connection table of the index, for any number of clients and any    *)
(* size of the table: no descriptor leaks and none is closed twice, and    *)
(* the reverse pass over a table that shrinks by swap removal looks at     *)
(* every readable connection once.                                         *)
(*                                                                         *)
(* Each needs the other, and three facts no property states: the backlog   *)
(* holds a connection once, a pass starts with nobody looked at, and the   *)
(* listener that select reported still has a connection to accept.         *)
(***************************************************************************)
EXTENDS IndexLoop, TLAPS

USE LoopAssumption

(* Who has an entry in table t, and who waits in backlog b.                *)
Holds(t, c) == \E i \in DOMAIN t : t[i].client = c
Waits(b, c) == \E i \in DOMAIN b : b[i] = c

OneEntryEach(t) ==
    \A i, j \in DOMAIN t : t[i].client = t[j].client => i = j

OncePending(b) == \A i, j \in DOMAIN b : b[i] = b[j] => i = j

(* SocketsOwned, and nobody is twice in the backlog.                       *)
Owned(t, b, s) ==
    /\ \A c \in Clients : s[c] = "open" <=> Holds(t, c)
    /\ OneEntryEach(t)
    /\ \A c \in Clients : s[c] = "backlog" <=> Waits(b, c)
    /\ OncePending(b)

(* What select and accept hand to the pass.                                *)
PassStarts ==
    /\ pc # "process" => handled = {}
    /\ pc = "accept" => /\ \A c \in readable : Holds(conns, c)
                        /\ listening => backlog # << >>

LoopIInv ==
    TypeOK /\ Owned(conns, backlog, sock) /\ PassStarts /\ PassExact

(* What a step leaves when it does not touch the table's clients.          *)
SameClients(r, s) ==
    /\ r \in Seq(Conn) /\ Len(r) = Len(s)
    /\ \A i \in 1 .. Len(s) : r[i].client = s[i].client

(* r is s without entry i, and below i nothing moved.                      *)
Without(r, s, i) ==
    /\ r \in Seq(Conn) /\ Len(r) = Len(s) - 1
    /\ OneEntryEach(r)
    /\ \A j \in 1 .. i - 1 : r[j] = s[j]
    /\ \A c : Holds(r, c) <=> Holds(s, c) /\ c # s[i].client

(* r is s with an entry for a newcomer.                                    *)
With(r, s, e) ==
    /\ r \in Seq(Conn) /\ Len(r) = Len(s) + 1
    /\ OneEntryEach(r)
    /\ \A c : Holds(r, c) <=> Holds(s, c) \/ c = e.client

-----------------------------------------------------------------------------
(* A function on 1 .. k is a sequence.                                     *)
LEMMA SeqOfFunction ==
    ASSUME NEW S, NEW k \in Nat, NEW d \in [1 .. k -> S]
    PROVE  d \in Seq(S) /\ Len(d) = k
  OBVIOUS

(* Entries that keep their clients keep the table's ownership.             *)
LEMMA SameClientsHold ==
    ASSUME NEW s \in Seq(Conn), NEW r, SameClients(r, s), OneEntryEach(s)
    PROVE  OneEntryEach(r) /\ \A c : Holds(r, c) <=> Holds(s, c)
  <1>1. DOMAIN r = 1 .. Len(s) /\ DOMAIN s = 1 .. Len(s)
    BY DEF SameClients
  <1>2. \A i \in 1 .. Len(s) : r[i].client = s[i].client
    BY DEF SameClients
  <1>3. QED
    BY <1>1, <1>2 DEF OneEntryEach, Holds

(* redp2p_index_conn_remove: the entry goes, the last one takes its place, *)
(* and the entries below it stay where they are.                           *)
LEMMA RemoveLeaves ==
    ASSUME NEW s \in Seq(Conn), NEW i \in 1 .. Len(s), OneEntryEach(s)
    PROVE  Without(ConnRemove(s, i), s, i)
  <1> PICK n \in Nat : n = Len(s)
    OBVIOUS
  <1>1. n - 1 \in Nat /\ i \in 1 .. n /\ n \in 1 .. n /\ DOMAIN s = 1 .. n
    OBVIOUS
  <1>2. \A j \in 1 .. n : s[j] \in Conn
    OBVIOUS
  <1> PICK r : r = ConnRemove(s, i)
    OBVIOUS
  <1>3. /\ r \in [1 .. n - 1 -> Conn]
        /\ \A j \in 1 .. n - 1 : r[j] = IF j = i THEN s[n] ELSE s[j]
    BY <1>1, <1>2 DEF ConnRemove
  <1>4. r \in Seq(Conn) /\ Len(r) = n - 1 /\ DOMAIN r = 1 .. n - 1
    BY <1>1, <1>3, SeqOfFunction
  <1>5. \A j, k \in 1 .. n : s[j].client = s[k].client => j = k
    BY <1>1 DEF OneEntryEach
  <1>6. \A j \in 1 .. i - 1 : r[j] = s[j]
    BY <1>1, <1>3
  <1>7. ASSUME NEW j \in 1 .. n - 1, NEW k \in 1 .. n - 1,
               r[j].client = r[k].client
        PROVE  j = k
    BY <1>1, <1>3, <1>5, <1>7
  <1>8. ASSUME NEW c, NEW j \in 1 .. n - 1, r[j].client = c
        PROVE  Holds(s, c) /\ c # s[i].client
    <2>1. CASE j = i
      <3>1. c = s[n].client
        BY <1>3, <1>8, <2>1
      <3>2. n # i
        BY <2>1
      <3>3. QED
        BY <1>1, <1>5, <3>1, <3>2 DEF Holds
    <2>2. CASE j # i
      <3>1. c = s[j].client /\ j \in 1 .. n
        BY <1>3, <1>8, <2>2
      <3>2. QED
        BY <1>1, <1>5, <2>2, <3>1 DEF Holds
    <2>3. QED
      BY <2>1, <2>2
  <1>9. ASSUME NEW c, NEW j \in 1 .. n, s[j].client = c, c # s[i].client
        PROVE  \E k \in 1 .. n - 1 : r[k].client = c
    <2>1. j # i
      BY <1>9
    <2>2. CASE j = n
      <3>1. i \in 1 .. n - 1 /\ r[i] = s[n]
        BY <1>1, <1>3, <2>1, <2>2
      <3>2. QED
        BY <1>9, <2>2, <3>1
    <2>3. CASE j # n
      <3>1. j \in 1 .. n - 1 /\ r[j] = s[j]
        BY <1>1, <1>3, <2>1, <2>3
      <3>2. QED
        BY <1>9, <3>1
    <2>4. QED
      BY <2>2, <2>3
  <1>10. OneEntryEach(r)
    BY <1>4, <1>7 DEF OneEntryEach
  <1>11. \A c : Holds(r, c) <=> Holds(s, c) /\ c # s[i].client
    BY <1>1, <1>4, <1>8, <1>9 DEF Holds
  <1>12. QED
    BY <1>4, <1>6, <1>10, <1>11 DEF Without

(* redp2p_index_conn_add: a client without an entry gets one.              *)
LEMMA AddGives ==
    ASSUME NEW s \in Seq(Conn), NEW e \in Conn, OneEntryEach(s),
           ~Holds(s, e.client)
    PROVE  With(Append(s, e), s, e)
  <1> PICK n \in Nat : n = Len(s)
    OBVIOUS
  <1> PICK r : r = Append(s, e)
    OBVIOUS
  <1>1. /\ r \in Seq(Conn) /\ Len(r) = n + 1
        /\ DOMAIN r = 1 .. n + 1 /\ DOMAIN s = 1 .. n
    OBVIOUS
  <1>2. r[n + 1] = e /\ \A j \in 1 .. n : r[j] = s[j]
    OBVIOUS
  <1>3. \A j \in 1 .. n + 1 : j \in 1 .. n \/ j = n + 1
    OBVIOUS
  <1>4. \A j \in 1 .. n : j \in 1 .. n + 1 /\ j # n + 1
    OBVIOUS
  <1>5. n + 1 \in 1 .. n + 1
    OBVIOUS
  <1>6. OneEntryEach(r)
    BY <1>1, <1>2, <1>3 DEF OneEntryEach, Holds
  <1>7. \A c : Holds(r, c) <=> Holds(s, c) \/ c = e.client
    BY <1>1, <1>2, <1>3, <1>4, <1>5 DEF Holds
  <1>8. QED
    BY <1>1, <1>6, <1>7 DEF With

(* A connection the kernel completed goes to the end of the backlog.       *)
LEMMA BacklogGrows ==
    ASSUME NEW b \in Seq(Clients), NEW x \in Clients, OncePending(b),
           ~Waits(b, x)
    PROVE  /\ Append(b, x) \in Seq(Clients) /\ Append(b, x) # << >>
           /\ OncePending(Append(b, x))
           /\ \A c : Waits(Append(b, x), c) <=> Waits(b, c) \/ c = x
  <1> PICK n \in Nat : n = Len(b)
    OBVIOUS
  <1> PICK r : r = Append(b, x)
    OBVIOUS
  <1>1. /\ r \in Seq(Clients) /\ Len(r) = n + 1 /\ r # << >>
        /\ DOMAIN r = 1 .. n + 1 /\ DOMAIN b = 1 .. n
    OBVIOUS
  <1>2. r[n + 1] = x /\ \A j \in 1 .. n : r[j] = b[j]
    OBVIOUS
  <1>3. \A j \in 1 .. n + 1 : j \in 1 .. n \/ j = n + 1
    OBVIOUS
  <1>4. \A j \in 1 .. n : j \in 1 .. n + 1 /\ j # n + 1
    OBVIOUS
  <1>5. n + 1 \in 1 .. n + 1
    OBVIOUS
  <1>6. OncePending(r)
    BY <1>1, <1>2, <1>3 DEF OncePending, Waits
  <1>7. \A c : Waits(r, c) <=> Waits(b, c) \/ c = x
    BY <1>1, <1>2, <1>3, <1>4, <1>5 DEF Waits
  <1>8. QED
    BY <1>1, <1>6, <1>7

(* accept takes the oldest connection of the backlog.                      *)
LEMMA BacklogShrinks ==
    ASSUME NEW b \in Seq(Clients), b # << >>, OncePending(b)
    PROVE  /\ Head(b) \in Clients /\ Waits(b, Head(b))
           /\ Tail(b) \in Seq(Clients) /\ OncePending(Tail(b))
           /\ \A c : Waits(Tail(b), c) <=> Waits(b, c) /\ c # Head(b)
  <1> PICK n \in Nat : n = Len(b)
    OBVIOUS
  <1> PICK r : r = Tail(b)
    OBVIOUS
  <1>1. n \in Nat \ {0} /\ DOMAIN b = 1 .. n
    OBVIOUS
  <1>2. r \in Seq(Clients) /\ Len(r) = n - 1 /\ DOMAIN r = 1 .. n - 1
    BY <1>1
  <1>3. \A j \in 1 .. n - 1 : r[j] = b[j + 1]
    BY <1>1
  <1>4. Head(b) = b[1] /\ 1 \in 1 .. n /\ b[1] \in Clients
    BY <1>1
  <1>5. \A j \in 1 .. n - 1 : j + 1 \in 1 .. n /\ j + 1 # 1
    BY <1>1
  <1>6. \A j \in 1 .. n : j = 1 \/ (j - 1 \in 1 .. n - 1 /\ (j - 1) + 1 = j)
    BY <1>1
  <1>7. \A i, j \in 1 .. n - 1 : i + 1 = j + 1 => i = j
    BY <1>1
  <1>8. \A i, j \in 1 .. n : b[i] = b[j] => i = j
    BY <1>1 DEF OncePending
  <1>9. OncePending(r)
    BY <1>2, <1>3, <1>5, <1>7, <1>8 DEF OncePending
  <1>10. ASSUME NEW c
         PROVE  Waits(r, c) <=> Waits(b, c) /\ c # b[1]
    <2>1. ASSUME NEW j \in 1 .. n - 1, r[j] = c
          PROVE  Waits(b, c) /\ c # b[1]
      BY <1>1, <1>3, <1>4, <1>5, <1>8, <2>1 DEF Waits
    <2>2. ASSUME NEW j \in 1 .. n, b[j] = c, c # b[1]
          PROVE  Waits(r, c)
      <3>1. j - 1 \in 1 .. n - 1 /\ (j - 1) + 1 = j
        BY <1>6, <2>2
      <3>2. r[j - 1] = c
        BY <1>3, <2>2, <3>1
      <3>3. QED
        BY <1>2, <3>1, <3>2 DEF Waits
    <2>3. QED
      BY <1>1, <1>2, <2>1, <2>2 DEF Waits
  <1>11. Waits(b, Head(b))
    BY <1>1, <1>4 DEF Waits
  <1>12. QED
    BY <1>2, <1>4, <1>9, <1>10, <1>11

-----------------------------------------------------------------------------
(***************************************************************************)
(* What a step must show of the pass.                                      *)
(***************************************************************************)

(* A step that leaves the pass where it is and the table's clients alone.  *)
LEMMA QuietStep ==
    ASSUME LoopIInv, TypeOK', SameClients(conns', conns),
           pc' = pc, cursor' = cursor, readable' = readable,
           handled' = handled, listening' = listening,
           Owned(conns', backlog', sock'),
           backlog # << >> => backlog' # << >>
    PROVE  LoopIInv'
  <1>1. \A c : Holds(conns', c) <=> Holds(conns, c)
    <2>1. conns \in Seq(Conn) /\ OneEntryEach(conns)
      BY DEF LoopIInv, TypeOK, Owned
    <2>2. QED
      BY <2>1, SameClientsHold
  <1>2. PassStarts'
    BY <1>1 DEF LoopIInv, PassStarts
  <1>3. PassExact'
    <2>1. SUFFICES ASSUME pc = "process"
                   PROVE  PassExact'
      BY DEF PassExact
    <2>2. cursor \in Nat /\ cursor <= Len(conns) /\ Len(conns) \in Nat
      BY <2>1 DEF LoopIInv, PassExact, TypeOK
    <2>3. /\ Len(conns') = Len(conns)
          /\ \A i \in 1 .. cursor : conns'[i].client = conns[i].client
      BY <2>2 DEF SameClients
    <2>4. {conns'[i].client : i \in 1 .. cursor}
             = {conns[i].client : i \in 1 .. cursor}
      BY <2>3
    <2>5. QED
      BY <2>1, <2>2, <2>3, <2>4 DEF LoopIInv, PassExact
  <1>4. QED
    BY <1>2, <1>3 DEF LoopIInv

(* One turn of the pass: the entry under the cursor may change or go, the  *)
(* ones below it do not move.                                              *)
LEMMA TurnStep ==
    ASSUME LoopIInv, TypeOK', Look,
           Owned(conns', backlog', sock'),
           Len(conns) - 1 <= Len(conns'),
           \A j \in 1 .. cursor - 1 : conns'[j].client = conns[j].client
    PROVE  LoopIInv'
  <1>1. /\ pc = "process" /\ pc' = "process"
        /\ cursor' = cursor - 1 /\ readable' = readable
        /\ handled' = handled \cup {conns[cursor].client}
    BY DEF Look, Entry
  <1>2. /\ cursor \in Nat \ {0} /\ cursor <= Len(conns) /\ Len(conns) \in Nat
        /\ conns \in Seq(Conn) /\ conns' \in Seq(Conn) /\ Len(conns') \in Nat
    BY <1>1 DEF LoopIInv, PassExact, TypeOK, Look
  <1> PICK ahead : ahead = {conns[i].client : i \in 1 .. cursor}
    OBVIOUS
  <1> PICK after : after = {conns'[i].client : i \in 1 .. cursor - 1}
    OBVIOUS
  <1>3. ahead \cap handled = {} /\ readable \subseteq ahead \cup handled
    BY <1>1 DEF LoopIInv, PassExact
  <1>4. \A i \in 1 .. cursor : i \in 1 .. cursor - 1 \/ i = cursor
    BY <1>2
  <1>5. \A i \in 1 .. cursor - 1 : i \in 1 .. cursor /\ i # cursor
    BY <1>2
  <1>6. after \subseteq ahead
    BY <1>5
  <1>7. ahead \subseteq after \cup {conns[cursor].client}
    BY <1>4
  <1>8. conns[cursor].client \notin after
    <2>1. \A i, j \in 1 .. cursor :
             conns[i].client = conns[j].client => i = j
      BY <1>2 DEF LoopIInv, Owned, OneEntryEach
    <2>2. cursor \in 1 .. cursor
      BY <1>2
    <2>3. QED
      BY <1>5, <2>1, <2>2
  <1>9. PassExact'
    <2>1. cursor' <= Len(conns')
      BY <1>1, <1>2
    <2>2. {conns'[i].client : i \in 1 .. cursor'} = after
      BY <1>1
    <2>3. after \cap handled' = {} /\ readable' \subseteq after \cup handled'
      BY <1>1, <1>3, <1>6, <1>7, <1>8
    <2>4. QED
      BY <2>1, <2>2, <2>3 DEF PassExact
  <1>10. PassStarts'
    BY <1>1 DEF PassStarts
  <1>11. QED
    BY <1>9, <1>10 DEF LoopIInv

(* A step outside the pass that leads to one of its preparations.          *)
LEMMA OutsideStep ==
    ASSUME LoopIInv, TypeOK', pc' \in {"prepare", "select", "stopped"},
           handled' = {}, Owned(conns', backlog', sock')
    PROVE  LoopIInv'
  BY DEF LoopIInv, PassStarts, PassExact

-----------------------------------------------------------------------------
(***************************************************************************)
(* The environment.                                                        *)
(***************************************************************************)

(* A table that does not change keeps its clients.                         *)
LEMMA Unmoved ==
    ASSUME TypeOK, conns' = conns
    PROVE  SameClients(conns', conns)
  BY DEF TypeOK, SameClients

(* A client connects: it was neither in the backlog nor in the table.      *)
LEMMA ConnectStep ==
    ASSUME LoopIInv, NEW x \in Clients, Connect(x)
    PROVE  LoopIInv'
  <1>1. TypeOK /\ Owned(conns, backlog, sock)
    BY DEF LoopIInv
  <1>2. /\ sock[x] = "none" /\ sock' = [sock EXCEPT ![x] = "backlog"]
        /\ backlog' = Append(backlog, x) /\ conns' = conns
    BY DEF Connect
  <1>3. backlog \in Seq(Clients) /\ OncePending(backlog) /\ ~Waits(backlog, x)
    BY <1>1, <1>2 DEF TypeOK, Owned
  <1>4. /\ backlog' \in Seq(Clients) /\ backlog' # << >>
        /\ OncePending(backlog')
        /\ \A c : Waits(backlog', c) <=> Waits(backlog, c) \/ c = x
    BY <1>2, <1>3, BacklogGrows
  <1>5. /\ sock \in [Clients -> Sockets] /\ sock' \in [Clients -> Sockets]
        /\ sock'[x] = "backlog"
        /\ \A c \in Clients : c # x => sock'[c] = sock[c]
    BY <1>1, <1>2 DEF TypeOK, Sockets
  <1>6. TypeOK'
    BY <1>1, <1>4, <1>5 DEF TypeOK, Connect, store
  <1>7. Owned(conns', backlog', sock')
    <2>1. \A c \in Clients : sock'[c] = "open" <=> Holds(conns', c)
      BY <1>1, <1>2, <1>5 DEF Owned
    <2>2. \A c \in Clients : sock'[c] = "backlog" <=> Waits(backlog', c)
      BY <1>1, <1>4, <1>5 DEF Owned
    <2>3. QED
      BY <1>1, <1>2, <1>4, <2>1, <2>2 DEF Owned
  <1>8. QED
    BY <1>1, <1>2, <1>4, <1>6, <1>7, Unmoved, QuietStep DEF Connect

(* A client sends.                                                         *)
LEMMA SendStep ==
    ASSUME LoopIInv, NEW x \in Clients, NEW what \in Input \ {"none"},
           Send(x, what)
    PROVE  LoopIInv'
  <1>1. TypeOK /\ Owned(conns, backlog, sock)
    BY DEF LoopIInv
  <1>2. TypeOK'
    BY <1>1 DEF TypeOK, Send, store
  <1>3. QED
    BY <1>1, <1>2, Unmoved, QuietStep DEF Send

(* A client whose connection was closed gives its socket up.               *)
LEMMA ReopenStep ==
    ASSUME LoopIInv, NEW x \in Clients, Reopen(x)
    PROVE  LoopIInv'
  <1>1. TypeOK /\ Owned(conns, backlog, sock)
    BY DEF LoopIInv
  <1>2. /\ sock[x] = "closed" /\ sock' = [sock EXCEPT ![x] = "none"]
        /\ backlog' = backlog /\ conns' = conns
    BY DEF Reopen
  <1>3. /\ sock' \in [Clients -> Sockets] /\ sock'[x] = "none"
        /\ \A c \in Clients : c # x => sock'[c] = sock[c]
    BY <1>1, <1>2 DEF TypeOK, Sockets
  <1>4. TypeOK'
    BY <1>1, <1>3 DEF TypeOK, Reopen, store
  <1>5. Owned(conns', backlog', sock')
    BY <1>1, <1>2, <1>3 DEF Owned
  <1>6. QED
    BY <1>1, <1>2, <1>4, <1>5, Unmoved, QuietStep DEF Reopen

(* redp2p_stop.                                                            *)
LEMMA RequestStopStep ==
    ASSUME LoopIInv, RequestStop
    PROVE  LoopIInv'
  <1>1. TypeOK /\ Owned(conns, backlog, sock)
    BY DEF LoopIInv
  <1>2. TypeOK'
    BY <1>1 DEF TypeOK, RequestStop, store, net
  <1>3. QED
    BY <1>1, <1>2, Unmoved, QuietStep DEF RequestStop, net

(* The clock: ages grow, and saturate just past the request timeout.       *)
LEMMA TickStep ==
    ASSUME LoopIInv, NEW expired, Tick(expired)
    PROVE  LoopIInv'
  <1>1. TypeOK /\ Owned(conns, backlog, sock)
    BY DEF LoopIInv
  <1>2. conns \in Seq(Conn) /\ Len(conns) \in Nat
        /\ DOMAIN conns = 1 .. Len(conns)
    BY <1>1 DEF TypeOK
  <1>3. ASSUME NEW i \in 1 .. Len(conns)
        PROVE  /\ [conns[i] EXCEPT !.age = Older(@, HttpTimeout)] \in Conn
               /\ [conns[i] EXCEPT !.age = Older(@, HttpTimeout)].client
                     = conns[i].client
    <2>1. conns[i] \in Conn
      BY <1>2
    <2>2. conns[i].age \in 0 .. HttpTimeout + 1
      BY <2>1 DEF Conn
    <2>3. Older(conns[i].age, HttpTimeout) \in 0 .. HttpTimeout + 1
      BY <2>2 DEF Older
    <2>4. QED
      BY <2>1, <2>3 DEF Conn
  <1>4. /\ conns' \in [1 .. Len(conns) -> Conn]
        /\ \A i \in 1 .. Len(conns) : conns'[i].client = conns[i].client
    BY <1>2, <1>3 DEF Tick
  <1>5. SameClients(conns', conns)
    BY <1>2, <1>4, SeqOfFunction DEF SameClients
  <1>6. sincePrune' \in 0 .. PruneInterval + 1
    BY <1>1 DEF TypeOK, Tick, Older
  <1>7. conns' \in Seq(Conn) /\ Len(conns') <= MaxConns
    BY <1>1, <1>5 DEF SameClients, TypeOK
  <1>8. stale' \in BOOLEAN /\ staleCall' \in BOOLEAN
    BY DEF Tick
  <1>9. TypeOK'
    BY <1>1, <1>6, <1>7, <1>8 DEF TypeOK, Tick, net
  <1>10. Owned(conns', backlog', sock')
    <2>1. OneEntryEach(conns') /\ \A c : Holds(conns', c) <=> Holds(conns, c)
      BY <1>1, <1>2, <1>5, SameClientsHold DEF Owned
    <2>2. QED
      BY <1>1, <2>1 DEF Owned, Tick, net
  <1>11. QED
    BY <1>5, <1>9, <1>10, QuietStep DEF Tick, net

-----------------------------------------------------------------------------
(***************************************************************************)
(* The loop.                                                               *)
(***************************************************************************)

(* redp2p_index_runtime_cleanup closes every accepted connection, and the  *)
(* listener's end closes the backlog.                                      *)
LEMMA LeaveStep ==
    ASSUME LoopIInv, Leave
    PROVE  LoopIInv'
  <1>1. TypeOK /\ Owned(conns, backlog, sock)
    BY DEF LoopIInv
  <1>2. /\ conns' = << >> /\ backlog' = << >> /\ pc' = "stopped"
        /\ sock' = [c \in Clients |->
                      IF Holds(conns, c) \/ sock[c] = "backlog" THEN "closed"
                      ELSE sock[c]]
    BY DEF Leave, InTable, Holds
  <1>3. /\ sock' \in [Clients -> Sockets]
        /\ \A c \in Clients : sock'[c] # "open" /\ sock'[c] # "backlog"
    <2>1. ASSUME NEW c \in Clients
          PROVE  sock'[c] \in {"none", "closed"}
      <3>1. sock[c] \in Sockets
        BY <1>1 DEF TypeOK
      <3>2. sock[c] = "open" <=> Holds(conns, c)
        BY <1>1 DEF Owned
      <3>3. QED
        BY <1>2, <3>1, <3>2 DEF Sockets
    <2>2. QED
      BY <1>2, <2>1 DEF Sockets
  <1>4. /\ conns' \in Seq(Conn) /\ Len(conns') = 0
        /\ backlog' \in Seq(Clients)
        /\ DOMAIN conns' = {} /\ DOMAIN backlog' = {}
    BY <1>2
  <1>5. avail' \in [Clients -> Input]
    BY DEF Leave, Input
  <1>6. TypeOK'
    <2>1. /\ cursor' = cursor /\ readable' = readable
          /\ listening' = listening /\ handled' = handled
          /\ sincePrune' = sincePrune /\ stale' = stale
          /\ staleCall' = staleCall /\ stopReq' = FALSE
      BY DEF Leave, store
    <2>2. Len(conns') <= MaxConns
      BY <1>4
    <2>3. pc' \in {"prepare", "select", "accept", "process", "stopped"}
      BY <1>2
    <2>4. QED
      BY <1>1, <1>3, <1>4, <1>5, <2>1, <2>2, <2>3 DEF TypeOK
  <1>7. Owned(conns', backlog', sock')
    BY <1>3, <1>4 DEF Owned, Holds, Waits, OneEntryEach, OncePending
  <1>8. handled' = {}
    BY DEF Leave, LoopIInv, PassStarts
  <1>9. QED
    BY <1>2, <1>6, <1>7, <1>8, OutsideStep

(* redp2p_index_prepare_fdset and a select that times out touch no socket. *)
LEMMA IdleStep ==
    ASSUME LoopIInv, Prepare \/ SelectIdle
    PROVE  LoopIInv'
  <1>1. TypeOK /\ Owned(conns, backlog, sock)
    BY DEF LoopIInv
  <1>2. conns' = conns /\ backlog' = backlog /\ sock' = sock
    BY DEF Prepare, SelectIdle, net
  <1>3. sincePrune' \in 0 .. PruneInterval + 1 /\ stale' \in BOOLEAN
        /\ staleCall' \in BOOLEAN
    <2>1. /\ sincePrune \in 0 .. PruneInterval + 1 /\ stale \in BOOLEAN
          /\ staleCall \in BOOLEAN
      BY <1>1 DEF TypeOK
    <2>2. sincePrune' = sincePrune \/ sincePrune' = 0
      BY DEF Prepare, SelectIdle
    <2>3. stale' = stale \/ stale' = FALSE
      BY DEF Prepare, SelectIdle
    <2>4. staleCall' = staleCall \/ staleCall' = FALSE
      BY DEF Prepare, SelectIdle
    <2>5. 0 \in 0 .. PruneInterval + 1
      OBVIOUS
    <2>6. QED
      BY <2>1, <2>2, <2>3, <2>4, <2>5
  <1>4. TypeOK'
    BY <1>1, <1>2, <1>3 DEF TypeOK, Prepare, SelectIdle, net
  <1>5. pc' \in {"prepare", "select"} /\ handled' = {}
    BY DEF LoopIInv, PassStarts, Prepare, SelectIdle
  <1>6. QED
    BY <1>1, <1>2, <1>4, <1>5, OutsideStep

(* What select reports is in the table, or is the listener with something  *)
(* to accept.                                                              *)
LEMMA SelectStep ==
    ASSUME LoopIInv, SelectReady
    PROVE  LoopIInv'
  <1>1. TypeOK /\ Owned(conns, backlog, sock)
    BY DEF LoopIInv
  <1>2. /\ conns' = conns /\ backlog' = backlog /\ sock' = sock
        /\ pc' = "accept" /\ handled' = handled
        /\ readable' = ReadyNow /\ listening' = (backlog # << >>)
    BY DEF SelectReady, net
  <1>3. readable' \subseteq Clients /\ \A c \in readable' : Holds(conns', c)
    BY <1>2 DEF ReadyNow, InTable, Holds
  <1>4. TypeOK'
    BY <1>1, <1>2, <1>3 DEF TypeOK, SelectReady, net, store
  <1>5. handled = {}
    BY DEF LoopIInv, PassStarts, SelectReady
  <1>6. PassStarts' /\ PassExact'
    BY <1>2, <1>3, <1>5 DEF PassStarts, PassExact
  <1>7. QED
    BY <1>1, <1>2, <1>4, <1>6 DEF LoopIInv

(* The pass starts at the end of the table accept left, with nobody        *)
(* looked at.                                                              *)
LEMMA PassBegins ==
    ASSUME LoopIInv, pc = "accept", pc' = "process", cursor' = Len(conns'),
           readable' = readable, handled' = handled, TypeOK',
           Owned(conns', backlog', sock'),
           \A c : Holds(conns, c) => Holds(conns', c)
    PROVE  LoopIInv'
  <1>1. handled' = {} /\ \A c \in readable' : Holds(conns', c)
    BY DEF LoopIInv, PassStarts
  <1>2. DOMAIN conns' = 1 .. cursor' /\ cursor' <= Len(conns')
    BY DEF TypeOK
  <1>3. readable' \subseteq {conns'[i].client : i \in 1 .. cursor'}
    BY <1>1, <1>2 DEF Holds
  <1>4. PassExact' /\ PassStarts'
    BY <1>1, <1>2, <1>3 DEF PassExact, PassStarts
  <1>5. QED
    BY <1>4 DEF LoopIInv

(* redp2p_index_accept_connection: nothing accepted, a place for the       *)
(* newcomer, or none and it is closed.                                     *)
LEMMA AcceptStep ==
    ASSUME LoopIInv, Accept
    PROVE  LoopIInv'
  <1>1. TypeOK /\ Owned(conns, backlog, sock)
    BY DEF LoopIInv
  <1>2. /\ pc = "accept" /\ pc' = "process" /\ cursor' = Len(conns')
        /\ readable' = readable /\ handled' = handled
        /\ listening' = listening /\ stopReq' = stopReq
        /\ sincePrune' = sincePrune /\ stale' = stale
        /\ staleCall' = staleCall
    BY DEF Accept, store
  <1>3. ASSUME conns' \in Seq(Conn), Len(conns') <= MaxConns,
               backlog' \in Seq(Clients), sock' \in [Clients -> Sockets],
               avail' \in [Clients -> Input]
        PROVE  TypeOK'
    <2>1. cursor' \in 0 .. MaxConns
      BY <1>2, <1>3
    <2>2. QED
      BY <1>1, <1>2, <1>3, <2>1 DEF TypeOK
  <1>4. CASE UNCHANGED <<conns, backlog, sock, avail>>
    <2>1. TypeOK'
      BY <1>1, <1>3, <1>4 DEF TypeOK
    <2>2. QED
      BY <1>1, <1>2, <1>4, <2>1, PassBegins
  <1>5. ASSUME listening, backlog' = Tail(backlog),
               \/ /\ Room /\ avail' = avail
                  /\ conns' = Append(conns, [client |-> Head(backlog),
                                             read |-> FALSE, age |-> 0])
                  /\ sock' = [sock EXCEPT ![Head(backlog)] = "open"]
               \/ /\ conns' = conns
                  /\ sock' = [sock EXCEPT ![Head(backlog)] = "closed"]
                  /\ avail' = [avail EXCEPT ![Head(backlog)] = "none"]
        PROVE  LoopIInv'
    <2>1. backlog # << >>
      BY <1>2, <1>5 DEF LoopIInv, PassStarts
    <2> PICK x : x = Head(backlog)
      OBVIOUS
    <2>2. /\ x \in Clients /\ Waits(backlog, x)
          /\ Tail(backlog) \in Seq(Clients) /\ OncePending(Tail(backlog))
          /\ \A c : Waits(Tail(backlog), c) <=> Waits(backlog, c) /\ c # x
      BY <1>1, <2>1, BacklogShrinks DEF TypeOK, Owned
    <2>3. backlog' = Tail(backlog)
      BY <1>5
    <2>4. sock[x] = "backlog" /\ ~Holds(conns, x)
      BY <1>1, <2>2 DEF Owned
    <2>5. ASSUME Room, avail' = avail,
                 conns' = Append(conns, [client |-> x, read |-> FALSE,
                                         age |-> 0]),
                 sock' = [sock EXCEPT ![x] = "open"]
          PROVE  LoopIInv'
      <3> PICK e : e = [client |-> x, read |-> FALSE, age |-> 0]
        OBVIOUS
      <3>1. /\ conns' = Append(conns, e)
            /\ sock' = [sock EXCEPT ![x] = "open"] /\ avail' = avail
        BY <2>5
      <3>2. e \in Conn /\ e.client = x
        BY <2>2 DEF Conn
      <3>3. conns \in Seq(Conn) /\ OneEntryEach(conns)
        BY <1>1 DEF TypeOK, Owned
      <3>4. With(conns', conns, e)
        BY <2>4, <3>1, <3>2, <3>3, AddGives
      <3>5. /\ conns' \in Seq(Conn) /\ Len(conns') = Len(conns) + 1
            /\ OneEntryEach(conns')
            /\ \A c : Holds(conns', c) <=> Holds(conns, c) \/ c = x
        BY <3>2, <3>4 DEF With
      <3>6. Len(conns') <= MaxConns
        BY <2>5, <3>3, <3>5 DEF Room
      <3>7. /\ sock' \in [Clients -> Sockets] /\ sock'[x] = "open"
            /\ \A c \in Clients : c # x => sock'[c] = sock[c]
        BY <1>1, <2>2, <3>1 DEF TypeOK, Sockets
      <3>8. TypeOK'
        BY <1>1, <1>3, <2>2, <2>3, <3>1, <3>5, <3>6, <3>7 DEF TypeOK
      <3>9. Owned(conns', backlog', sock')
        BY <1>1, <2>2, <2>3, <2>4, <3>5, <3>7 DEF Owned
      <3>10. QED
        BY <1>2, <3>5, <3>8, <3>9, PassBegins
    <2>6. ASSUME conns' = conns,
                 sock' = [sock EXCEPT ![x] = "closed"],
                 avail' = [avail EXCEPT ![x] = "none"]
          PROVE  LoopIInv'
      <3>1. /\ conns' = conns
            /\ sock' = [sock EXCEPT ![x] = "closed"]
            /\ avail' = [avail EXCEPT ![x] = "none"]
        BY <2>6
      <3>2. /\ sock' \in [Clients -> Sockets] /\ sock'[x] = "closed"
            /\ \A c \in Clients : c # x => sock'[c] = sock[c]
        BY <1>1, <2>2, <3>1 DEF TypeOK, Sockets
      <3>3. avail' \in [Clients -> Input]
        BY <1>1, <3>1 DEF TypeOK, Input
      <3>4. TypeOK'
        BY <1>1, <1>3, <2>2, <2>3, <3>1, <3>2, <3>3 DEF TypeOK
      <3>5. Owned(conns', backlog', sock')
        BY <1>1, <2>2, <2>3, <2>4, <3>1, <3>2 DEF Owned
      <3>6. QED
        BY <1>2, <3>1, <3>4, <3>5, PassBegins
    <2>7. QED
      BY <1>5, <2>5, <2>6
  <1>6. QED
    BY <1>4, <1>5 DEF Accept

(* The end of the pass.                                                    *)
LEMMA PassDoneStep ==
    ASSUME LoopIInv, PassDone
    PROVE  LoopIInv'
  <1>1. TypeOK /\ Owned(conns, backlog, sock)
    BY DEF LoopIInv
  <1>2. conns' = conns /\ backlog' = backlog /\ sock' = sock
        /\ pc' = "prepare" /\ handled' = {}
    BY DEF PassDone, net
  <1>3. TypeOK'
    BY <1>1, <1>2 DEF TypeOK, PassDone, net, store
  <1>4. QED
    BY <1>1, <1>2, <1>3, OutsideStep

(* Where a turn of the pass stands.                                        *)
LEMMA TurnAt ==
    ASSUME LoopIInv, Look
    PROVE  /\ cursor \in 1 .. Len(conns) /\ Len(conns) \in Nat
           /\ conns \in Seq(Conn)
           /\ Entry \in Conn /\ Entry.client \in Clients
           /\ Entry.client = conns[cursor].client
           /\ handled' \subseteq Clients /\ cursor' \in 0 .. MaxConns
  <1>1. TypeOK /\ pc = "process" /\ cursor > 0
    BY DEF LoopIInv, Look
  <1>2. conns \in Seq(Conn) /\ cursor <= Len(conns) /\ cursor \in 0 .. MaxConns
    BY <1>1 DEF LoopIInv, PassExact, TypeOK
  <1>3. cursor \in 1 .. Len(conns) /\ Len(conns) \in Nat
    BY <1>1, <1>2
  <1>4. Entry \in Conn
    BY <1>2, <1>3 DEF Entry
  <1>5. Entry.client \in Clients
    BY <1>4 DEF Conn
  <1>6. cursor' \in 0 .. MaxConns
    BY <1>1, <1>2 DEF Look
  <1>7. handled' \subseteq Clients
    BY <1>1, <1>5 DEF Look, TypeOK
  <1>8. QED
    BY <1>2, <1>3, <1>4, <1>5, <1>6, <1>7 DEF Entry

(* A turn that closes its connection: a timeout, an end of file, an error  *)
(* or an answered request.  The entry that takes its place was looked at   *)
(* before.                                                                 *)
LEMMA CloseStep ==
    ASSUME LoopIInv, Look, CloseEntry, stale' \in BOOLEAN
    PROVE  LoopIInv'
  <1>1. TypeOK /\ Owned(conns, backlog, sock)
    BY DEF LoopIInv
  <1>2. /\ cursor \in 1 .. Len(conns) /\ Len(conns) \in Nat
        /\ conns \in Seq(Conn)
        /\ handled' \subseteq Clients /\ cursor' \in 0 .. MaxConns
    BY TurnAt
  <1> PICK x \in Clients : x = conns[cursor].client /\ x = Entry.client
    BY TurnAt
  <1>3. /\ conns' = ConnRemove(conns, cursor)
        /\ sock' = [sock EXCEPT ![x] = "closed"]
        /\ avail' = [avail EXCEPT ![x] = "none"]
    BY DEF CloseEntry
  <1>4. Without(conns', conns, cursor)
    BY <1>1, <1>2, <1>3, RemoveLeaves DEF Owned
  <1>5. /\ conns' \in Seq(Conn) /\ Len(conns') = Len(conns) - 1
        /\ OneEntryEach(conns')
        /\ \A j \in 1 .. cursor - 1 : conns'[j] = conns[j]
        /\ \A c : Holds(conns', c) <=> Holds(conns, c) /\ c # x
    BY <1>4 DEF Without
  <1>6. /\ sock' \in [Clients -> Sockets] /\ sock'[x] = "closed"
        /\ \A c \in Clients : c # x => sock'[c] = sock[c]
    BY <1>1, <1>3 DEF TypeOK, Sockets
  <1>7. avail' \in [Clients -> Input]
    BY <1>1, <1>3 DEF TypeOK, Input
  <1>8. Len(conns') <= MaxConns
    BY <1>1, <1>2, <1>5 DEF TypeOK
  <1>9. TypeOK'
    BY <1>1, <1>2, <1>5, <1>6, <1>7, <1>8 DEF TypeOK, Look
  <1>10. backlog' = backlog
    BY DEF Look
  <1>11. sock[x] = "open"
    <2>1. DOMAIN conns = 1 .. Len(conns)
      BY <1>2
    <2>2. Holds(conns, x)
      BY <1>2, <2>1 DEF Holds
    <2>3. QED
      BY <1>1, <2>2 DEF Owned
  <1>12. Owned(conns', backlog', sock')
    <2>1. \A c \in Clients : sock'[c] = "backlog" <=> sock[c] = "backlog"
      BY <1>6, <1>11
    <2>2. QED
      BY <1>1, <1>5, <1>6, <1>10, <2>1 DEF Owned
  <1>13. /\ Len(conns) - 1 <= Len(conns')
         /\ \A j \in 1 .. cursor - 1 : conns'[j].client = conns[j].client
    BY <1>2, <1>5
  <1>14. QED
    BY <1>9, <1>12, <1>13, TurnStep

(* A turn over a connection with nothing to read.                          *)
LEMMA SkipStep ==
    ASSUME LoopIInv, SkipQuiet
    PROVE  LoopIInv'
  <1>1. TypeOK /\ Owned(conns, backlog, sock) /\ Look
    BY DEF LoopIInv, SkipQuiet
  <1>2. conns' = conns /\ backlog' = backlog /\ sock' = sock
        /\ avail' = avail /\ stale' = stale
    BY DEF SkipQuiet, Look
  <1>3. Len(conns) \in Nat /\ handled' \subseteq Clients
        /\ cursor' \in 0 .. MaxConns
    BY <1>1, TurnAt
  <1>4. TypeOK'
    BY <1>1, <1>2, <1>3 DEF TypeOK, Look
  <1>5. Len(conns) - 1 <= Len(conns')
    BY <1>2, <1>3
  <1>6. QED
    BY <1>1, <1>2, <1>4, <1>5, TurnStep

(* A turn that reads part of a request.                                    *)
LEMMA ReadPartStep ==
    ASSUME LoopIInv, ReadPart
    PROVE  LoopIInv'
  <1>1. TypeOK /\ Owned(conns, backlog, sock) /\ Look
    BY DEF LoopIInv, ReadPart
  <1>2. /\ cursor \in 1 .. Len(conns) /\ Len(conns) \in Nat
        /\ conns \in Seq(Conn) /\ Entry.client \in Clients
        /\ handled' \subseteq Clients /\ cursor' \in 0 .. MaxConns
    BY <1>1, TurnAt
  <1>3. /\ conns' = [conns EXCEPT ![cursor].read = TRUE]
        /\ avail' = [avail EXCEPT ![Entry.client] = "none"]
        /\ backlog' = backlog /\ sock' = sock /\ stale' = stale
    BY DEF ReadPart, Look
  <1> PICK e : e = [conns[cursor] EXCEPT !.read = TRUE]
    OBVIOUS
  <1>4. e \in Conn /\ e.client = conns[cursor].client
    <2>1. conns[cursor] \in Conn
      BY <1>2
    <2>2. QED
      BY <2>1 DEF Conn
  <1>5. conns' = [conns EXCEPT ![cursor] = e]
    BY <1>3
  <1>6. /\ conns' \in Seq(Conn) /\ Len(conns') = Len(conns)
        /\ \A i \in 1 .. Len(conns) :
              conns'[i] = IF i = cursor THEN e ELSE conns[i]
    BY <1>2, <1>4, <1>5
  <1>7. SameClients(conns', conns)
    BY <1>4, <1>6 DEF SameClients
  <1>8. avail' \in [Clients -> Input]
    BY <1>1, <1>2, <1>3 DEF TypeOK, Input
  <1>9. Len(conns') <= MaxConns
    BY <1>1, <1>6 DEF TypeOK
  <1>10. TypeOK'
    BY <1>1, <1>2, <1>3, <1>6, <1>8, <1>9 DEF TypeOK, Look
  <1>11. Owned(conns', backlog', sock')
    <2>1. OneEntryEach(conns') /\ \A c : Holds(conns', c) <=> Holds(conns, c)
      BY <1>1, <1>2, <1>7, SameClientsHold DEF Owned
    <2>2. QED
      BY <1>1, <1>3, <2>1 DEF Owned
  <1>12. /\ Len(conns) - 1 <= Len(conns')
         /\ \A j \in 1 .. cursor - 1 : conns'[j].client = conns[j].client
    <2>1. \A j \in 1 .. cursor - 1 : j \in 1 .. Len(conns)
      BY <1>2
    <2>2. QED
      BY <1>2, <1>7, <2>1 DEF SameClients
  <1>13. QED
    BY <1>1, <1>10, <1>11, <1>12, TurnStep

-----------------------------------------------------------------------------
(* The table is empty when redp2p_serve_index enters its loop.             *)
LEMMA LoopInit == Init => LoopIInv
  <1> SUFFICES ASSUME Init PROVE LoopIInv
    OBVIOUS
  <1>1. /\ conns \in Seq(Conn) /\ Len(conns) = 0 /\ DOMAIN conns = {}
        /\ backlog \in Seq(Clients) /\ DOMAIN backlog = {}
    BY DEF Init
  <1>2. sock \in [Clients -> Sockets] /\ avail \in [Clients -> Input]
        /\ \A c \in Clients : sock[c] = "none"
    BY DEF Init, Sockets, Input
  <1>3. TypeOK
    <2>1. /\ 0 \in 0 .. MaxConns /\ 0 \in 0 .. PruneInterval + 1
          /\ Len(conns) <= MaxConns
      BY <1>1
    <2>2. /\ pc = "prepare" /\ cursor = 0 /\ readable = {}
          /\ handled = {} /\ listening = FALSE /\ stopReq = FALSE
          /\ sincePrune = 0 /\ stale = FALSE /\ staleCall = FALSE
      BY DEF Init
    <2>3. QED
      BY <1>1, <1>2, <2>1, <2>2 DEF TypeOK
  <1>4. Owned(conns, backlog, sock)
    BY <1>1, <1>2 DEF Owned, Holds, Waits, OneEntryEach, OncePending
  <1>5. PassStarts /\ PassExact
    BY DEF Init, PassStarts, PassExact
  <1>6. QED
    BY <1>3, <1>4, <1>5 DEF LoopIInv

(* Every step of the loop, of a client or of the clock keeps it.           *)
LEMMA LoopNext == LoopIInv /\ [Next]_vars => LoopIInv'
  <1> SUFFICES ASSUME LoopIInv, [Next]_vars PROVE LoopIInv'
    OBVIOUS
  <1>1. CASE Loop
    <2>1. CASE DropTimedOut
      <3>1. Look /\ CloseEntry /\ stale' = stale
        BY <2>1 DEF DropTimedOut
      <3>2. QED
        BY <3>1, CloseStep DEF LoopIInv, TypeOK
    <2>2. ASSUME NEW evicts \in BOOLEAN, ReadEnd(evicts)
          PROVE  LoopIInv'
      <3>1. Look /\ CloseEntry /\ stale' \in BOOLEAN
        BY <2>2 DEF ReadEnd
      <3>2. QED
        BY <3>1, CloseStep
    <2>3. QED
      BY <1>1, <2>1, <2>2, LeaveStep, IdleStep, SelectStep, AcceptStep,
         PassDoneStep, SkipStep, ReadPartStep DEF Loop
  <1>2. CASE Environment
    BY <1>2, ConnectStep, ReopenStep, SendStep, RequestStopStep
       DEF Environment
  <1>3. CASE Ticks
    BY <1>3, TickStep DEF Ticks
  <1>4. CASE UNCHANGED vars
    <2>1. TypeOK /\ Owned(conns, backlog, sock)
      BY DEF LoopIInv
    <2>2. TypeOK'
      BY <1>4, <2>1 DEF TypeOK, vars
    <2>3. QED
      BY <1>4, <2>1, <2>2, Unmoved, QuietStep DEF vars
  <1>5. QED
    BY <1>1, <1>2, <1>3, <1>4 DEF Next

(* Descriptor ownership (SocketsOwned): whatever the clients, the clock    *)
(* and redp2p_stop do, an open server socket is in exactly one entry of    *)
(* the connection table and every entry holds an open one, through swap    *)
(* removal, a full table, timeouts and cleanup.                            *)
THEOREM DescriptorsOwned == Spec => []SocketsOwned
  <1>1. LoopIInv => SocketsOwned
    BY DEF LoopIInv, Owned, SocketsOwned, InTable, Holds, Waits, OneEntryEach
  <1>2. QED
    BY <1>1, LoopInit, LoopNext, PTL DEF Spec

(* The reverse pass of redp2p_index_process_connections is exact           *)
(* (PassExact): it looks at every readable connection once, however many   *)
(* entries its own removals move.                                          *)
THEOREM PassesExact == Spec => []PassExact
  <1>1. LoopIInv => PassExact
    BY DEF LoopIInv
  <1>2. QED
    BY <1>1, LoopInit, LoopNext, PTL DEF Spec
=============================================================================
