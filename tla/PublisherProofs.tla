-------------------------- MODULE PublisherProofs --------------------------
(***************************************************************************)
(* The key file of a registration, for any number of processes, runs,      *)
(* faults and keys.  Two configurations bound what the code can promise:   *)
(* g_key_mutex protects the file only among the threads of one process     *)
(* (OneProcess), and the file has room for the key of one publisher        *)
(* (OnePublisher).                                                         *)
(***************************************************************************)
EXTENDS Publisher, TLAPS

OnePublisher == \A p, q \in Publishers : p = q

Asked == [op : {"none", "register", "heartbeat", "deregister"}, key : Nat,
          res : Results \cup {"none"}]
Record == [key : Nat \ {0}, lastSeen : Nat, info : {Info}]

(* The index holds at most the record of Id, under a key it minted.        *)
RecordInv ==
    /\ minted \in Seq([id : {Id}, pass : {Pass}])
    /\ now \in Nat
    /\ Id \in DOMAIN peers => /\ peers[Id] \in Record
                              /\ peers[Id].key <= Len(minted)

(* What each process holds, and what it knows of its exchange: the answer  *)
(* to a registration carries a key.                                        *)
ClientTypes ==
    /\ pc \in [Procs -> Pcs] /\ key \in [Procs -> Nat] /\ file \in Nat
    /\ http \in [Procs -> Asked]
    /\ late \subseteq [op : {"none", "register", "heartbeat", "deregister"},
                       key : Nat]

HeldAs(p, a, k, h, n) ==
    /\ k <= n
    /\ a \in {"registering", "reregistering"} =>
          /\ h.res = "waiting" => h.op = "register"
          /\ h.res = "OK" => h.key \in 1 .. n
    /\ a = "deleting" /\ h.res = "waiting" => h.op = "deregister"
    /\ a \in {"off", "registering"} \/ k # 0
    /\ p \notin Publishers => a \in {"off", "deleting", "erase", "unlink"}

Held(p) == HeldAs(p, pc[p], key[p], http[p], Len(minted))

(* redp2p_remove_key holds the mutex from its comparison to its unlink.    *)
Locked ==
    /\ \A p \in Procs : pc[p] = "unlink" => file = key[p]
    /\ \A p, q \in Procs : pc[p] = "unlink" /\ pc[q] = "unlink" => p = q

KeyInv ==
    /\ OneProcess /\ RecordInv /\ ClientTypes /\ Locked
    /\ file <= Len(minted)
    /\ \A p \in Procs : Held(p)

(* No record is under key k, and none will be: keys are not minted twice.  *)
Dead(k) == k = 0 \/ k # RecordKey

(* A process that publishes nothing removes the file only of a dead key,   *)
(* and the file of a live one stays.                                       *)
Removes(a, h) == a \in {"erase", "unlink"} \/ (a = "deleting" /\ h.res = "OK")

DeadKeys ==
    \A q \in Procs \ Publishers : Removes(pc[q], http[q]) => Dead(key[q])

Serving == {"loop", "beating", "reregistering"}

Persisted ==
    \A p \in Publishers :
        pc[p] \in Serving /\ RecordKey = key[p] /\ key[p] # 0
            => file = key[p]

FileInv == OnePublisher /\ DeadKeys /\ Persisted

(* The file goes only while it holds the key of the one that removes it.   *)
RemovesOwn ==
    file # 0 /\ file' = 0 => \E p \in Procs : pc[p] = "unlink" /\ key[p] = file

(* What every step is shown to do.                                         *)
Keeps == KeyInv' /\ (FileInv => FileInv') /\ RemovesOwn

-----------------------------------------------------------------------------
(***************************************************************************)
(* The index.                                                              *)
(***************************************************************************)

(* What any step of the index may do to the record: lose it, keep its key, *)
(* or put it under a key never seen before.                                *)
RecordMoves ==
    /\ RecordInv' /\ Len(minted) <= Len(minted')
    /\ Len(minted) \in Nat /\ Len(minted') \in Nat
    /\ \/ RecordKey' = 0 \/ RecordKey' = RecordKey
       \/ RecordKey' > Len(minted)

Answered(op) ==
    /\ RecordMoves
    /\ reply'.key \in Nat
    /\ reply'.status = "ok" /\ op = "register" =>
          reply'.key \in 1 .. Len(minted')
    /\ reply'.status = "ok" /\ op = "deregister" => RecordKey' = 0

(* A step that writes no record.                                           *)
LEMMA RecordSame ==
    ASSUME RecordInv, peers' = peers, minted' = minted, now' \in Nat
    PROVE  RecordMoves
  BY DEF RecordInv, RecordMoves, RecordKey

(* A step that at most loses the record.                                   *)
LEMMA RecordLost ==
    ASSUME RecordInv, minted' = minted, now' \in Nat,
           Id \in DOMAIN peers' => Id \in DOMAIN peers /\ peers'[Id] = peers[Id]
    PROVE  RecordMoves
  BY DEF RecordInv, RecordMoves, RecordKey

(* redp2p_evict_stale.                                                     *)
LEMMA RecordEvicted ==
    ASSUME RecordInv, peers' = idx!EvictStale, minted' = minted, now' \in Nat
    PROVE  RecordMoves
  <1>1. Id \in DOMAIN peers' => Id \in DOMAIN peers /\ peers'[Id] = peers[Id]
    BY DEF idx!EvictStale, idx!FreshIds
  <1>2. QED
    BY <1>1, RecordLost

(* A live record that is refreshed keeps its key.                          *)
LEMMA RecordRefreshed ==
    ASSUME RecordInv, Id \in idx!FreshIds, minted' = minted, now' = now,
           peers' = idx!Upsert(idx!EvictStale, Id,
                        [peers[Id] EXCEPT !.lastSeen = now, !.info = Info])
    PROVE  RecordMoves
  <1>1. Id \in DOMAIN peers
    BY DEF idx!FreshIds
  <1> PICK r : r = [peers[Id] EXCEPT !.lastSeen = now, !.info = Info]
    OBVIOUS
  <1>2. peers[Id] \in Record /\ now \in Nat
    BY <1>1 DEF RecordInv
  <1>3. r \in Record /\ r.key = peers[Id].key
    BY <1>2 DEF Record
  <1>4. peers'[Id] = r /\ Id \in DOMAIN peers'
    BY DEF idx!Upsert
  <1>5. RecordKey' = RecordKey
    BY <1>1, <1>3, <1>4 DEF RecordKey
  <1>6. RecordInv'
    BY <1>1, <1>2, <1>3, <1>4 DEF RecordInv
  <1>7. Len(minted) \in Nat
    BY DEF RecordInv
  <1>8. QED
    BY <1>5, <1>6, <1>7 DEF RecordMoves

(* redp2p_index_handle_register.                                           *)
LEMMA RegisterAnswers ==
    ASSUME RecordInv, NEW out \in {"ok", "internal"},
           idx!HandleRegister(Id, Proof, Info, out)
    PROVE  Answered("register")
  <1>1. now' = now /\ now \in Nat /\ now' \in Nat
    BY DEF idx!HandleRegister, RecordInv
  <1>2. ASSUME NEW status,
               reply' = idx!Respond("register", Id, status), status # "ok",
               peers' = peers \/ peers' = idx!EvictStale, minted' = minted
        PROVE  Answered("register")
    <2>1. reply'.key = 0 /\ reply'.status # "ok"
      BY <1>2 DEF idx!Respond
    <2>2. RecordMoves
      BY <1>1, <1>2, RecordSame, RecordEvicted
    <2>3. QED
      BY <2>1, <2>2 DEF Answered
  <1>3. CASE idx!RegisterDenied(Id, Proof)
    BY <1>2, <1>3 DEF idx!RegisterDenied
  <1>4. CASE idx!RegisterFull(Id, Proof)
    BY <1>2, <1>4 DEF idx!RegisterFull
  <1>5. CASE idx!RegisterFault(Id, Proof)
    BY <1>2, <1>5 DEF idx!RegisterFault
  <1>6. CASE idx!RegisterNew(Id, Proof, Info, out)
    <2> PICK n \in Nat : n = Len(minted)
      BY DEF RecordInv
    <2>1. /\ minted' = Append(minted, [id |-> Id, pass |-> Pass])
          /\ peers' = idx!Upsert(idx!EvictStale, Id,
                          [key |-> n + 1, lastSeen |-> now, info |-> Info])
          /\ reply' = [idx!Respond("register", Id, out) EXCEPT
                          !.key = IF out = "ok" THEN n + 1 ELSE 0]
      BY <1>6 DEF idx!RegisterNew, Proof
    <2>2. /\ minted' \in Seq([id : {Id}, pass : {Pass}])
          /\ Len(minted') = n + 1
      BY <2>1 DEF RecordInv
    <2>3. /\ Id \in DOMAIN peers'
          /\ peers'[Id] = [key |-> n + 1, lastSeen |-> now, info |-> Info]
      BY <2>1 DEF idx!Upsert
    <2>4. peers'[Id] \in Record /\ peers'[Id].key = n + 1
      BY <1>1, <2>3 DEF Record
    <2>5. RecordMoves
      BY <1>1, <2>2, <2>3, <2>4 DEF RecordInv, RecordMoves, RecordKey
    <2>6. reply'.key \in Nat /\ (reply'.status = "ok" => reply'.key = n + 1)
      BY <2>1 DEF idx!Respond
    <2>7. QED
      BY <2>2, <2>5, <2>6 DEF Answered
  <1>7. CASE idx!RegisterRefresh(Id, Proof, Info, out)
    <2>1. /\ Id \in idx!FreshIds /\ minted' = minted
          /\ peers' = idx!Upsert(idx!EvictStale, Id,
                        [peers[Id] EXCEPT !.lastSeen = now, !.info = Info])
          /\ reply' = [idx!Respond("register", Id, out) EXCEPT
                          !.key = IF out = "ok" THEN peers[Id].key ELSE 0]
      BY <1>7 DEF idx!RegisterRefresh
    <2>2. peers[Id].key \in 1 .. Len(minted)
      BY <2>1 DEF idx!FreshIds, RecordInv, Record
    <2>3. /\ reply'.key \in Nat
          /\ reply'.status = "ok" => reply'.key = peers[Id].key
      BY <2>1, <2>2 DEF idx!Respond
    <2>4. RecordMoves
      BY <1>1, <2>1, RecordRefreshed
    <2>5. QED
      BY <2>1, <2>2, <2>3, <2>4 DEF Answered
  <1>8. QED
    BY <1>3, <1>4, <1>5, <1>6, <1>7 DEF idx!HandleRegister

(* redp2p_index_handle_heartbeat.                                          *)
LEMMA HeartbeatAnswers ==
    ASSUME RecordInv, NEW out \in {"ok", "internal"}, NEW k \in Nat,
           idx!HandleHeartbeat(Id, k, Info, out)
    PROVE  Answered("heartbeat")
  <1>1. now' = now /\ now' \in Nat /\ minted' = minted
    BY DEF idx!HandleHeartbeat, RecordInv
  <1>2. RecordMoves
    BY <1>1, RecordEvicted, RecordRefreshed
       DEF idx!HandleHeartbeat, idx!HeartbeatDenied, idx!HeartbeatAccepted
  <1>3. reply'.key = 0
    BY DEF idx!HandleHeartbeat, idx!HeartbeatDenied, idx!HeartbeatAccepted,
           idx!Respond
  <1>4. QED
    BY <1>2, <1>3 DEF Answered

(* redp2p_index_handle_deregister: an accepted one removes the record.     *)
LEMMA DeregisterAnswers ==
    ASSUME RecordInv, NEW out \in {"ok", "internal"}, NEW k \in Nat,
           idx!HandleDeregister(Id, k, out)
    PROVE  Answered("deregister")
  <1>1. now' = now /\ now' \in Nat /\ minted' = minted
    BY DEF idx!HandleDeregister, RecordInv, idx!history
  <1>2. CASE Id \in idx!FreshIds /\ peers[Id].key = k
    <2>1. /\ peers' = idx!RemovePeer(idx!EvictStale, Id)
          /\ reply' = [idx!Respond("deregister", Id, out) EXCEPT !.key = k]
      BY <1>2 DEF idx!HandleDeregister
    <2>2. Id \notin DOMAIN peers'
      BY <2>1 DEF idx!RemovePeer
    <2>3. RecordMoves /\ RecordKey' = 0
      BY <1>1, <2>2, RecordLost DEF RecordKey
    <2>4. reply'.key = k
      BY <2>1 DEF idx!Respond
    <2>5. QED
      BY <2>3, <2>4 DEF Answered
  <1>3. CASE ~(Id \in idx!FreshIds /\ peers[Id].key = k)
    <2>1. /\ peers' = idx!EvictStale
          /\ reply' = idx!Respond("deregister", Id, "invalid_key")
      BY <1>3 DEF idx!HandleDeregister
    <2>2. reply'.key = 0 /\ reply'.status # "ok"
      BY <2>1 DEF idx!Respond
    <2>3. RecordMoves
      BY <1>1, <2>1, RecordEvicted
    <2>4. QED
      BY <2>2, <2>3 DEF Answered
  <1>4. QED
    BY <1>2, <1>3

(* Any request of a client.                                                *)
LEMMA HandleAnswers ==
    ASSUME RecordInv, NEW r, r.key \in Nat, Handle(r)
    PROVE  Answered(r.op)
  BY RegisterAnswers, HeartbeatAnswers, DeregisterAnswers DEF Handle

(* What redp2p_serve_index does by itself.                                 *)
LEMMA IndexMoves ==
    ASSUME RecordInv, idx!Serve \/ idx!Tick \/ idx!Prune
    PROVE  RecordMoves
  <1>1. minted' = minted /\ now' \in Nat
    BY DEF idx!Serve, idx!Tick, idx!Prune, idx!history, RecordInv
  <1>2. peers' = peers \/ peers' = idx!EvictStale
    BY DEF idx!Serve, idx!Tick, idx!Prune
  <1>3. QED
    BY <1>1, <1>2, RecordSame, RecordEvicted

-----------------------------------------------------------------------------
(***************************************************************************)
(* What a step must show.                                                  *)
(***************************************************************************)

(* The types of what a process holds.                                      *)
LEMMA TypesAt ==
    ASSUME KeyInv, NEW p \in Procs
    PROVE  /\ pc[p] \in Pcs /\ key[p] \in Nat /\ http[p] \in Asked
           /\ http[p].op \in {"none", "register", "heartbeat", "deregister"}
           /\ http[p].key \in Nat /\ http[p].res \in Results \cup {"none"}
           /\ Held(p) /\ Len(minted) \in Nat /\ file \in Nat
           /\ key[p] <= Len(minted) /\ file <= Len(minted)
  <1>1. pc[p] \in Pcs /\ key[p] \in Nat /\ http[p] \in Asked /\ file \in Nat
    BY DEF KeyInv, ClientTypes
  <1>2. Held(p) /\ Len(minted) \in Nat /\ file <= Len(minted)
    BY DEF KeyInv, RecordInv
  <1>3. QED
    BY <1>1, <1>2 DEF Asked, Held, HeldAs

(* One process moves to a, with key k and exchange h, and leaves f in the  *)
(* key file; the index does nothing.                                       *)
Becomes(p, a, k, h, f) ==
    /\ pc' = [pc EXCEPT ![p] = a] /\ key' = [key EXCEPT ![p] = k]
    /\ http' = [http EXCEPT ![p] = h] /\ file' = f
    /\ late' = late /\ peers' = peers /\ minted' = minted /\ now' = now

(* The file changes and the mutex is taken only while nobody else has it.  *)
LockAs(p, a, k, f) ==
    /\ f \in {0, file, k}
    /\ a = "unlink" => f = k
    /\ a = "unlink" \/ f # file =>
          \A q \in Procs : q # p => pc[q] # "unlink"
    /\ file # 0 /\ f = 0 => pc[p] = "unlink" /\ key[p] = file

FileAs(p, a, k, h, f) ==
    IF p \in Publishers
      THEN a \in Serving /\ RecordKey = k /\ k # 0 => f = k
      ELSE /\ Removes(a, h) => Dead(k)
           /\ f # file => Dead(file)

(* A step of one process.                                                  *)
LEMMA ProcessKeeps ==
    ASSUME KeyInv, NEW p \in Procs,
           NEW a \in Pcs, NEW k \in Nat, NEW h \in Asked, NEW f \in Nat,
           Becomes(p, a, k, h, f), HeldAs(p, a, k, h, Len(minted)),
           LockAs(p, a, k, f), FileInv => FileAs(p, a, k, h, f)
    PROVE  Keeps
  <1>1. /\ pc \in [Procs -> Pcs] /\ key \in [Procs -> Nat]
        /\ http \in [Procs -> Asked]
    BY DEF KeyInv, ClientTypes
  <1>2. /\ pc' \in [Procs -> Pcs] /\ key' \in [Procs -> Nat]
        /\ http' \in [Procs -> Asked] /\ file' = f
        /\ peers' = peers /\ minted' = minted /\ now' = now /\ late' = late
    BY <1>1 DEF Becomes
  <1>3. /\ pc'[p] = a /\ key'[p] = k /\ http'[p] = h
        /\ \A q \in Procs : q # p =>
              pc'[q] = pc[q] /\ key'[q] = key[q] /\ http'[q] = http[q]
    BY <1>1 DEF Becomes
  <1>4. RecordInv' /\ RecordKey' = RecordKey
    BY <1>2 DEF KeyInv, RecordInv, RecordKey
  <1>5. ClientTypes'
    BY <1>2 DEF KeyInv, ClientTypes
  <1>6. \A q \in Procs : Held(q)'
    <2>1. ASSUME NEW q \in Procs PROVE Held(q)'
      <3>1. CASE q = p
        BY <1>2, <1>3, <3>1 DEF Held
      <3>2. CASE q # p
        BY <1>2, <1>3, <3>2 DEF Held, KeyInv
      <3>3. QED
        BY <3>1, <3>2
    <2>2. QED
      BY <2>1
  <1>7. Locked'
    BY <1>2, <1>3 DEF KeyInv, Locked, LockAs
  <1>8. KeyInv'
    <2>1. file' <= Len(minted')
      BY <1>2, TypesAt DEF LockAs, HeldAs
    <2>2. QED
      BY <1>4, <1>5, <1>6, <1>7, <2>1 DEF KeyInv
  <1>9. ASSUME FileInv PROVE FileInv'
    <2>1. OnePublisher /\ DeadKeys /\ Persisted /\ FileAs(p, a, k, h, f)
      BY <1>9 DEF FileInv
    <2>2. \A d : Dead(d)' <=> Dead(d)
      BY <1>4 DEF Dead
    <2>3. ASSUME NEW q \in Procs \ Publishers, Removes(pc'[q], http'[q])
          PROVE  Dead(key'[q])
      <3>1. CASE q = p
        BY <1>3, <2>1, <2>3, <3>1 DEF FileAs
      <3>2. CASE q # p
        BY <1>3, <2>1, <2>3, <3>2 DEF DeadKeys
      <3>3. QED
        BY <3>1, <3>2
    <2>4. DeadKeys'
      BY <1>4, <2>3 DEF DeadKeys, Dead
    <2>5. ASSUME NEW q \in Publishers,
                 pc'[q] \in Serving, RecordKey = key'[q], key'[q] # 0
          PROVE  file' = key'[q]
      <3>1. q \in Procs
        BY PublisherAssumption
      <3>2. CASE q = p
        BY <1>2, <1>3, <2>1, <2>5, <3>2 DEF FileAs
      <3>3. CASE q # p
        <4>1. p \notin Publishers
          BY <2>1, <3>3 DEF OnePublisher
        <4>2. file = key'[q]
          BY <1>3, <2>1, <2>5, <3>1, <3>3 DEF Persisted
        <4>3. ~Dead(file)
          BY <2>5, <4>2 DEF Dead
        <4>4. QED
          BY <1>2, <2>1, <4>1, <4>2, <4>3 DEF FileAs
      <3>4. QED
        BY <3>2, <3>3
    <2>6. Persisted'
      BY <1>4, <2>5 DEF Persisted
    <2>7. QED
      BY <2>1, <2>4, <2>6 DEF FileInv, OnePublisher
  <1>10. RemovesOwn
    BY <1>2 DEF LockAs, RemovesOwn
  <1>11. QED
    BY <1>8, <1>9, <1>10 DEF Keeps

(* A step of the index, with or without a client's answer.                 *)
LEMMA IndexKeeps ==
    ASSUME KeyInv, RecordMoves, ClientTypes',
           pc' = pc, key' = key, file' = file,
           \A q \in Procs : Held(q)',
           \A q \in Procs \ Publishers :
              pc[q] = "deleting" /\ http'[q].res = "OK" =>
                 http[q].res = "OK" \/ RecordKey' = 0
    PROVE  Keeps
  <1>1. KeyInv'
    <2>1. file' <= Len(minted')
      BY DEF KeyInv, RecordMoves, ClientTypes
    <2>2. QED
      BY <2>1 DEF KeyInv, RecordMoves, Locked
  <1>2. ASSUME NEW q \in Procs
        PROVE  /\ Dead(key[q]) => Dead(key[q])'
               /\ RecordKey' = key[q] /\ key[q] # 0 => RecordKey = key[q]
    BY TypesAt DEF RecordMoves, Dead
  <1>3. ASSUME FileInv PROVE FileInv'
    <2>1. OnePublisher /\ DeadKeys /\ Persisted
      BY <1>3 DEF FileInv
    <2>2. ASSUME NEW q \in Procs \ Publishers, Removes(pc[q], http'[q])
          PROVE  Dead(key[q])'
      <3>1. CASE Removes(pc[q], http[q])
        BY <1>2, <2>1, <3>1 DEF DeadKeys
      <3>2. CASE ~Removes(pc[q], http[q])
        BY <2>2, <3>2 DEF Removes, Dead
      <3>3. QED
        BY <3>1, <3>2
    <2>3. DeadKeys'
      BY <2>2 DEF DeadKeys
    <2>4. Persisted'
      BY <1>2, <2>1, PublisherAssumption DEF Persisted
    <2>5. QED
      BY <2>1, <2>3, <2>4 DEF FileInv, OnePublisher
  <1>4. RemovesOwn
    BY DEF RemovesOwn
  <1>5. QED
    BY <1>1, <1>3, <1>4 DEF Keeps

(* More minted keys spoil nothing a process holds.                         *)
LEMMA HeldGrows ==
    ASSUME KeyInv, RecordMoves, NEW q \in Procs,
           pc' = pc, key' = key, http'[q] = http[q]
    PROVE  Held(q)'
  <1> PICK n \in Nat : n = Len(minted)
    BY DEF RecordMoves
  <1> PICK m \in Nat : m = Len(minted')
    BY DEF RecordMoves
  <1>1. n <= m
    BY DEF RecordMoves
  <1>2. key[q] \in Nat /\ HeldAs(q, pc[q], key[q], http[q], n)
    BY TypesAt DEF Held
  <1>3. HeldAs(q, pc[q], key[q], http[q], m)
    BY <1>1, <1>2 DEF HeldAs
  <1>4. QED
    BY <1>3 DEF Held

-----------------------------------------------------------------------------
(***************************************************************************)
(* The steps of one process.                                               *)
(***************************************************************************)

(* A process that keeps its key and its exchange.                          *)
LEMMA NoChange ==
    ASSUME KeyInv, NEW p \in Procs
    PROVE  /\ key = [key EXCEPT ![p] = key[p]]
           /\ http = [http EXCEPT ![p] = http[p]]
  BY DEF KeyInv, ClientTypes

(* Exchanges begun and ended.                                              *)
LEMMA AskTypes ==
    /\ Idle \in Asked /\ Idle.res = "none"
    /\ \A op \in {"register", "heartbeat", "deregister"}, k \in Nat :
          /\ Ask(op, k) \in Asked /\ Ask(op, k).res = "waiting"
          /\ Ask(op, k).op = op
  BY DEF Idle, Ask, Asked, Results

(* Moves that leave the file alone and keep the key or forget it.          *)
LEMMA PlainKeeps ==
    ASSUME KeyInv, NEW p \in Procs,
           NEW a \in Pcs \ {"saving", "resaving", "unlink"},
           NEW k \in {0, key[p]},
           \/ a \in {"off", "registering"}
           \/ k = key[p] /\ pc[p] \notin {"off", "registering"},
           NEW h \in Asked, Becomes(p, a, k, h, file),
           a \in {"registering", "reregistering"} =>
              h.res = "waiting" /\ h.op = "register",
           a = "deleting" => h.res = "waiting" /\ h.op = "deregister",
           p \notin Publishers => a \in {"off", "deleting", "erase"},
           FileInv =>
              /\ p \in Publishers /\ a \in Serving => pc[p] \in Serving
              /\ p \notin Publishers /\ a = "erase" => Dead(k)
    PROVE  Keeps
  <1>1. k \in Nat /\ k <= Len(minted) /\ file \in Nat /\ a \in Pcs
    BY TypesAt
  <1>2. HeldAs(p, a, k, h, Len(minted))
    BY <1>1, TypesAt DEF Held, HeldAs
  <1>3. LockAs(p, a, k, file)
    BY DEF LockAs
  <1>4. ASSUME FileInv PROVE FileAs(p, a, k, h, file)
    <2>1. CASE p \in Publishers
      <3>1. SUFFICES ASSUME a \in Serving, RecordKey = k, k # 0
                     PROVE  file = k
        BY <2>1 DEF FileAs
      <3>2. pc[p] \in Serving /\ k = key[p]
        BY <1>4, <2>1, <3>1
      <3>3. QED
        BY <1>4, <2>1, <3>1, <3>2 DEF FileInv, Persisted
    <2>2. CASE p \notin Publishers
      BY <1>4, <2>2 DEF FileAs, Removes
    <2>3. QED
      BY <2>1, <2>2
  <1>5. QED
    BY <1>1, <1>2, <1>3, <1>4, ProcessKeeps

(* redp2p_wait begins.                                                     *)
LEMMA StartPublisherStep ==
    ASSUME KeyInv, NEW p \in Procs, StartPublisher(p)
    PROVE  Keeps
  <1>1. Becomes(p, "registering", key[p], Ask("register", 0), file)
    BY NoChange DEF StartPublisher, Goto, Request, Becomes, index
  <1>2. p \in Publishers
    BY DEF StartPublisher
  <1>3. QED
    BY <1>1, <1>2, AskTypes, PlainKeeps DEF Pcs, Serving

(* redp2p_publisher_register: an accepted registration brings a key.       *)
LEMMA RegisteredStep ==
    ASSUME KeyInv, NEW p \in Procs, Registered(p)
    PROVE  Keeps
  <1>1. /\ pc[p] = "registering" /\ Held(p) /\ http[p].key \in Nat
        /\ key[p] \in Nat /\ file \in Nat /\ Len(minted) \in Nat
    BY TypesAt DEF Registered, Done
  <1>2. p \in Publishers
    BY <1>1 DEF Held, HeldAs
  <1>3. CASE http[p].res = "OK"
    <2>1. Becomes(p, "saving", http[p].key, Idle, file)
      BY <1>3 DEF Registered, SetKey, Goto, EndRequest, Quiet, Becomes, index
    <2>2. http[p].key \in 1 .. Len(minted)
      BY <1>1, <1>3 DEF Held, HeldAs
    <2>3. HeldAs(p, "saving", http[p].key, Idle, Len(minted))
      BY <1>1, <1>2, <2>2 DEF HeldAs
    <2>4. LockAs(p, "saving", http[p].key, file)
      BY DEF LockAs
    <2>5. FileAs(p, "saving", http[p].key, Idle, file)
      BY <1>2 DEF FileAs, Serving
    <2>6. "saving" \in Pcs
      BY DEF Pcs
    <2>7. QED
      BY <1>1, <2>1, <2>3, <2>4, <2>5, <2>6, AskTypes, ProcessKeeps
  <1>4. CASE http[p].res # "OK"
    <2>1. Becomes(p, "off", key[p], Idle, file)
      BY <1>4, NoChange
         DEF Registered, Goto, EndRequest, Quiet, Becomes, index
    <2>2. QED
      BY <1>2, <2>1, AskTypes, PlainKeeps DEF Pcs, Serving
  <1>5. QED
    BY <1>3, <1>4

(* redp2p_save_key, then the loop, or the withdrawal of what could not be  *)
(* saved: the file, when it is replaced, holds the key of the publisher.   *)
LEMMA SaveKeeps ==
    ASSUME KeyInv, NEW p \in Procs, pc[p] \in {"saving", "resaving"},
           NEW outcome \in Outcomes, SaveKey(p, outcome),
           NEW a \in {"loop", "rollback", "unsaving"}, NEW h \in Asked,
           a = "loop" => outcome = "saved",
           Becomes(p, a, key[p], h, file')
    PROVE  Keeps
  <1>1. /\ key[p] \in Nat /\ file \in Nat /\ Held(p) /\ a \in Pcs
        /\ key[p] <= Len(minted)
    BY TypesAt DEF Pcs
  <1>2. key[p] # 0 /\ p \in Publishers
    BY <1>1 DEF Held, HeldAs
  <1>3. file' \in {file, key[p]} /\ (a = "loop" => file' = key[p])
    BY DEF SaveKey
  <1>4. \A q \in Procs : pc[q] # "unlink"
    BY DEF SaveKey, KeyLockFree, KeyInv
  <1>5. HeldAs(p, a, key[p], h, Len(minted))
    BY <1>1, <1>2 DEF HeldAs
  <1>6. LockAs(p, a, key[p], file')
    BY <1>2, <1>3, <1>4 DEF LockAs
  <1>7. FileAs(p, a, key[p], h, file')
    BY <1>2, <1>3 DEF FileAs, Serving
  <1>8. file' \in Nat
    BY <1>1, <1>3
  <1>9. PICK f \in Nat : f = file'
    BY <1>8
  <1>10. QED
    BY <1>1, <1>5, <1>6, <1>7, <1>9, ProcessKeeps

(* redp2p_publisher_persist_registration and the save of a                 *)
(* re-registration.                                                        *)
LEMMA PersistStep ==
    ASSUME KeyInv, NEW p \in Procs, NEW outcome \in Outcomes,
           Persist(p, outcome) \/ Resave(p, outcome)
    PROVE  Keeps
  <1>1. pc[p] \in {"saving", "resaving"} /\ SaveKey(p, outcome)
    BY DEF Persist, Resave
  <1>2. http[p] \in Asked /\ key[p] \in Nat
    BY TypesAt
  <1>3. CASE outcome = "saved"
    <2>1. Becomes(p, "loop", key[p], http[p], file')
      BY <1>3, NoChange DEF Persist, Resave, Goto, Quiet, Becomes, index
    <2>2. QED
      BY <1>1, <1>2, <1>3, <2>1, SaveKeeps
  <1>4. CASE outcome # "saved"
    <2>1. \E a \in {"rollback", "unsaving"} :
             Becomes(p, a, key[p], Ask("deregister", key[p]), file')
      BY <1>4, NoChange DEF Persist, Resave, Goto, DeregisterWithKey,
         Request, Quiet, Becomes, index
    <2>2. PICK a \in {"rollback", "unsaving"} :
             Becomes(p, a, key[p], Ask("deregister", key[p]), file')
      BY <2>1
    <2>3. QED
      BY <1>1, <1>2, <2>2, AskTypes, SaveKeeps
  <1>5. QED
    BY <1>3, <1>4

(* Rollback, heartbeats and the end of the loop.                           *)
LEMMA RolledBackStep ==
    ASSUME KeyInv, NEW p \in Procs, RolledBack(p)
    PROVE  Keeps
  <1>1. Becomes(p, "erase", key[p], Idle, file)
    BY NoChange DEF RolledBack, Goto, EndRequest, Quiet, Becomes, index
  <1>2. p \in Publishers /\ pc[p] = "rollback"
    BY TypesAt DEF RolledBack, Done, Held, HeldAs
  <1>3. QED
    BY <1>1, <1>2, AskTypes, PlainKeeps DEF Pcs, Serving

(* A heartbeat is sent, or the loop ends.                                  *)
LEMMA LoopStep ==
    ASSUME KeyInv, NEW p \in Procs, Heartbeat(p) \/ LoopEnds(p)
    PROVE  Keeps
  <1>1. key[p] \in Nat /\ pc[p] = "loop" /\ p \in Publishers
    BY TypesAt DEF Heartbeat, LoopEnds, Held, HeldAs
  <1>2. CASE Heartbeat(p)
    <2>1. Becomes(p, "beating", key[p], Ask("heartbeat", key[p]), file)
      BY <1>2, NoChange DEF Heartbeat, Goto, Request, Quiet, Becomes, index
    <2>2. QED
      BY <1>1, <2>1, AskTypes, PlainKeeps DEF Pcs, Serving
  <1>3. CASE LoopEnds(p)
    <2>1. Becomes(p, "leaving", key[p], Ask("deregister", key[p]), file)
      BY <1>3, NoChange
         DEF LoopEnds, Goto, DeregisterWithKey, Request, Quiet, Becomes, index
    <2>2. QED
      BY <1>1, <2>1, AskTypes, PlainKeeps DEF Pcs, Serving
  <1>4. QED
    BY <1>2, <1>3

(* The answer to a heartbeat.                                              *)
LEMMA HeartbeatDoneStep ==
    ASSUME KeyInv, NEW p \in Procs, HeartbeatDone(p)
    PROVE  Keeps
  <1>1. key[p] \in Nat /\ pc[p] = "beating" /\ p \in Publishers
    BY TypesAt DEF HeartbeatDone, Done, Held, HeldAs
  <1>2. \/ Becomes(p, "loop", key[p], Idle, file)
        \/ Becomes(p, "reregistering", key[p], Ask("register", 0), file)
        \/ Becomes(p, "leaving", key[p], Ask("deregister", key[p]), file)
    BY NoChange DEF HeartbeatDone, Goto, EndRequest, DeregisterWithKey,
       Request, Quiet, Becomes, index
  <1>3. CASE Becomes(p, "loop", key[p], Idle, file)
    BY <1>1, <1>3, AskTypes, PlainKeeps DEF Pcs, Serving
  <1>4. CASE Becomes(p, "reregistering", key[p], Ask("register", 0), file)
    BY <1>1, <1>4, AskTypes, PlainKeeps DEF Pcs, Serving
  <1>5. CASE Becomes(p, "leaving", key[p], Ask("deregister", key[p]), file)
    BY <1>1, <1>5, AskTypes, PlainKeeps DEF Pcs, Serving
  <1>6. QED
    BY <1>2, <1>3, <1>4, <1>5

(* redp2p_publisher_reregister: after a timeout the old key still serves.  *)
LEMMA ReregisteredStep ==
    ASSUME KeyInv, NEW p \in Procs, Reregistered(p)
    PROVE  Keeps
  <1>1. /\ pc[p] = "reregistering" /\ Held(p) /\ http[p].key \in Nat
        /\ key[p] \in Nat /\ file \in Nat /\ Len(minted) \in Nat
    BY TypesAt DEF Reregistered, Done
  <1>2. p \in Publishers
    BY <1>1 DEF Held, HeldAs
  <1>3. \/ /\ http[p].res = "OK"
           /\ Becomes(p, "resaving", http[p].key, Idle, file)
        \/ Becomes(p, "loop", key[p], Idle, file)
        \/ Becomes(p, "leaving", key[p], Ask("deregister", key[p]), file)
    BY NoChange DEF Reregistered, SetKey, Goto, EndRequest,
       DeregisterWithKey, Request, Quiet, Becomes, index
  <1>4. CASE /\ http[p].res = "OK"
             /\ Becomes(p, "resaving", http[p].key, Idle, file)
    <2>1. http[p].key \in 1 .. Len(minted)
      BY <1>1, <1>4 DEF Held, HeldAs
    <2>2. HeldAs(p, "resaving", http[p].key, Idle, Len(minted))
      BY <1>1, <1>2, <2>1 DEF HeldAs
    <2>3. LockAs(p, "resaving", http[p].key, file)
      BY DEF LockAs
    <2>4. FileAs(p, "resaving", http[p].key, Idle, file)
      BY <1>2 DEF FileAs, Serving
    <2>5. "resaving" \in Pcs
      BY DEF Pcs
    <2>6. QED
      BY <1>1, <1>4, <2>2, <2>3, <2>4, <2>5, AskTypes, ProcessKeeps
  <1>5. CASE Becomes(p, "loop", key[p], Idle, file)
    BY <1>1, <1>2, <1>5, AskTypes, PlainKeeps DEF Pcs, Serving
  <1>6. CASE Becomes(p, "leaving", key[p], Ask("deregister", key[p]), file)
    BY <1>1, <1>2, <1>6, AskTypes, PlainKeeps DEF Pcs, Serving
  <1>7. QED
    BY <1>3, <1>4, <1>5, <1>6

(* A re-registration whose key could not be saved is forgotten.            *)
LEMMA UnsavedStep ==
    ASSUME KeyInv, NEW p \in Procs, Unsaved(p)
    PROVE  Keeps
  <1>1. Becomes(p, "off", 0, Idle, file)
    BY DEF Unsaved, SetKey, Goto, EndRequest, Quiet, Becomes, index
  <1>2. QED
    BY <1>1, AskTypes, PlainKeeps DEF Pcs, Serving

(* redp2p_deregister loads the persisted key.                              *)
LEMMA StartDeleteStep ==
    ASSUME KeyInv, NEW p \in Procs, StartDelete(p)
    PROVE  Keeps
  <1>1. file # 0 /\ file \in Nat /\ file <= Len(minted)
    BY TypesAt DEF StartDelete, LoadKeyPath
  <1> PICK h \in Asked : h = Ask("deregister", file)
    BY <1>1, AskTypes
  <1>2. h.res = "waiting" /\ h.op = "deregister"
    BY <1>1, AskTypes
  <1>3. Becomes(p, "deleting", file, h, file)
    BY DEF StartDelete, LoadKeyPath, SetKey, Goto, DeregisterWithKey,
       Request, Becomes, index
  <1>4. HeldAs(p, "deleting", file, h, Len(minted))
    BY <1>1, <1>2 DEF HeldAs
  <1>5. LockAs(p, "deleting", file, file)
    BY DEF LockAs
  <1>6. FileAs(p, "deleting", file, h, file)
    BY <1>2 DEF FileAs, Removes, Serving
  <1>7. "deleting" \in Pcs
    BY DEF Pcs
  <1>8. QED
    BY <1>1, <1>3, <1>4, <1>5, <1>6, <1>7, ProcessKeeps

(* The answer to a deregistration: only an accepted one goes on to the     *)
(* file.                                                                   *)
LEMMA DeregisteredStep ==
    ASSUME KeyInv, NEW p \in Procs, Deregistered(p)
    PROVE  Keeps
  <1>1. pc[p] \in {"leaving", "deleting"} /\ Held(p)
    BY TypesAt DEF Deregistered, Done
  <1>2. CASE http[p].res = "OK"
    <2>1. Becomes(p, "erase", key[p], Idle, file)
      BY <1>2, NoChange
         DEF Deregistered, Goto, EndRequest, Quiet, Becomes, index
    <2>2. ASSUME FileInv, p \notin Publishers
          PROVE  Dead(key[p])
      <3>1. pc[p] = "deleting"
        BY <1>1, <2>2 DEF Held, HeldAs
      <3>2. QED
        BY <1>2, <2>2, <3>1 DEF FileInv, DeadKeys, Removes
    <2>3. QED
      BY <1>1, <2>1, <2>2, AskTypes, PlainKeeps DEF Pcs, Serving
  <1>3. CASE http[p].res # "OK"
    <2>1. Becomes(p, "off", 0, Idle, file)
      BY <1>3 DEF Deregistered, SetKey, Goto, EndRequest, Quiet, Becomes,
         index
    <2>2. QED
      BY <2>1, AskTypes, PlainKeeps DEF Pcs, Serving
  <1>4. QED
    BY <1>2, <1>3

(* redp2p_remove_key compares under the mutex.                             *)
LEMMA RemoveKeyLoadStep ==
    ASSUME KeyInv, NEW p \in Procs, NEW loads \in BOOLEAN,
           RemoveKeyLoad(p, loads)
    PROVE  Keeps
  <1>1. /\ pc[p] = "erase" /\ Held(p) /\ key[p] \in Nat /\ file \in Nat
        /\ http[p] \in Asked
    BY TypesAt DEF RemoveKeyLoad
  <1>2. key[p] # 0 /\ key[p] <= Len(minted)
    BY <1>1 DEF Held, HeldAs
  <1>3. \A q \in Procs : pc[q] # "unlink"
    BY DEF RemoveKeyLoad, KeyLockFree, KeyInv
  <1>4. CASE LoadKeyPath(loads) = key[p]
    <2>1. Becomes(p, "unlink", key[p], http[p], file)
      BY <1>4, NoChange DEF RemoveKeyLoad, Goto, Quiet, Becomes, index
    <2>2. file = key[p]
      BY <1>2, <1>4 DEF LoadKeyPath
    <2>3. HeldAs(p, "unlink", key[p], http[p], Len(minted))
      BY <1>2 DEF HeldAs
    <2>4. LockAs(p, "unlink", key[p], file)
      BY <1>3, <2>2, <1>2 DEF LockAs
    <2>5. FileInv => FileAs(p, "unlink", key[p], http[p], file)
      BY <1>1 DEF FileInv, DeadKeys, FileAs, Removes, Serving
    <2>6. "unlink" \in Pcs
      BY DEF Pcs
    <2>7. QED
      BY <1>1, <2>1, <2>3, <2>4, <2>5, <2>6, ProcessKeeps
  <1>5. CASE LoadKeyPath(loads) # key[p]
    <2>1. Becomes(p, "off", 0, http[p], file)
      BY <1>5, NoChange
         DEF RemoveKeyLoad, SetKey, Goto, Quiet, Becomes, index
    <2>2. QED
      BY <1>1, <2>1, PlainKeeps DEF Pcs, Serving
  <1>6. QED
    BY <1>4, <1>5

(* The unlink, with the mutex held since the comparison.                   *)
LEMMA RemoveKeyUnlinkStep ==
    ASSUME KeyInv, NEW p \in Procs, NEW removed \in BOOLEAN,
           RemoveKeyUnlink(p, removed)
    PROVE  Keeps
  <1>1. /\ pc[p] = "unlink" /\ http[p] \in Asked /\ file \in Nat
        /\ key[p] \in Nat /\ Len(minted) \in Nat
    BY TypesAt DEF RemoveKeyUnlink
  <1>2. file = key[p] /\ \A q \in Procs : q # p => pc[q] # "unlink"
    BY <1>1 DEF KeyInv, Locked
  <1> PICK f \in Nat : f = IF removed THEN 0 ELSE file
    BY <1>1
  <1>3. Becomes(p, "off", 0, http[p], f)
    BY NoChange DEF RemoveKeyUnlink, SetKey, Goto, Quiet, Becomes, index
  <1>4. HeldAs(p, "off", 0, http[p], Len(minted))
    BY <1>1 DEF HeldAs
  <1>5. LockAs(p, "off", 0, f)
    BY <1>1, <1>2 DEF LockAs
  <1>6. FileInv => FileAs(p, "off", 0, http[p], f)
    <2>1. ASSUME FileInv, p \notin Publishers
          PROVE  Dead(file)
      BY <1>1, <1>2, <2>1 DEF FileInv, DeadKeys, Removes
    <2>2. QED
      BY <2>1 DEF FileAs, Serving, Dead
  <1>7. "off" \in Pcs
    BY DEF Pcs
  <1>8. QED
    BY <1>1, <1>3, <1>4, <1>5, <1>6, <1>7, ProcessKeeps

-----------------------------------------------------------------------------
(***************************************************************************)
(* The index, the network and crashes.                                     *)
(***************************************************************************)

(* What clients learn from a status is one of the results they test.       *)
LEMMA MapErrorTypes ==
    ASSUME NEW status
    PROVE  /\ MapError(status) \in Results \ {"waiting"}
           /\ MapError(status) = "OK" => status = "ok"
  BY DEF MapError, Results

(* The index answers a waiting process.                                    *)
LEMMA AnswerStep ==
    ASSUME KeyInv, NEW p \in Procs, Answer(p)
    PROVE  Keeps
  <1> PICK r : r = [op |-> http[p].op, key |-> http[p].key]
    OBVIOUS
  <1> PICK m \in Results \ {"waiting"} : m = MapError(reply'.status)
    BY MapErrorTypes
  <1>1. /\ http[p] \in Asked /\ http[p].key \in Nat /\ http[p].res = "waiting"
        /\ Held(p) /\ key[p] \in Nat /\ http \in [Procs -> Asked]
    BY TypesAt DEF Answer, KeyInv, ClientTypes
  <1>2. Answered(r.op) /\ r.op = http[p].op
    BY <1>1, HandleAnswers DEF Answer, KeyInv
  <1>3. /\ RecordMoves /\ reply'.key \in Nat
        /\ m = "OK" /\ http[p].op = "register" =>
              reply'.key \in 1 .. Len(minted')
        /\ m = "OK" /\ http[p].op = "deregister" => RecordKey' = 0
    BY <1>2, MapErrorTypes DEF Answered
  <1> PICK h : h = [http[p] EXCEPT !.res = m, !.key = reply'.key]
    OBVIOUS
  <1>4. /\ h \in Asked /\ h.op = http[p].op /\ h.res = m
        /\ h.key = reply'.key
    BY <1>1, <1>3 DEF Asked
  <1>5. /\ http' = [http EXCEPT ![p] = h] /\ pc' = pc /\ key' = key
        /\ late' = late /\ file' = file
    BY <1>1 DEF Answer
  <1>6. /\ http' \in [Procs -> Asked] /\ http'[p] = h
        /\ \A q \in Procs : q # p => http'[q] = http[q]
    BY <1>1, <1>4, <1>5
  <1>7. ClientTypes'
    BY <1>5, <1>6 DEF KeyInv, ClientTypes
  <1>8. ASSUME NEW q \in Procs PROVE Held(q)'
    <2>1. CASE q # p
      BY <1>3, <1>5, <1>6, <2>1, HeldGrows
    <2>2. CASE q = p
      <3> PICK n \in Nat : n = Len(minted')
        BY <1>3 DEF RecordMoves
      <3>1. key[p] <= n
        BY <1>1, <1>3, TypesAt DEF RecordMoves
      <3>2. HeldAs(p, pc[p], key[p], http[p], Len(minted))
        BY <1>1 DEF Held
      <3>3. HeldAs(p, pc[p], key[p], h, n)
        BY <1>1, <1>3, <1>4, <3>1, <3>2 DEF HeldAs
      <3>4. QED
        BY <1>5, <1>6, <2>2, <3>3 DEF Held
    <2>3. QED
      BY <2>1, <2>2
  <1>9. ASSUME NEW q \in Procs \ Publishers,
               pc[q] = "deleting", http'[q].res = "OK"
        PROVE  http[q].res = "OK" \/ RecordKey' = 0
    <2>1. CASE q # p
      BY <1>6, <1>9, <2>1
    <2>2. CASE q = p
      <3>1. http[p].op = "deregister"
        BY <1>1, <1>9, <2>2 DEF Held, HeldAs
      <3>2. QED
        BY <1>3, <1>4, <1>6, <1>9, <2>2, <3>1
    <2>3. QED
      BY <2>1, <2>2
  <1>10. QED
    BY <1>3, <1>5, <1>7, <1>8, <1>9, IndexKeeps

(* The index handles a request nobody waits for any more.                  *)
LEMMA AnswerLateStep ==
    ASSUME KeyInv, NEW r \in late, AnswerLate(r)
    PROVE  Keeps
  <1>1. r.key \in Nat
    BY DEF KeyInv, ClientTypes
  <1>2. RecordMoves
    BY <1>1, HandleAnswers DEF AnswerLate, KeyInv, Answered
  <1>3. /\ pc' = pc /\ key' = key /\ file' = file /\ http' = http
        /\ late' \subseteq late
    BY DEF AnswerLate
  <1>4. ClientTypes'
    BY <1>3 DEF KeyInv, ClientTypes
  <1>5. QED
    BY <1>2, <1>3, <1>4, HeldGrows, IndexKeeps

(* The index alone.                                                        *)
LEMMA IndexAloneStep ==
    ASSUME KeyInv, IndexAlone
    PROVE  Keeps
  <1>1. RecordMoves
    BY IndexMoves DEF IndexAlone, KeyInv
  <1>2. pc' = pc /\ key' = key /\ file' = file /\ http' = http
        /\ late' = late
    BY DEF IndexAlone, clients
  <1>3. ClientTypes'
    BY <1>2 DEF KeyInv, ClientTypes
  <1>4. QED
    BY <1>1, <1>2, <1>3, HeldGrows, IndexKeeps

(* An exchange that ends with an error says nothing of a key.              *)
LEMMA HeldFailed ==
    ASSUME KeyInv, NEW q \in Procs, RecordMoves, pc' = pc, key' = key,
           http'[q].res \notin {"OK", "waiting"}
    PROVE  Held(q)'
  <1> PICK n \in Nat : n = Len(minted')
    BY DEF RecordMoves
  <1>1. key[q] <= n /\ Held(q)
    BY TypesAt DEF RecordMoves
  <1>2. HeldAs(q, pc[q], key[q], http'[q], n)
    BY <1>1 DEF Held, HeldAs
  <1>3. QED
    BY <1>2 DEF Held

(* The index restarts with empty tables and open exchanges break.          *)
LEMMA IndexRestartStep ==
    ASSUME KeyInv, IndexRestart
    PROVE  Keeps
  <1>1. /\ minted' = minted /\ now' = now /\ Id \notin DOMAIN peers'
        /\ pc' = pc /\ key' = key /\ file' = file /\ late' = {}
    BY DEF IndexRestart
  <1>2. RecordMoves
    BY <1>1, RecordLost DEF KeyInv, RecordInv
  <1>3. http \in [Procs -> Asked]
    BY DEF KeyInv, ClientTypes
  <1>4. ASSUME NEW q \in Procs
        PROVE  /\ http'[q] \in Asked
               /\ http'[q] = http[q] \/ http'[q].res = "ENET"
    <2>1. http[q] \in Asked
      BY <1>3
    <2>2. /\ [http[q] EXCEPT !.res = "ENET"] \in Asked
          /\ [http[q] EXCEPT !.res = "ENET"].res = "ENET"
      BY <2>1 DEF Asked, Results
    <2>3. http'[q] = IF http[q].res = "waiting"
                       THEN [http[q] EXCEPT !.res = "ENET"] ELSE http[q]
      BY DEF IndexRestart
    <2>4. QED
      BY <2>1, <2>2, <2>3
  <1>5. http' \in [Procs -> Asked]
    BY <1>4 DEF IndexRestart
  <1>6. ClientTypes'
    BY <1>1, <1>5 DEF KeyInv, ClientTypes
  <1>7. \A q \in Procs : Held(q)'
    BY <1>1, <1>2, <1>4, HeldGrows, HeldFailed
  <1>8. \A q \in Procs : http'[q].res = "OK" => http[q].res = "OK"
    BY <1>4
  <1>9. QED
    BY <1>1, <1>2, <1>6, <1>7, <1>8, IndexKeeps

(* redp2p_http_client gives up.                                            *)
LEMMA GiveUpStep ==
    ASSUME KeyInv, NEW p \in Procs, NEW err \in {"ETIMEOUT", "ENET"},
           NEW arrives \in BOOLEAN, GiveUp(p, err, arrives)
    PROVE  Keeps
  <1>1. /\ minted' = minted /\ now' = now /\ peers' = peers
        /\ pc' = pc /\ key' = key /\ file' = file
    BY DEF GiveUp, index
  <1>2. RecordMoves
    BY <1>1, RecordSame DEF KeyInv, RecordInv
  <1>3. /\ http \in [Procs -> Asked] /\ http[p] \in Asked
        /\ http[p].op \in {"none", "register", "heartbeat", "deregister"}
        /\ http[p].key \in Nat
    BY TypesAt DEF KeyInv, ClientTypes
  <1> PICK h : h = [http[p] EXCEPT !.res = err]
    OBVIOUS
  <1>4. h \in Asked /\ h.res = err
    BY <1>3 DEF Asked, Results
  <1>5. http' = [http EXCEPT ![p] = h]
    BY DEF GiveUp
  <1>6. /\ http' \in [Procs -> Asked] /\ http'[p] = h
        /\ \A q \in Procs : q # p => http'[q] = http[q]
    BY <1>3, <1>4, <1>5
  <1>7. ClientTypes'
    BY <1>1, <1>3, <1>6 DEF KeyInv, ClientTypes, GiveUp
  <1>8. \A q \in Procs : Held(q)'
    BY <1>1, <1>2, <1>4, <1>6, HeldGrows, HeldFailed
  <1>9. \A q \in Procs : http'[q].res = "OK" => http[q].res = "OK"
    BY <1>4, <1>6
  <1>10. QED
    BY <1>1, <1>2, <1>7, <1>8, <1>9, IndexKeeps

(* A process dies: nobody runs, and the file stays as it is.               *)
LEMMA CrashStep ==
    ASSUME KeyInv, NEW p \in Procs, NEW arrives \in BOOLEAN,
           Crash(p, arrives)
    PROVE  Keeps
  <1>1. /\ minted' = minted /\ now' = now /\ peers' = peers /\ file' = file
    BY DEF Crash, index
  <1>2. OneProcess
    BY DEF KeyInv
  <1>3. /\ pc' = [q \in Procs |-> "off"] /\ key' = [q \in Procs |-> 0]
        /\ http' = [q \in Procs |-> Idle]
    BY <1>2 DEF Crash
  <1>4. late' \subseteq [op : {"none", "register", "heartbeat", "deregister"},
                         key : Nat]
    <2>1. \A q \in Procs : [op |-> http[q].op, key |-> http[q].key]
             \in [op : {"none", "register", "heartbeat", "deregister"},
                  key : Nat]
      BY TypesAt
    <2>2. QED
      BY <1>2, <2>1 DEF Crash, KeyInv, ClientTypes
  <1>5. /\ pc' \in [Procs -> Pcs] /\ key' \in [Procs -> Nat]
        /\ http' \in [Procs -> Asked]
        /\ \A q \in Procs : pc'[q] = "off" /\ key'[q] = 0
    BY <1>3, AskTypes DEF Pcs
  <1>6. ClientTypes' /\ RecordInv' /\ Locked'
    BY <1>1, <1>4, <1>5 DEF KeyInv, ClientTypes, RecordInv, Locked
  <1>7. \A q \in Procs : Held(q)'
    <2>1. Len(minted') \in Nat
      BY <1>1 DEF KeyInv, RecordInv
    <2>2. QED
      BY <1>5, <2>1 DEF Held, HeldAs
  <1>8. KeyInv'
    BY <1>1, <1>6, <1>7 DEF KeyInv
  <1>9. DeadKeys' /\ Persisted'
    <2>1. \A q \in Publishers : q \in Procs
      BY PublisherAssumption
    <2>2. QED
      BY <1>5, <2>1 DEF DeadKeys, Persisted, Removes, Dead, Serving
  <1>10. QED
    BY <1>1, <1>8, <1>9 DEF Keeps, FileInv, OnePublisher, RemovesOwn

-----------------------------------------------------------------------------
(* No record, no file, and nobody runs.                                    *)
LEMMA KeyInit ==
    ASSUME Init, OneProcess
    PROVE  KeyInv /\ (OnePublisher => FileInv)
  <1>1. /\ minted = << >> /\ now = 0 /\ DOMAIN peers = {} /\ file = 0
        /\ late = {}
    BY DEF Init, idx!Init
  <1>2. /\ pc \in [Procs -> Pcs] /\ key \in [Procs -> Nat]
        /\ http \in [Procs -> Asked]
        /\ \A q \in Procs : pc[q] = "off" /\ key[q] = 0
    BY AskTypes DEF Init, Pcs
  <1>3. minted \in Seq([id : {Id}, pass : {Pass}]) /\ Len(minted) = 0
    BY <1>1
  <1>4. RecordInv /\ ClientTypes /\ Locked
    BY <1>1, <1>2, <1>3 DEF RecordInv, ClientTypes, Locked
  <1>5. \A q \in Procs : Held(q)
    BY <1>2, <1>3 DEF Held, HeldAs
  <1>6. DeadKeys /\ Persisted
    <2>1. \A q \in Publishers : q \in Procs
      BY PublisherAssumption
    <2>2. QED
      BY <1>2, <2>1 DEF DeadKeys, Persisted, Removes, Dead, Serving
  <1>7. QED
    BY <1>1, <1>3, <1>4, <1>5, <1>6 DEF KeyInv, FileInv

(* Every step keeps both, and removes the file only as its owner.          *)
LEMMA KeyNext ==
    ASSUME KeyInv, [Next]_vars
    PROVE  Keeps
  <1>1. ASSUME NEW p \in Procs, Step(p)
        PROVE  Keeps
    BY <1>1, RegisteredStep, RolledBackStep, LoopStep, HeartbeatDoneStep,
       ReregisteredStep, UnsavedStep, DeregisteredStep, RemoveKeyLoadStep,
       RemoveKeyUnlinkStep, PersistStep DEF Step
  <1>2. CASE UNCHANGED vars
    <2>1. /\ minted' = minted /\ now' = now /\ peers' = peers
          /\ pc' = pc /\ key' = key /\ file' = file /\ http' = http
          /\ late' = late
      BY <1>2 DEF vars, index, clients
    <2>2. RecordMoves
      BY <2>1, RecordSame DEF KeyInv, RecordInv
    <2>3. ClientTypes'
      BY <2>1 DEF KeyInv, ClientTypes
    <2>4. QED
      BY <2>1, <2>2, <2>3, HeldGrows, IndexKeeps
  <1>3. CASE Next
    BY <1>1, <1>3, IndexAloneStep, IndexRestartStep, AnswerLateStep,
       AnswerStep, StartPublisherStep, LoopStep, StartDeleteStep, CrashStep,
       GiveUpStep DEF Next
  <1>4. QED
    BY <1>2, <1>3

(* "Removes one persisted path only while it still contains the observed   *)
(* key" (RemovesObservedKey): among the threads of one process, whatever   *)
(* publishers and operators run, fail and crash, the key file goes only    *)
(* while it holds the key of the one that unlinks it.                      *)
THEOREM RemovalsObserved == OneProcess /\ Spec => RemovesObservedKey
  <1>1. Init /\ OneProcess => KeyInv
    BY KeyInit
  <1>2. KeyInv /\ [Next]_vars => KeyInv'
    BY KeyNext DEF Keeps
  <1>3. KeyInv /\ [Next]_vars =>
           [file # 0 /\ file' = 0 =>
              \E p \in Procs : pc[p] = "unlink" /\ key[p] = file]_vars
    BY KeyNext DEF Keeps, RemovesOwn
  <1>4. QED
    BY <1>1, <1>2, <1>3, PTL DEF Spec, RemovesObservedKey

(* "re-registration never orphans the local key file" (KeyFileCurrent):    *)
(* while the one publisher of a process serves and the index holds its     *)
(* record, the persisted key removes that record, through expiries,        *)
(* restarts, lost replies, failed saves, crashes and any number of         *)
(* operators that deregister.                                              *)
THEOREM KeyFilesCurrent ==
    OneProcess /\ OnePublisher /\ Spec => []KeyFileCurrent
  <1>1. Init /\ OneProcess /\ OnePublisher => KeyInv /\ FileInv
    BY KeyInit
  <1>2. KeyInv /\ FileInv /\ [Next]_vars => KeyInv' /\ FileInv'
    BY KeyNext DEF Keeps
  <1>3. FileInv => KeyFileCurrent
    BY DEF FileInv, Persisted, Serving, KeyFileCurrent
  <1>4. QED
    BY <1>1, <1>2, <1>3, PTL DEF Spec
=============================================================================
