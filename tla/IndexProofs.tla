---------------------------- MODULE IndexProofs ----------------------------
(***************************************************************************)
(* Theorems about module Index, for every set of identifiers, number of    *)
(* seats, reservation list and time bound: first the types and the seats,  *)
(* then the publisher records (the keys they carry, how long they live,    *)
(* who is refused, and that they implement the lease registry of module    *)
(* Registry), then the pending punch calls (one fate each, exact polls,    *)
(* and busy only when busy).                                               *)
(***************************************************************************)
EXTENDS Index, FiniteSetTheorems, TLAPS

USE ConstantAssumption

(***************************************************************************)
(* Lemmas about the table operators.                                       *)
(***************************************************************************)

\* The surviving table: domain and contents of EvictStale.
LEMMA EvictStaleFacts ==
    ASSUME TypeOK
    PROVE  /\ DOMAIN EvictStale = FreshIds
           /\ FreshIds \subseteq DOMAIN peers
           /\ FreshIds \subseteq Ids
           /\ \A id \in FreshIds : EvictStale[id] = peers[id]
           /\ EvictStale \in [FreshIds -> PeerRecord]
  BY DEF EvictStale, FreshIds, TypeOK

\* Writing one record keeps the table well typed.
LEMMA UpsertType ==
    ASSUME NEW S, NEW T, NEW tbl \in [S -> T], NEW id, NEW r \in T
    PROVE  /\ DOMAIN Upsert(tbl, id, r) = S \cup {id}
           /\ Upsert(tbl, id, r) \in [S \cup {id} -> T]
  BY DEF Upsert

\* Live calls are pending calls.
LEMMA LiveCallsFacts ==
    LiveCalls \subseteq pending /\ StaleCalls \subseteq pending
  BY DEF LiveCalls, StaleCalls

\* A history update keeps the length and the type of fate.
LEMMA SetFateType ==
    ASSUME TypeOK, NEW gone, NEW f \in Fates
    PROVE  /\ SetFate(gone, f) \in Seq(Fates)
           /\ Len(SetFate(gone, f)) = Len(fate)
           /\ DOMAIN SetFate(gone, f) = DOMAIN fate
  <1>1. fate \in Seq(Fates) /\ DOMAIN fate = 1 .. Len(fate) /\ Len(fate) \in Nat
    BY DEF TypeOK
  <1>2. \A n \in 1 .. Len(fate) : fate[n] \in Fates
    BY <1>1
  <1>3. "expired" \in Fates
    BY DEF Fates
  <1>4. SetFate(gone, f) \in [1 .. Len(fate) -> Fates]
    BY <1>1, <1>2, <1>3 DEF SetFate
  <1>5. QED
    BY <1>1, <1>4

\* The reservation table built from an accepted token list.
LEMMA VipTableType ==
    ASSUME NEW list \in VipLists
    PROVE  /\ DOMAIN VipTable(list) \subseteq Ids
           /\ VipTable(list) \in [DOMAIN VipTable(list) -> Passes]
  <1>1. /\ list \in Seq(VipEntry)
        /\ \A i \in DOMAIN list : list[i] \in VipEntry
    OBVIOUS
  <1> DEFINE E == {list[i] : i \in DOMAIN list}
             D == {list[i].id : i \in DOMAIN list}
  <1>2. E \subseteq VipEntry
    BY <1>1
  <1>3. ASSUME NEW id \in D
        PROVE  (CHOOSE e \in E : e.id = id).pass \in Passes
    <2>1. \E e \in E : e.id = id
      OBVIOUS
    <2>2. (CHOOSE e \in E : e.id = id) \in E
      BY <2>1
    <2>3. QED
      BY <1>2, <2>2 DEF VipEntry
  <1>4. D \subseteq Ids
    BY <1>1 DEF VipEntry
  <1>5. VipTable(list) = [id \in D |-> (CHOOSE e \in E : e.id = id).pass]
    BY DEF VipTable
  <1> HIDE DEF E, D
  <1>6. QED
    BY <1>3, <1>4, <1>5

\* Every reply a handler writes is a reply.
LEMMA RespondType ==
    ASSUME NEW op \in Ops, NEW id \in Ids, NEW status \in Statuses
    PROVE  Respond(op, id, status) \in Replies
  BY DEF Respond, Replies

\* A register or deregister reply that carries a key is still a reply.
LEMMA ReplyKeyType ==
    ASSUME NEW r \in Replies, NEW k \in 0 .. MaxKey
    PROVE  [r EXCEPT !.key = k] \in Replies
  BY DEF Replies

\* The absent reply (a reply too large for REDP2P_BUF, or no request) is typed.
LEMMA NoReplyType == NoReply \in Replies
  <1>1. "none" \in Ops /\ "none" \in Statuses
    BY DEF Ops, Statuses
  <1>2. QED
    BY <1>1 DEF NoReply, Replies

-----------------------------------------------------------------------------
(***************************************************************************)
(* Type correctness.                                                       *)
(***************************************************************************)

\* The initial context is well typed.
LEMMA InitType == Init => TypeOK
  <1>1. 0 \in 0 .. MaxNow
    OBVIOUS
  <1>2. NoReply \in Replies
    BY NoReplyType
  <1>3. << >> \in Seq([id : Ids, pass : Passes]) /\ << >> \in Seq(Fates)
        /\ Len(<< >>) = 0
    OBVIOUS
  <1> SUFFICES ASSUME Init PROVE TypeOK
    OBVIOUS
  <1>4. DOMAIN vips = {} /\ DOMAIN peers = {}
    BY DEF Init
  <1>5. vips \in [{} -> Passes] /\ peers \in [{} -> PeerRecord]
    BY DEF Init
  <1>6. /\ minted \in Seq([id : Ids, pass : Passes]) /\ Len(minted) <= MaxKey
        /\ fate \in Seq(Fates) /\ Len(fate) <= MaxCall
    BY <1>3 DEF Init
  <1>7. /\ phase \in {"open", "serving", "stopped"}
        /\ seatsSet \in BOOLEAN /\ nPeersCap \in Nat /\ nonvipCap \in Nat
        /\ pending \subseteq PendingCall
        /\ now \in 0 .. MaxNow /\ lastPrune \in 0 .. MaxNow
        /\ reply \in Replies
    BY <1>1, <1>2 DEF Init
  <1>8. QED
    BY <1>4, <1>5, <1>6, <1>7 DEF TypeOK

\* Configuration keeps the types: in particular nonvip_cap never underflows.
LEMMA ConfigureType == TypeOK /\ Configure => TypeOK'
  <1> SUFFICES ASSUME TypeOK, Configure PROVE TypeOK'
    OBVIOUS
  <1>0. NoReply \in Replies
    BY NoReplyType
  <1>1. ASSUME NEW n \in SeatCounts, SetSeats(n) PROVE TypeOK'
    <2>1. IsFiniteSet(DOMAIN vips)
      BY FS_Subset DEF TypeOK
    <2>2. Cardinality(DOMAIN vips) \in Nat
      BY <2>1, FS_CardinalityType
    <2>3. nonvipCap' \in Nat /\ nPeersCap' \in Nat /\ seatsSet' \in BOOLEAN
      BY <1>1, <2>2 DEF SetSeats, UpdateNonvipCap
    <2>4. QED
      BY <1>0, <1>1, <2>3 DEF SetSeats, TypeOK, history
  <1>2. ASSUME NEW list \in VipLists, NEW malformed \in BOOLEAN,
               SetVip(list, malformed)
        PROVE  TypeOK'
    <2>1. DOMAIN vips' \subseteq Ids /\ vips' \in [DOMAIN vips' -> Passes]
      BY <1>2, VipTableType DEF SetVip
    <2>2. Cardinality(DOMAIN vips') \in Nat
      BY <2>1, FS_Subset, FS_CardinalityType
    <2>3. nonvipCap' \in Nat
      <3>1. nPeersCap \in Nat
        BY DEF TypeOK
      <3>2. nonvipCap' = UpdateNonvipCap(nPeersCap, Cardinality(DOMAIN vips'))
        BY <1>2 DEF SetVip
      <3>3. QED
        BY <2>2, <3>1, <3>2 DEF UpdateNonvipCap
    <2>4. QED
      BY <1>0, <1>2, <2>1, <2>3 DEF SetVip, TypeOK, history
  <1>3. QED
    BY <1>1, <1>2 DEF Configure

\* Registration keeps the types.
LEMMA RegisterType ==
    ASSUME TypeOK, NEW id \in Ids, NEW proof \in Proofs, NEW info \in Infos,
           NEW out \in Outcomes, HandleRegister(id, proof, info, out)
    PROVE  TypeOK'
  <1>1. ASSUME DOMAIN peers' \subseteq Ids,
               peers' \in [DOMAIN peers' -> PeerRecord],
               reply' \in Replies,
               minted' \in Seq([id : Ids, pass : Passes]),
               Len(minted') <= MaxKey
        PROVE  TypeOK'
    BY <1>1 DEF TypeOK, HandleRegister, config
  <1>2. \A st \in {"ok", "auth_failed", "table_full", "internal"} :
          Respond("register", id, st) \in Replies
    BY RespondType DEF Ops, Statuses
  <1>3. CASE RegisterDenied(id, proof)
    BY <1>1, <1>2, <1>3 DEF RegisterDenied, TypeOK
  <1>4. CASE RegisterFull(id, proof)
    BY <1>1, <1>2, <1>4, EvictStaleFacts DEF RegisterFull, TypeOK
  <1>5. CASE RegisterFault(id, proof)
    BY <1>1, <1>2, <1>5, EvictStaleFacts DEF RegisterFault, TypeOK
  <1>6. CASE RegisterNew(id, proof, info, out)
    <2> DEFINE key == Len(minted) + 1
               r == [key |-> key, lastSeen |-> now, info |-> info]
    <2>0. minted \in Seq([id : Ids, pass : Passes]) /\ Len(minted) \in Nat
      BY DEF TypeOK
    <2>1. key \in Keys
      <3>1. Len(minted) < MaxKey
        BY <1>6 DEF RegisterNew
      <3>2. QED
        BY <2>0, <3>1 DEF Keys
    <2>2. r \in PeerRecord
      BY <2>1 DEF PeerRecord, TypeOK
    <2>3. peers' = Upsert(EvictStale, id, r)
      BY <1>6 DEF RegisterNew
    <2>4. DOMAIN peers' \subseteq Ids /\ peers' \in [DOMAIN peers' -> PeerRecord]
      <3> HIDE DEF r
      <3>1. /\ DOMAIN Upsert(EvictStale, id, r) = FreshIds \cup {id}
            /\ Upsert(EvictStale, id, r) \in [FreshIds \cup {id} -> PeerRecord]
        BY <2>2, EvictStaleFacts, UpsertType
      <3>2. QED
        BY <2>3, <3>1, EvictStaleFacts
    <2>5. minted' = Append(minted, [id |-> id, pass |-> proof.pass])
      BY <1>6 DEF RegisterNew
    <2>6. [id |-> id, pass |-> proof.pass] \in [id : Ids, pass : Passes]
      BY DEF Proofs
    <2>7. /\ minted' \in Seq([id : Ids, pass : Passes])
          /\ Len(minted') <= MaxKey
      <3>1. Len(minted) < MaxKey
        BY <1>6 DEF RegisterNew
      <3>2. QED
        BY <2>0, <2>5, <2>6, <3>1
    <2>8. reply' \in Replies
      <3>1. (IF out = "ok" THEN key ELSE 0) \in 0 .. MaxKey
        BY <2>1 DEF Keys
      <3>2. Respond("register", id, out) \in Replies
        BY <1>2 DEF Outcomes
      <3>3. reply' = [Respond("register", id, out) EXCEPT
                        !.key = IF out = "ok" THEN key ELSE 0]
        BY <1>6 DEF RegisterNew
      <3>4. QED
        BY <3>1, <3>2, <3>3, ReplyKeyType
    <2>9. QED
      BY <1>1, <2>4, <2>7, <2>8
  <1>7. CASE RegisterRefresh(id, proof, info, out)
    <2> DEFINE r == [peers[id] EXCEPT !.lastSeen = now, !.info = info]
    <2>1. id \in FreshIds /\ peers[id] \in PeerRecord
      BY <1>7, EvictStaleFacts DEF RegisterRefresh, TypeOK
    <2>2. r \in PeerRecord
      BY <2>1 DEF PeerRecord, TypeOK
    <2>3. peers' = Upsert(EvictStale, id, r)
      BY <1>7 DEF RegisterRefresh
    <2>4. DOMAIN peers' \subseteq Ids /\ peers' \in [DOMAIN peers' -> PeerRecord]
      <3> HIDE DEF r
      <3>1. /\ DOMAIN Upsert(EvictStale, id, r) = FreshIds \cup {id}
            /\ Upsert(EvictStale, id, r) \in [FreshIds \cup {id} -> PeerRecord]
        BY <2>2, EvictStaleFacts, UpsertType
      <3>2. QED
        BY <2>3, <3>1, EvictStaleFacts
    <2>5. reply' \in Replies
      <3>1. (IF out = "ok" THEN peers[id].key ELSE 0) \in 0 .. MaxKey
        BY <2>1 DEF PeerRecord, Keys
      <3>2. Respond("register", id, out) \in Replies
        BY <1>2 DEF Outcomes
      <3>3. reply' = [Respond("register", id, out) EXCEPT
                        !.key = IF out = "ok" THEN peers[id].key ELSE 0]
        BY <1>7 DEF RegisterRefresh
      <3>4. QED
        BY <3>1, <3>2, <3>3, ReplyKeyType
    <2>6. QED
      BY <1>1, <1>7, <2>4, <2>5 DEF RegisterRefresh, TypeOK
  <1>8. QED
    BY <1>3, <1>4, <1>5, <1>6, <1>7 DEF HandleRegister

\* Heartbeat and deregister keep the types.
LEMMA HeartbeatType ==
    ASSUME TypeOK, NEW id \in Ids, NEW key \in Keys, NEW info \in Infos,
           NEW out \in Outcomes, HandleHeartbeat(id, key, info, out)
    PROVE  TypeOK'
  <1>1. ASSUME DOMAIN peers' \subseteq Ids,
               peers' \in [DOMAIN peers' -> PeerRecord],
               reply' \in Replies
        PROVE  TypeOK'
    BY <1>1 DEF TypeOK, HandleHeartbeat, config
  <1>2. \A st \in {"ok", "internal", "invalid_key", "not_found"} :
          Respond("heartbeat", id, st) \in Replies
    BY RespondType DEF Ops, Statuses
  <1>3. CASE HeartbeatDenied(id, key)
    BY <1>1, <1>2, <1>3, EvictStaleFacts DEF HeartbeatDenied
  <1>4. CASE HeartbeatAccepted(id, key, info, out)
    <2> DEFINE r == [peers[id] EXCEPT !.lastSeen = now, !.info = info]
    <2>1. id \in FreshIds /\ peers[id] \in PeerRecord
      BY <1>4, EvictStaleFacts DEF HeartbeatAccepted, TypeOK
    <2>2. r \in PeerRecord
      BY <2>1 DEF PeerRecord, TypeOK
    <2>3. peers' = Upsert(EvictStale, id, r)
      BY <1>4 DEF HeartbeatAccepted
    <2>4. DOMAIN peers' \subseteq Ids /\ peers' \in [DOMAIN peers' -> PeerRecord]
      <3> HIDE DEF r
      <3>1. /\ DOMAIN Upsert(EvictStale, id, r) = FreshIds \cup {id}
            /\ Upsert(EvictStale, id, r) \in [FreshIds \cup {id} -> PeerRecord]
        BY <2>2, EvictStaleFacts, UpsertType
      <3>2. QED
        BY <2>3, <3>1, EvictStaleFacts
    <2>5. reply' \in Replies
      BY <1>2, <1>4 DEF HeartbeatAccepted, Outcomes
    <2>6. QED
      BY <1>1, <2>4, <2>5
  <1>5. QED
    BY <1>3, <1>4 DEF HandleHeartbeat

\* Deregister, accepted or refused, keeps the types.
LEMMA DeregisterType ==
    ASSUME TypeOK, NEW id \in Ids, NEW key \in Keys, NEW out \in Outcomes,
           HandleDeregister(id, key, out)
    PROVE  TypeOK'
  <1>1. ASSUME DOMAIN peers' \subseteq Ids,
               peers' \in [DOMAIN peers' -> PeerRecord],
               reply' \in Replies
        PROVE  TypeOK'
    BY <1>1 DEF TypeOK, HandleDeregister, config, history
  <1>2. \A st \in {"ok", "internal", "invalid_key"} :
          Respond("deregister", id, st) \in Replies
    BY RespondType DEF Ops, Statuses
  <1>3. CASE id \in FreshIds /\ peers[id].key = key
    <2>1. peers' = RemovePeer(EvictStale, id)
      BY <1>3 DEF HandleDeregister
    <2>2. DOMAIN peers' \subseteq Ids /\ peers' \in [DOMAIN peers' -> PeerRecord]
      BY <2>1, EvictStaleFacts DEF RemovePeer
    <2>3. reply' \in Replies
      BY <1>2, <1>3, ReplyKeyType DEF HandleDeregister, Outcomes, Keys
    <2>4. QED
      BY <1>1, <2>2, <2>3
  <1>4. CASE ~(id \in FreshIds /\ peers[id].key = key)
    BY <1>1, <1>2, <1>4, EvictStaleFacts DEF HandleDeregister
  <1>5. QED
    BY <1>3, <1>4

\* The operations that only read keep the types.
LEMMA LookupType ==
    ASSUME TypeOK, NEW id \in Ids, HandleLookup(id)
    PROVE  TypeOK'
  <1>1. ASSUME reply' \in Replies PROVE TypeOK'
    BY <1>1 DEF TypeOK, HandleLookup, config, history
  <1>2. \A st \in {"ok", "not_found"} : Respond("lookup", id, st) \in Replies
    BY RespondType DEF Ops, Statuses
  <1>3. ASSUME NEW r \in Replies, NEW x \in Infos
        PROVE  [r EXCEPT !.info = {x}] \in Replies
    BY DEF Replies
  <1>4. id \in FreshIds => peers[id].info \in Infos
    BY EvictStaleFacts DEF TypeOK, PeerRecord
  <1>5. QED
    BY <1>1, <1>2, <1>3, <1>4 DEF HandleLookup

\* The listing keeps the types, also when it does not fit in a reply.
LEMMA ListType == TypeOK /\ HandleList => TypeOK'
  <1> SUFFICES ASSUME TypeOK, HandleList PROVE TypeOK'
    OBVIOUS
  <1>1. [NoReply EXCEPT !.op = "list", !.status = "ok", !.ids = FreshIds]
          \in Replies
    BY NoReplyType, EvictStaleFacts DEF Replies, Ops, Statuses
  <1>2. reply' \in Replies
    BY <1>1, NoReplyType DEF HandleList
  <1>3. QED
    BY <1>2 DEF TypeOK, HandleList, config, history

\* The punch calls keep the types.
LEMMA PunchReqType ==
    ASSUME TypeOK, NEW caller \in Callers, NEW id \in Ids,
           NEW out \in Outcomes, HandlePunchReq(caller, id, out)
    PROVE  TypeOK'
  <1>1. ASSUME pending' \subseteq PendingCall, fate' \in Seq(Fates),
               Len(fate') <= MaxCall, reply' \in Replies
        PROVE  TypeOK'
    BY <1>1 DEF TypeOK, HandlePunchReq, config
  <1>2. \A st \in {"ok", "internal", "busy"} :
          Respond("punch_req", id, st) \in Replies
    BY RespondType DEF Ops, Statuses
  <1>3. /\ SetFate({}, "pending") \in Seq(Fates)
        /\ Len(SetFate({}, "pending")) = Len(fate)
    BY SetFateType DEF Fates
  <1>4. CASE Cardinality(LiveCalls) >= MaxPending
    BY <1>1, <1>2, <1>3, <1>4, LiveCallsFacts DEF HandlePunchReq, TypeOK
  <1>5. CASE ~(Cardinality(LiveCalls) >= MaxPending)
    <2>1. Len(fate) \in Nat /\ Len(fate) < MaxCall
      BY <1>5 DEF HandlePunchReq, TypeOK
    <2>2. [serial |-> Len(fate) + 1, caller |-> caller, target |-> id,
           ts |-> now] \in PendingCall
      <3>1. now \in 0 .. MaxNow
        BY DEF TypeOK
      <3>2. Len(fate) + 1 \in Calls
        BY <2>1 DEF Calls
      <3>3. QED
        BY <3>1, <3>2 DEF PendingCall
    <2>3. pending' \subseteq PendingCall
      BY <1>5, <2>2, LiveCallsFacts DEF HandlePunchReq, TypeOK
    <2>4. fate' \in Seq(Fates) /\ Len(fate') <= MaxCall
      <3>1. "pending" \in Fates
        BY DEF Fates
      <3>2. fate' = Append(SetFate({}, "pending"), "pending")
        BY <1>5 DEF HandlePunchReq
      <3>3. QED
        BY <1>3, <2>1, <3>1, <3>2
    <2>5. reply' \in Replies
      BY <1>2, <1>5 DEF HandlePunchReq, Outcomes
    <2>6. QED
      BY <1>1, <2>3, <2>4, <2>5
  <1>6. QED
    BY <1>4, <1>5

\* A poll keeps the types, whether its calls are returned, lost with a failed
\* reply or dropped with one that does not fit.
LEMMA PunchPollType ==
    ASSUME TypeOK, NEW id \in Ids, NEW out \in Outcomes,
           HandlePunchPoll(id, out)
    PROVE  TypeOK'
  <1> DEFINE taken == {c \in LiveCalls : c.target = id}
             fits == Cardinality(taken) <= ReplyCalls
             f == IF out # "ok" THEN "lost"
                  ELSE IF fits THEN "returned" ELSE "dropped"
  <1>1. ASSUME pending' \subseteq PendingCall, fate' \in Seq(Fates),
               Len(fate') <= MaxCall, reply' \in Replies
        PROVE  TypeOK'
    BY <1>1 DEF TypeOK, HandlePunchPoll, config
  <1>2. taken \subseteq PendingCall /\ pending' \subseteq PendingCall
    BY LiveCallsFacts DEF HandlePunchPoll, TypeOK
  <1>3. f \in Fates
    BY DEF Fates
  <1>4. fate' = SetFate(taken, f)
    BY DEF HandlePunchPoll
  <1>5. fate' \in Seq(Fates) /\ Len(fate') <= MaxCall
    <2> HIDE DEF f, taken
    <2>1. SetFate(taken, f) \in Seq(Fates) /\ Len(SetFate(taken, f)) = Len(fate)
      BY <1>3, SetFateType
    <2>2. QED
      BY <1>4, <2>1 DEF TypeOK
  <1>6. reply' \in Replies
    <2>1. Respond("punch_poll", id, out) \in Replies
      BY RespondType DEF Ops, Statuses, Outcomes
    <2>2. ASSUME NEW r \in Replies, NEW S \in SUBSET PendingCall
          PROVE  [r EXCEPT !.calls = S] \in Replies
      BY DEF Replies
    <2>3. reply' = IF out = "ok" /\ ~fits THEN NoReply
                   ELSE [Respond("punch_poll", id, out) EXCEPT
                           !.calls = IF out = "ok" THEN taken ELSE {}]
      BY DEF HandlePunchPoll
    <2> HIDE DEF taken, fits
    <2>4. QED
      BY <1>2, <2>1, <2>2, <2>3, NoReplyType
  <1>7. QED
    BY <1>1, <1>2, <1>5, <1>6

\* Every step of the index keeps the types.
LEMMA NextType == TypeOK /\ [Next]_vars => TypeOK'
  <1> SUFFICES ASSUME TypeOK, [Next]_vars PROVE TypeOK'
    OBVIOUS
  <1> USE NoReplyType
  <1>1. CASE Configure
    BY <1>1, ConfigureType
  <1>2. CASE Serve
    BY <1>2 DEF Serve, TypeOK, config, history
  <1>3. CASE Stop
    BY <1>3 DEF Stop, TypeOK, config, history
  <1>4. CASE Tick
    <2>1. now' \in 0 .. MaxNow
      <3>1. now \in 0 .. MaxNow
        BY DEF TypeOK
      <3>2. now < MaxNow /\ now' = now + 1
        BY <1>4 DEF Tick
      <3>3. QED
        BY <3>1, <3>2
    <2>2. QED
      BY <1>4, <2>1 DEF Tick, TypeOK, config, history
  <1>5. CASE Request
    <2>1. ASSUME NEW code \in {"bad_request", "invalid_id", "internal"},
                 HandleError(code)
          PROVE  TypeOK'
      <3>1. reply' \in Replies
        BY <2>1 DEF HandleError, Replies, Ops, Statuses
      <3>2. QED
        BY <2>1, <3>1 DEF HandleError, TypeOK, config, history
    <2>2. CASE HandleChallenge
      <3>1. reply' \in Replies
        BY <2>2 DEF HandleChallenge, Replies, Ops, Statuses
      <3>2. QED
        BY <2>2, <3>1 DEF HandleChallenge, TypeOK, config, history
    <2>3. CASE HandleList
      BY <2>3, ListType
    <2>4. QED
      BY <1>5, <2>1, <2>2, <2>3, RegisterType, HeartbeatType, LookupType,
         DeregisterType, PunchReqType, PunchPollType DEF Request
  <1>6. CASE PrepareFdset
    <2>1. /\ SetFate({}, "pending") \in Seq(Fates)
          /\ Len(SetFate({}, "pending")) = Len(fate)
      BY SetFateType DEF Fates
    <2>2. QED
      BY <1>6, <2>1, LiveCallsFacts DEF PrepareFdset, TypeOK, config
  <1>7. CASE Prune
    BY <1>7, EvictStaleFacts DEF Prune, TypeOK, config, history
  <1>8. CASE UNCHANGED vars
    BY <1>8 DEF vars, TypeOK
  <1>9. QED
    BY <1>1, <1>2, <1>3, <1>4, <1>5, <1>6, <1>7, <1>8 DEF Next

\* The state of an index context is always well typed.
THEOREM TypeCorrect == Spec => []TypeOK
  BY InitType, NextType, PTL DEF Spec

-----------------------------------------------------------------------------
(***************************************************************************)
(* Seats.  SeatInv alone is not inductive: lowering nonvip_cap while       *)
(* records are in the table would break it, so the invariant also says     *)
(* that nonvip_cap is what the seats and reservations make it and that the *)
(* table is empty while the context is being configured.                   *)
(***************************************************************************)
SeatIInv ==
    /\ TypeOK
    /\ SeatInv
    /\ nonvipCap = UpdateNonvipCap(nPeersCap, Cardinality(DOMAIN vips))
    /\ phase = "open" => DOMAIN peers = {}

\* What a step does to the publisher table, as far as seats are concerned:
\* it configures, it shrinks the table, or register admits one newcomer.
ShrinkStep ==
    /\ UNCHANGED config
    /\ phase' = "open" => phase = "open"
    /\ DOMAIN peers' \subseteq DOMAIN peers

AdmitStep(id) ==
    /\ UNCHANGED config
    /\ phase = "serving" /\ phase' = "serving"
    /\ id \notin FreshIds
    /\ ~AddPeerFull(FreshIds, id)
    /\ DOMAIN peers' = FreshIds \cup {id}

\* redp2p_index_handle_register either admits id after redp2p_add_peer found
\* both capacity tests passed, or adds nobody.
LEMMA RegisterPeers ==
    ASSUME TypeOK, NEW id \in Ids, NEW proof, NEW info, NEW out,
           HandleRegister(id, proof, info, out)
    PROVE  ShrinkStep \/ AdmitStep(id)
  <1>1. UNCHANGED config /\ phase = "serving" /\ phase' = "serving"
    BY DEF HandleRegister
  <1>2. CASE RegisterDenied(id, proof)
    BY <1>1, <1>2 DEF RegisterDenied, ShrinkStep
  <1>3. CASE RegisterFull(id, proof) \/ RegisterFault(id, proof)
    BY <1>1, <1>3, EvictStaleFacts DEF RegisterFull, RegisterFault, ShrinkStep
  <1>4. CASE RegisterNew(id, proof, info, out)
    <2>1. DOMAIN peers' = FreshIds \cup {id}
      BY <1>4, EvictStaleFacts DEF RegisterNew, Upsert
    <2>2. QED
      BY <1>1, <1>4, <2>1 DEF RegisterNew, AdmitStep
  <1>5. CASE RegisterRefresh(id, proof, info, out)
    <2>1. DOMAIN peers' = FreshIds \cup {id}
      BY <1>5, EvictStaleFacts DEF RegisterRefresh, Upsert
    <2>2. QED
      BY <1>1, <1>5, <2>1, EvictStaleFacts DEF RegisterRefresh, ShrinkStep
  <1>6. QED
    BY <1>2, <1>3, <1>4, <1>5 DEF HandleRegister

\* No other step of the index adds an identifier to the publisher table.
LEMMA PeersStep ==
    ASSUME TypeOK, [Next]_vars
    PROVE  Configure \/ ShrinkStep \/ \E id \in Ids : AdmitStep(id)
  <1>1. CASE Request
    <2>1. ASSUME NEW id \in Ids, NEW key, NEW info, NEW out,
                 HandleHeartbeat(id, key, info, out)
          PROVE  ShrinkStep
      <3>1. CASE HeartbeatDenied(id, key)
        BY <2>1, <3>1, EvictStaleFacts
           DEF HandleHeartbeat, HeartbeatDenied, ShrinkStep
      <3>2. CASE HeartbeatAccepted(id, key, info, out)
        <4>1. DOMAIN peers' = FreshIds \cup {id}
          BY <3>2, EvictStaleFacts DEF HeartbeatAccepted, Upsert
        <4>2. QED
          BY <2>1, <3>2, <4>1, EvictStaleFacts
             DEF HandleHeartbeat, HeartbeatAccepted, ShrinkStep
      <3>3. QED
        BY <2>1, <3>1, <3>2 DEF HandleHeartbeat
    <2>2. ASSUME NEW id \in Ids, NEW key, NEW out, HandleDeregister(id, key, out)
          PROVE  ShrinkStep
      <3>1. DOMAIN peers' \subseteq FreshIds
        BY <2>2, EvictStaleFacts DEF HandleDeregister, RemovePeer
      <3>2. QED
        BY <2>2, <3>1, EvictStaleFacts DEF HandleDeregister, ShrinkStep
    <2>3. ASSUME UNCHANGED <<phase, config, peers>> PROVE ShrinkStep
      BY <2>3 DEF ShrinkStep
    <2>4. QED
      BY <1>1, <2>1, <2>2, <2>3, RegisterPeers
         DEF Request, HandleError, HandleChallenge, HandleLookup, HandleList,
             HandlePunchReq, HandlePunchPoll
  <1>2. CASE Serve \/ Stop \/ Tick \/ PrepareFdset
    BY <1>2 DEF Serve, Stop, Tick, PrepareFdset, ShrinkStep
  <1>3. CASE Prune
    BY <1>3, EvictStaleFacts DEF Prune, ShrinkStep
  <1>4. CASE UNCHANGED vars
    BY <1>4 DEF vars, ShrinkStep, config
  <1>5. QED
    BY <1>1, <1>2, <1>3, <1>4 DEF Next

\* The publisher table and its parts are finite.
LEMMA TableFinite ==
    ASSUME TypeOK, NEW S, S \subseteq DOMAIN peers
    PROVE  /\ IsFiniteSet(S) /\ Cardinality(S) \in Nat
           /\ Cardinality(S) <= Cardinality(DOMAIN peers)
           /\ IsFiniteSet(NonVip(S)) /\ Cardinality(NonVip(S)) \in Nat
           /\ Cardinality(NonVip(S)) <= Cardinality(NonVip(DOMAIN peers))
           /\ Cardinality(DOMAIN peers) \in Nat
           /\ Cardinality(NonVip(DOMAIN peers)) \in Nat
  <1>1. IsFiniteSet(DOMAIN peers)
    BY FS_Subset DEF TypeOK
  <1>2. NonVip(DOMAIN peers) \subseteq DOMAIN peers
        /\ NonVip(S) \subseteq NonVip(DOMAIN peers) /\ NonVip(S) \subseteq S
    BY DEF NonVip
  <1>3. IsFiniteSet(NonVip(DOMAIN peers))
    BY <1>1, <1>2, FS_Subset
  <1>4. IsFiniteSet(S) /\ Cardinality(S) <= Cardinality(DOMAIN peers)
    BY <1>1, FS_Subset
  <1>5. /\ IsFiniteSet(NonVip(S))
        /\ Cardinality(NonVip(S)) <= Cardinality(NonVip(DOMAIN peers))
    BY <1>2, <1>3, FS_Subset
  <1>6. QED
    BY <1>1, <1>3, <1>4, <1>5, FS_CardinalityType

\* A context fresh from redp2p_open satisfies the seat invariant.
LEMMA SeatInit == Init => SeatIInv
  <1> SUFFICES ASSUME Init PROVE SeatIInv
    OBVIOUS
  <1>1. Cardinality(DOMAIN vips) = 0 /\ DOMAIN peers = {}
    BY FS_EmptySet DEF Init
  <1>2. QED
    BY <1>1, InitType DEF Init, SeatIInv, SeatInv, UpdateNonvipCap

\* Every step of the index keeps it: configuration because the table is still
\* empty, an admission by the capacity tests, the others because they only
\* remove records.
LEMMA SeatNext == SeatIInv /\ [Next]_vars => SeatIInv'
  <1> SUFFICES ASSUME SeatIInv, [Next]_vars PROVE SeatIInv'
    OBVIOUS
  <1>1. TypeOK /\ TypeOK'
    BY NextType DEF SeatIInv
  <1>2. CASE Configure
    <2>1. phase = "open" /\ peers' = peers
      BY <1>2 DEF Configure, SetSeats, SetVip
    <2>2. DOMAIN peers' = {} /\ NonVip(DOMAIN peers)' = {}
      BY <2>1 DEF SeatIInv, NonVip
    <2>3. Cardinality(DOMAIN peers') = 0 /\ Cardinality(NonVip(DOMAIN peers)') = 0
      BY <2>2, FS_EmptySet
    <2>4. SeatInv'
      BY <1>1, <2>3 DEF SeatInv, TypeOK
    <2>5. nonvipCap' = UpdateNonvipCap(nPeersCap', Cardinality(DOMAIN vips'))
      BY <1>2 DEF Configure, SetSeats, SetVip
    <2>6. QED
      BY <1>1, <2>2, <2>4, <2>5 DEF SeatIInv, UpdateNonvipCap
  <1>3. CASE ShrinkStep
    <2>1. NonVip(DOMAIN peers)' = NonVip(DOMAIN peers')
      BY <1>3 DEF ShrinkStep, NonVip, config
    <2>2. SeatInv'
      <3> SUFFICES ASSUME seatsSet'
                   PROVE  /\ Cardinality(DOMAIN peers') <= nPeersCap'
                          /\ Cardinality(NonVip(DOMAIN peers)') <= nonvipCap'
        BY DEF SeatInv
      <3>1. seatsSet /\ nPeersCap' = nPeersCap /\ nonvipCap' = nonvipCap
        BY <1>3 DEF ShrinkStep, config
      <3>2. /\ Cardinality(DOMAIN peers) <= nPeersCap
            /\ Cardinality(NonVip(DOMAIN peers)) <= nonvipCap
        BY <3>1 DEF SeatIInv, SeatInv
      <3>3. /\ Cardinality(DOMAIN peers') <= Cardinality(DOMAIN peers)
            /\ Cardinality(NonVip(DOMAIN peers'))
                 <= Cardinality(NonVip(DOMAIN peers))
            /\ Cardinality(DOMAIN peers') \in Nat
            /\ Cardinality(DOMAIN peers) \in Nat
            /\ Cardinality(NonVip(DOMAIN peers')) \in Nat
            /\ Cardinality(NonVip(DOMAIN peers)) \in Nat
        BY <1>1, <1>3, TableFinite DEF ShrinkStep
      <3>4. nPeersCap \in Nat /\ nonvipCap \in Nat
        BY <1>1 DEF TypeOK
      <3>5. QED
        BY <2>1, <3>1, <3>2, <3>3, <3>4
    <2>3. QED
      BY <1>1, <1>3, <2>2 DEF ShrinkStep, SeatIInv, config, UpdateNonvipCap
  <1>4. ASSUME NEW id \in Ids, AdmitStep(id) PROVE SeatIInv'
    <2>1. FreshIds \subseteq DOMAIN peers
      BY <1>1, EvictStaleFacts
    <2>2. /\ IsFiniteSet(FreshIds) /\ Cardinality(FreshIds) \in Nat
          /\ IsFiniteSet(NonVip(FreshIds)) /\ Cardinality(NonVip(FreshIds)) \in Nat
          /\ Cardinality(NonVip(FreshIds)) <= Cardinality(NonVip(DOMAIN peers))
          /\ Cardinality(NonVip(DOMAIN peers)) \in Nat
      BY <1>1, <2>1, TableFinite
    <2>3. Cardinality(DOMAIN peers') = Cardinality(FreshIds) + 1
      BY <1>4, <2>2, FS_AddElement DEF AdmitStep
    <2>4. /\ nPeersCap' = nPeersCap /\ nonvipCap' = nonvipCap
          /\ nPeersCap \in Nat /\ nonvipCap \in Nat
      BY <1>1, <1>4 DEF AdmitStep, config, TypeOK
    <2>5. CASE id \in DOMAIN vips
      <3>1. NonVip(DOMAIN peers)' = NonVip(FreshIds)
        BY <1>4, <2>5 DEF AdmitStep, NonVip, config
      <3>2. SeatInv'
        <4> SUFFICES ASSUME seatsSet'
                     PROVE  /\ Cardinality(DOMAIN peers') <= nPeersCap'
                            /\ Cardinality(NonVip(DOMAIN peers)') <= nonvipCap'
          BY DEF SeatInv
        <4>1. seatsSet
          BY <1>4 DEF AdmitStep, config
        <4>2. ~(Cardinality(FreshIds) >= nPeersCap)
          BY <1>4, <4>1 DEF AdmitStep, AddPeerFull
        <4>3. Cardinality(NonVip(DOMAIN peers)) <= nonvipCap
          BY <4>1 DEF SeatIInv, SeatInv
        <4>4. QED
          BY <2>2, <2>3, <2>4, <3>1, <4>2, <4>3
      <3>3. QED
        BY <1>1, <1>4, <3>2 DEF AdmitStep, SeatIInv, config, UpdateNonvipCap
    <2>6. CASE id \notin DOMAIN vips
      <3>1. NonVip(DOMAIN peers)' = NonVip(FreshIds) \cup {id}
        BY <1>4, <2>6 DEF AdmitStep, NonVip, config
      <3>2. id \notin NonVip(FreshIds)
        BY <1>4 DEF AdmitStep, NonVip
      <3>3. Cardinality(NonVip(DOMAIN peers)')
              = Cardinality(NonVip(FreshIds)) + 1
        BY <2>2, <3>1, <3>2, FS_AddElement
      <3>4. SeatInv'
        <4> SUFFICES ASSUME seatsSet'
                     PROVE  /\ Cardinality(DOMAIN peers') <= nPeersCap'
                            /\ Cardinality(NonVip(DOMAIN peers)') <= nonvipCap'
          BY DEF SeatInv
        <4>1. seatsSet
          BY <1>4 DEF AdmitStep, config
        <4>2. /\ ~(Cardinality(FreshIds) >= nPeersCap)
              /\ ~(Cardinality(NonVip(FreshIds)) >= nonvipCap)
          BY <1>4, <2>6, <4>1 DEF AdmitStep, AddPeerFull
        <4>3. QED
          BY <2>2, <2>3, <2>4, <3>3, <4>2
      <3>5. QED
        BY <1>1, <1>4, <3>4 DEF AdmitStep, SeatIInv, config, UpdateNonvipCap
    <2>7. QED
      BY <2>5, <2>6
  <1>5. QED
    BY <1>1, <1>2, <1>3, <1>4, PeersStep

\* The table never exceeds its seats, nor unreserved publishers the seats the
\* reservations leave (redp2p_add_peer).
THEOREM SeatsRespected == Spec => []SeatInv
  <1>1. SeatIInv => SeatInv
    BY DEF SeatIInv
  <1>2. QED
    BY <1>1, SeatInit, SeatNext, PTL DEF Spec

\* Only register's full table answers table_full.
LEMMA TableFullStep ==
    ASSUME Next, NEW id \in Ids, reply' = Respond("register", id, "table_full")
    PROVE  id \notin FreshIds /\ AddPeerFull(FreshIds, id)
  <1>1. reply'.op = "register" /\ reply'.status = "table_full"
        /\ reply'.ids = {id}
    BY DEF Respond
  <1>2. NoReply.op = "none"
    BY DEF NoReply
  <1>3. ASSUME NEW x, NEW proof, NEW info, NEW out \in Outcomes,
               HandleRegister(x, proof, info, out)
        PROVE  id \notin FreshIds /\ AddPeerFull(FreshIds, id)
    <2>1. CASE RegisterFull(x, proof)
      <3>1. x = id
        BY <1>1, <2>1 DEF RegisterFull, Respond
      <3>2. QED
        BY <2>1, <3>1 DEF RegisterFull
    <2>2. CASE RegisterDenied(x, proof) \/ RegisterFault(x, proof)
      BY <1>1, <2>2 DEF RegisterDenied, RegisterFault, Respond
    <2>3. CASE RegisterNew(x, proof, info, out)
      <3>1. reply'.status = out
        BY <2>3 DEF RegisterNew, Respond
      <3>2. QED
        BY <1>1, <3>1 DEF Outcomes
    <2>4. CASE RegisterRefresh(x, proof, info, out)
      <3>1. reply'.status = out
        BY <2>4 DEF RegisterRefresh, Respond
      <3>2. QED
        BY <1>1, <3>1 DEF Outcomes
    <2>5. QED
      BY <1>3, <2>1, <2>2, <2>3, <2>4 DEF HandleRegister
  <1>4. ASSUME NEW x, NEW key, NEW info, NEW out, HandleHeartbeat(x, key, info, out)
        PROVE  reply'.op = "heartbeat"
    BY <1>4 DEF HandleHeartbeat, HeartbeatDenied, HeartbeatAccepted, Respond
  <1>5. ASSUME NEW x, NEW key, NEW out, HandleDeregister(x, key, out)
        PROVE  reply'.op = "deregister"
    BY <1>5 DEF HandleDeregister, Respond
  <1>6. ASSUME NEW x, HandleLookup(x) PROVE reply'.op = "lookup"
    BY <1>6 DEF HandleLookup, Respond
  <1>7. ASSUME NEW k, NEW x, NEW out, HandlePunchReq(k, x, out)
        PROVE  reply'.op = "punch_req"
    BY <1>7 DEF HandlePunchReq, Respond
  <1>8. ASSUME NEW x, NEW out, HandlePunchPoll(x, out)
        PROVE  reply'.op \in {"none", "punch_poll"}
    BY <1>8 DEF HandlePunchPoll, Respond, NoReply
  <1>9. ASSUME HandleList \/ HandleChallenge \/ \E x : HandleError(x)
        PROVE  reply'.op \in {"none", "list", "challenge", "invalid"}
    <2>1. CASE HandleList
      <3>1. \/ reply' = NoReply
            \/ reply' = [NoReply EXCEPT !.op = "list", !.status = "ok",
                                        !.ids = FreshIds]
        BY <2>1 DEF HandleList
      <3>2. reply' = NoReply => reply'.op = "none"
        BY <1>2
      <3>3. [NoReply EXCEPT !.op = "list", !.status = "ok",
                            !.ids = FreshIds].op = "list"
        BY DEF NoReply
      <3>4. QED
        BY <3>1, <3>2, <3>3
    <2>2. CASE HandleChallenge
      BY <2>2 DEF HandleChallenge, NoReply
    <2>3. ASSUME NEW x, HandleError(x) PROVE reply'.op = "invalid"
      BY <2>3 DEF HandleError, NoReply
    <2>4. QED
      BY <1>9, <2>1, <2>2, <2>3
  <1>10. CASE Request
    BY <1>1, <1>3, <1>4, <1>5, <1>6, <1>7, <1>8, <1>9, <1>10 DEF Request
  <1>11. CASE Configure \/ Serve \/ Stop \/ Tick \/ PrepareFdset \/ Prune
    <2>1. reply' = NoReply
      BY <1>11 DEF Configure, SetSeats, SetVip, Serve, Stop, Tick,
                   PrepareFdset, Prune
    <2>2. QED
      BY <1>1, <1>2, <2>1
  <1>12. QED
    BY <1>10, <1>11 DEF Next

\* The counting argument behind a reservation: with a seat per reservation
\* set aside, the live records without id never fill the table.
LEMMA ReservedSeatFree ==
    ASSUME SeatIInv, seatsSet, NEW id \in DOMAIN vips, id \notin FreshIds,
           Cardinality(DOMAIN vips) <= nPeersCap
    PROVE  Cardinality(FreshIds) < nPeersCap
  <1>1. TypeOK
    BY DEF SeatIInv
  <1>2. FreshIds \subseteq DOMAIN peers
    BY <1>1, EvictStaleFacts
  <1> DEFINE N == NonVip(FreshIds)
             V == FreshIds \cap DOMAIN vips
  <1>3. /\ IsFiniteSet(N) /\ Cardinality(N) \in Nat
        /\ Cardinality(N) <= Cardinality(NonVip(DOMAIN peers))
        /\ Cardinality(NonVip(DOMAIN peers)) \in Nat
        /\ IsFiniteSet(FreshIds) /\ Cardinality(FreshIds) \in Nat
    BY <1>1, <1>2, TableFinite
  <1>4. IsFiniteSet(DOMAIN vips) /\ Cardinality(DOMAIN vips) \in Nat
    BY <1>1, FS_Subset, FS_CardinalityType DEF TypeOK
  <1>5. /\ IsFiniteSet(V) /\ Cardinality(V) \in Nat
        /\ Cardinality(V) <= Cardinality(DOMAIN vips) - 1
    <2>1. V \subseteq DOMAIN vips \ {id}
      OBVIOUS
    <2>2. /\ IsFiniteSet(DOMAIN vips \ {id})
          /\ Cardinality(DOMAIN vips \ {id}) = Cardinality(DOMAIN vips) - 1
      BY <1>4, FS_RemoveElement
    <2>3. QED
      BY <2>1, <2>2, FS_Subset, FS_CardinalityType
  <1>6. Cardinality(FreshIds) = Cardinality(N) + Cardinality(V)
    <2>1. FreshIds = N \cup V /\ N \cap V = {}
      BY DEF NonVip
    <2>2. Cardinality(N \cup V)
            = Cardinality(N) + Cardinality(V) - Cardinality(N \cap V)
      BY <1>3, <1>5, FS_Union
    <2>3. Cardinality(N \cap V) = 0
      BY <2>1, FS_EmptySet
    <2> HIDE DEF N, V
    <2>4. QED
      BY <1>3, <1>5, <2>1, <2>2, <2>3
  <1>7. nPeersCap \in Nat /\ nonvipCap \in Nat
    BY <1>1 DEF TypeOK
  <1>8. Cardinality(N) <= nPeersCap - Cardinality(DOMAIN vips)
    <2>1. Cardinality(NonVip(DOMAIN peers)) <= nonvipCap
      BY DEF SeatIInv, SeatInv
    <2>2. nonvipCap = nPeersCap - Cardinality(DOMAIN vips)
      <3>1. nonvipCap = UpdateNonvipCap(nPeersCap, Cardinality(DOMAIN vips))
        BY DEF SeatIInv
      <3>2. QED
        BY <1>4, <1>7, <3>1 DEF UpdateNonvipCap
    <2> HIDE DEF N
    <2>3. QED
      BY <1>3, <1>4, <1>7, <2>1, <2>2
  <1> HIDE DEF N, V
  <1>9. QED
    BY <1>3, <1>4, <1>5, <1>6, <1>8, <1>7

\* While the reservations fit in the seats, register never answers table_full
\* to a reserved identifier (redp2p_add_peer, redp2p_update_nonvip_cap).
THEOREM VipSeatGuaranteed == Spec => VipNeverRefused
  <1> DEFINE A == \A id \in DOMAIN vips :
                    Cardinality(DOMAIN vips) <= nPeersCap =>
                       reply' # Respond("register", id, "table_full")
  <1>1. ASSUME SeatIInv, [Next]_vars PROVE [A]_vars
    <2>1. SUFFICES ASSUME Next, NEW id \in DOMAIN vips,
                          Cardinality(DOMAIN vips) <= nPeersCap,
                          reply' = Respond("register", id, "table_full")
                   PROVE  FALSE
      BY <1>1
    <2>2. id \in Ids
      BY <1>1 DEF SeatIInv, TypeOK
    <2>3. id \notin FreshIds /\ AddPeerFull(FreshIds, id)
      BY <2>1, <2>2, TableFullStep
    <2>4. seatsSet /\ Cardinality(FreshIds) >= nPeersCap
      BY <2>1, <2>3 DEF AddPeerFull
    <2>5. Cardinality(FreshIds) < nPeersCap
      BY <1>1, <2>1, <2>3, <2>4, ReservedSeatFree
    <2>6. Cardinality(FreshIds) \in Nat /\ nPeersCap \in Nat
      BY <1>1, TableFinite, EvictStaleFacts DEF SeatIInv, TypeOK
    <2>7. QED
      BY <2>4, <2>5, <2>6
  <1>2. QED
    BY <1>1, SeatInit, SeatNext, PTL DEF Spec, VipNeverRefused

-----------------------------------------------------------------------------

(***************************************************************************)
(* What a step does to the records.  All of the program's steps fall in    *)
(* six classes; each theorem below is argued class by class.               *)
(***************************************************************************)
Unanswered == [about |-> {}, live |-> {}, info |-> {}]

\* Lookup's and list's answers, from the live records of this instant.
AnswersOne(id) ==
    Answer' = IF id \in FreshIds
                THEN [about |-> {id}, live |-> {id}, info |-> {peers[id].info}]
                ELSE [about |-> {id}, live |-> {}, info |-> {}]

AnswersAll == Answer' = [about |-> Ids, live |-> FreshIds, info |-> {}]

\* The array is at most cleaned of expired records.
QuietStep ==
    /\ UNCHANGED <<config, now, minted>>
    /\ peers' \in {peers, EvictStale}
    /\ \/ Answer' = Unanswered
       \/ \E id \in Ids : AnswersOne(id)
       \/ AnswersAll

GrantStep(id, info) ==
    /\ UNCHANGED <<config, now>>
    /\ id \notin FreshIds
    /\ ~AddPeerFull(FreshIds, id)
    /\ peers' = Upsert(EvictStale, id, [key |-> Len(minted) + 1,
                                        lastSeen |-> now, info |-> info])
    /\ minted' = Append(minted, [id |-> id, pass |-> GetRegisterPass(id)])
    /\ Answer' = Unanswered

RenewStep(id, info) ==
    /\ UNCHANGED <<config, now, minted>>
    /\ id \in FreshIds
    /\ peers' = Upsert(EvictStale, id,
                    [peers[id] EXCEPT !.lastSeen = now, !.info = info])
    /\ Answer' = Unanswered

WithdrawStep(id) ==
    /\ UNCHANGED <<config, now, minted>>
    /\ id \in FreshIds
    /\ peers' = RemovePeer(EvictStale, id)
    /\ reply'.op = "deregister" /\ reply'.ids = {id}
    /\ reply'.key = peers[id].key
    /\ Answer' = Unanswered

ConfigureStep ==
    /\ phase = "open"
    /\ UNCHANGED <<peers, now, minted>>
    /\ Answer' = Unanswered

TickStep ==
    /\ now' = now + 1
    /\ UNCHANGED <<config, peers, minted>>
    /\ Answer' = Unanswered

\* Only lookup and list answer a reader.
LEMMA AnswerOther ==
    ASSUME reply'.op \notin {"lookup", "list"}
    PROVE  Answer' = Unanswered
  BY DEF Answer, Unanswered

\* Steps that write no reply answer nobody.
LEMMA AnswerNone == ASSUME reply' = NoReply PROVE Answer' = Unanswered
  <1>1. reply'.op = "none"
    BY DEF NoReply
  <1>2. QED
    BY <1>1, AnswerOther

\* redp2p_index_handle_register grants, renews or leaves the records alone.
LEMMA RegisterClass ==
    ASSUME TypeOK, NEW id \in Ids, NEW proof \in Proofs, NEW info \in Infos,
           NEW out \in Outcomes, HandleRegister(id, proof, info, out)
    PROVE  QuietStep \/ GrantStep(id, info) \/ RenewStep(id, info)
  <1>1. UNCHANGED <<config, now>>
    BY DEF HandleRegister
  <1>2. CASE \/ RegisterDenied(id, proof)
             \/ RegisterFull(id, proof)
             \/ RegisterFault(id, proof)
    <2>1. reply'.op = "register"
      BY <1>2 DEF RegisterDenied, RegisterFull, RegisterFault, Respond
    <2>2. QED
      BY <1>1, <1>2, <2>1, AnswerOther
         DEF RegisterDenied, RegisterFull, RegisterFault, QuietStep
  <1>3. CASE RegisterNew(id, proof, info, out)
    <2>1. reply'.op = "register"
      BY <1>3 DEF RegisterNew, Respond
    <2>2. proof.pass = GetRegisterPass(id)
      BY <1>3 DEF RegisterNew, VerifyRegisterPow
    <2>3. QED
      BY <1>1, <1>3, <2>1, <2>2, AnswerOther DEF RegisterNew, GrantStep
  <1>4. CASE RegisterRefresh(id, proof, info, out)
    <2>1. reply'.op = "register"
      BY <1>4 DEF RegisterRefresh, Respond
    <2>2. QED
      BY <1>1, <1>4, <2>1, AnswerOther DEF RegisterRefresh, RenewStep
  <1>5. QED
    BY <1>2, <1>3, <1>4 DEF HandleRegister

\* redp2p_index_handle_heartbeat renews or leaves the records alone.
LEMMA HeartbeatClass ==
    ASSUME TypeOK, NEW id \in Ids, NEW key \in Keys, NEW info \in Infos,
           NEW out \in Outcomes, HandleHeartbeat(id, key, info, out)
    PROVE  QuietStep \/ RenewStep(id, info)
  <1>1. UNCHANGED <<config, now, minted>>
    BY DEF HandleHeartbeat
  <1>2. reply'.op = "heartbeat"
    BY DEF HandleHeartbeat, HeartbeatDenied, HeartbeatAccepted, Respond
  <1>3. Answer' = Unanswered
    BY <1>2, AnswerOther
  <1>4. CASE HeartbeatDenied(id, key)
    BY <1>1, <1>3, <1>4 DEF HeartbeatDenied, QuietStep
  <1>5. CASE HeartbeatAccepted(id, key, info, out)
    BY <1>1, <1>3, <1>5 DEF HeartbeatAccepted, RenewStep
  <1>6. QED
    BY <1>4, <1>5 DEF HandleHeartbeat

\* redp2p_index_handle_deregister withdraws under the record's own key, or
\* leaves the records alone.
LEMMA DeregisterClass ==
    ASSUME TypeOK, NEW id \in Ids, NEW key \in Keys, NEW out \in Outcomes,
           HandleDeregister(id, key, out)
    PROVE  QuietStep \/ WithdrawStep(id)
  <1>1. UNCHANGED <<config, now, minted>>
    BY DEF HandleDeregister, history
  <1>2. reply'.op = "deregister"
    BY DEF HandleDeregister, Respond
  <1>3. Answer' = Unanswered
    BY <1>2, AnswerOther
  <1>4. CASE id \in FreshIds /\ peers[id].key = key
    <2>1. /\ peers' = RemovePeer(EvictStale, id)
          /\ reply' = [Respond("deregister", id, out) EXCEPT !.key = key]
      BY <1>4 DEF HandleDeregister
    <2>2. reply'.ids = {id} /\ reply'.key = key
      BY <2>1 DEF Respond
    <2>3. QED
      BY <1>1, <1>2, <1>3, <1>4, <2>1, <2>2 DEF WithdrawStep
  <1>5. CASE ~(id \in FreshIds /\ peers[id].key = key)
    BY <1>1, <1>3, <1>5 DEF HandleDeregister, QuietStep
  <1>6. QED
    BY <1>4, <1>5

\* redp2p_index_handle_lookup answers from the live records.
LEMMA LookupClass ==
    ASSUME TypeOK, NEW id \in Ids, HandleLookup(id)
    PROVE  QuietStep
  <1>1. UNCHANGED <<config, now, minted, peers>>
    BY DEF HandleLookup, history
  <1>2. AnswersOne(id)
    <2>1. CASE id \in FreshIds
      <3>1. reply' = [Respond("lookup", id, "ok") EXCEPT
                        !.info = {peers[id].info}]
        BY <2>1 DEF HandleLookup
      <3>2. /\ reply'.op = "lookup" /\ reply'.status = "ok"
            /\ reply'.ids = {id} /\ reply'.info = {peers[id].info}
        BY <3>1 DEF Respond
      <3>3. QED
        BY <2>1, <3>2 DEF Answer, AnswersOne
    <2>2. CASE id \notin FreshIds
      <3>1. reply' = Respond("lookup", id, "not_found")
        BY <2>2 DEF HandleLookup
      <3>2. /\ reply'.op = "lookup" /\ reply'.status = "not_found"
            /\ reply'.ids = {id} /\ reply'.info = {}
        BY <3>1 DEF Respond
      <3>3. QED
        BY <2>2, <3>2 DEF Answer, AnswersOne
    <2>3. QED
      BY <2>1, <2>2
  <1>3. QED
    BY <1>1, <1>2 DEF QuietStep

\* redp2p_index_handle_list answers with all of the live records, or its
\* reply did not fit.
LEMMA ListClass ==
    ASSUME TypeOK, HandleList
    PROVE  QuietStep
  <1>1. UNCHANGED <<config, now, minted, peers>>
    BY DEF HandleList, history
  <1>2. CASE reply' = NoReply
    BY <1>1, <1>2, AnswerNone DEF QuietStep
  <1>3. CASE reply' = [NoReply EXCEPT !.op = "list", !.status = "ok",
                                      !.ids = FreshIds]
    <2>1. reply'.op = "list" /\ reply'.status = "ok" /\ reply'.ids = FreshIds
      BY <1>3 DEF NoReply
    <2>2. AnswersAll
      BY <2>1 DEF Answer, AnswersAll
    <2>3. QED
      BY <1>1, <2>2 DEF QuietStep
  <1>4. QED
    BY <1>2, <1>3 DEF HandleList

\* Every step of the index is in one of the classes.
LEMMA RecordStep ==
    ASSUME TypeOK, [Next]_vars
    PROVE  \/ ConfigureStep
           \/ TickStep
           \/ QuietStep
           \/ \E id \in Ids, info \in Infos :
                 GrantStep(id, info) \/ RenewStep(id, info)
           \/ \E id \in Ids : WithdrawStep(id)
           \/ UNCHANGED vars
  <1>1. CASE Configure
    <2>1. phase = "open" /\ UNCHANGED <<peers, now, minted>> /\ reply' = NoReply
      BY <1>1 DEF Configure, SetSeats, SetVip, history
    <2>2. QED
      BY <2>1, AnswerNone DEF ConfigureStep
  <1>2. CASE Serve \/ Stop \/ PrepareFdset \/ Prune
    <2>1. /\ UNCHANGED <<config, now, minted>> /\ peers' \in {peers, EvictStale}
          /\ reply' = NoReply
      BY <1>2 DEF Serve, Stop, PrepareFdset, Prune, history
    <2>2. QED
      BY <2>1, AnswerNone DEF QuietStep
  <1>3. CASE Tick
    <2>1. now' = now + 1 /\ UNCHANGED <<config, peers, minted>>
          /\ reply' = NoReply
      BY <1>3 DEF Tick, history
    <2>2. QED
      BY <2>1, AnswerNone DEF TickStep
  <1>4. CASE Request
    <2>1. ASSUME NEW code, HandleError(code) PROVE QuietStep
      <3>1. UNCHANGED <<config, now, minted, peers>> /\ reply'.op = "invalid"
        BY <2>1 DEF HandleError, history, NoReply
      <3>2. QED
        BY <3>1, AnswerOther DEF QuietStep
    <2>2. CASE HandleChallenge
      <3>1. UNCHANGED <<config, now, minted, peers>> /\ reply'.op = "challenge"
        BY <2>2 DEF HandleChallenge, history, NoReply
      <3>2. QED
        BY <3>1, AnswerOther DEF QuietStep
    <2>3. ASSUME NEW caller, NEW id, NEW out, HandlePunchReq(caller, id, out)
          PROVE  QuietStep
      <3>1. UNCHANGED <<config, now, minted, peers>> /\ reply'.op = "punch_req"
        BY <2>3 DEF HandlePunchReq, Respond
      <3>2. QED
        BY <3>1, AnswerOther DEF QuietStep
    <2>4. ASSUME NEW id, NEW out, HandlePunchPoll(id, out) PROVE QuietStep
      <3>1. /\ UNCHANGED <<config, now, minted, peers>>
            /\ reply'.op \in {"none", "punch_poll"}
        BY <2>4 DEF HandlePunchPoll, Respond, NoReply
      <3>2. QED
        BY <3>1, AnswerOther DEF QuietStep
    <2>5. QED
      BY <1>4, <2>1, <2>2, <2>3, <2>4, RegisterClass, HeartbeatClass,
         DeregisterClass, LookupClass, ListClass DEF Request
  <1>5. QED
    BY <1>1, <1>2, <1>3, <1>4 DEF Next

-----------------------------------------------------------------------------
(***************************************************************************)
(* Keys.                                                                   *)
(***************************************************************************)

\* The key binding needs the phase: reservations, and with them the secret
\* an identifier must know, change only before the first serve, when
\* SeatIInv says that the table is empty.
KeyIInv == SeatIInv /\ KeyBinding

\* A context fresh from redp2p_open has no record, hence no unbound key.
LEMMA KeyInit == Init => KeyIInv
  <1> SUFFICES ASSUME Init PROVE KeyIInv
    OBVIOUS
  <1>1. DOMAIN peers = {}
    BY DEF Init
  <1>2. QED
    BY <1>1, SeatInit DEF KeyIInv, KeyBinding

\* Appending leaves the entries before it where they are.
LEMMA AppendKeeps ==
    ASSUME NEW T, NEW s \in Seq(T), NEW e \in T, NEW k \in DOMAIN s
    PROVE  k \in DOMAIN Append(s, e) /\ Append(s, e)[k] = s[k]
  OBVIOUS

\* A record found in the old table under the same key is still bound.
LEMMA BoundKept ==
    ASSUME TypeOK, KeyBinding, vips' = vips, NEW id \in DOMAIN peers,
           NEW k, k = peers[id].key,
           \/ minted' = minted
           \/ \E e \in [id : Ids, pass : Passes] : minted' = Append(minted, e)
    PROVE  /\ k \in DOMAIN minted'
           /\ minted'[k].id = id
           /\ minted'[k].pass =
                 IF id \in DOMAIN vips' THEN vips'[id] ELSE GlobalPass
  <1>1. /\ k \in DOMAIN minted
        /\ minted[k].id = id
        /\ minted[k].pass = IF id \in DOMAIN vips THEN vips[id] ELSE GlobalPass
    BY DEF KeyBinding
  <1>2. minted \in Seq([id : Ids, pass : Passes])
    BY DEF TypeOK
  <1>3. k \in DOMAIN minted' /\ minted'[k] = minted[k]
    <2>1. ASSUME NEW e \in [id : Ids, pass : Passes], minted' = Append(minted, e)
          PROVE  k \in DOMAIN minted' /\ minted'[k] = minted[k]
      BY <1>1, <1>2, <2>1, AppendKeeps
    <2>2. QED
      BY <1>1, <2>1
  <1>4. QED
    BY <1>1, <1>3

\* Every step keeps the keys bound: the table is empty while secrets can
\* change, a grant binds the secret that was proved, renewals keep the key.
LEMMA KeyNext == KeyIInv /\ [Next]_vars => KeyIInv'
  <1> SUFFICES ASSUME KeyIInv, [Next]_vars PROVE KeyIInv'
    OBVIOUS
  <1>1. SeatIInv /\ SeatIInv' /\ KeyBinding /\ TypeOK
    BY SeatNext DEF KeyIInv, SeatIInv
  <1>2. SUFFICES KeyBinding'
    BY <1>1 DEF KeyIInv
  <1> DEFINE Bound(id) ==
        /\ peers'[id].key \in DOMAIN minted'
        /\ minted'[peers'[id].key].id = id
        /\ minted'[peers'[id].key].pass =
              IF id \in DOMAIN vips' THEN vips'[id] ELSE GlobalPass
  <1>3. SUFFICES ASSUME NEW id \in DOMAIN peers' PROVE Bound(id)
    BY DEF KeyBinding
  <1>4. ASSUME vips' = vips, id \in DOMAIN peers,
               peers'[id].key = peers[id].key,
               \/ minted' = minted
               \/ \E e \in [id : Ids, pass : Passes] : minted' = Append(minted, e)
        PROVE  Bound(id)
    BY <1>1, <1>4, BoundKept
  <1> HIDE DEF Bound
  <1>5. CASE ConfigureStep
    BY <1>1, <1>5 DEF ConfigureStep, SeatIInv
  <1>6. CASE TickStep \/ UNCHANGED vars
    <2>1. UNCHANGED <<peers, minted, vips>>
      BY <1>6 DEF TickStep, vars, config
    <2>2. QED
      BY <1>4, <2>1
  <1>7. CASE QuietStep
    <2>1. UNCHANGED <<minted, vips>> /\ peers' \in {peers, EvictStale}
      BY <1>7 DEF QuietStep, config
    <2>2. id \in DOMAIN peers /\ peers'[id].key = peers[id].key
      BY <1>1, <2>1, EvictStaleFacts
    <2>3. QED
      BY <1>4, <2>1, <2>2
  <1>8. ASSUME NEW x \in Ids, NEW info \in Infos, GrantStep(x, info)
        PROVE  Bound(id)
    <2> DEFINE e == [id |-> x, pass |-> GetRegisterPass(x)]
               r == [key |-> Len(minted) + 1, lastSeen |-> now, info |-> info]
    <2>1. /\ vips' = vips /\ minted' = Append(minted, e)
          /\ peers' = Upsert(EvictStale, x, r)
      BY <1>8 DEF GrantStep, config
    <2>2. minted \in Seq([id : Ids, pass : Passes])
      BY <1>1 DEF TypeOK
    <2>3. e \in [id : Ids, pass : Passes]
      BY <1>1 DEF TypeOK, GetRegisterPass
    <2>4. CASE id = x
      <3>1. peers'[id] = r
        BY <2>1, <2>4 DEF Upsert
      <3>2. peers'[id].key = Len(minted) + 1
        BY <3>1
      <3>3. /\ Len(minted) + 1 \in DOMAIN minted'
            /\ minted'[Len(minted) + 1] = e
        BY <2>1, <2>2, <2>3
      <3>4. e.id = id /\ e.pass = GetRegisterPass(id)
        BY <2>4
      <3>5. GetRegisterPass(id)
              = IF id \in DOMAIN vips' THEN vips'[id] ELSE GlobalPass
        BY <2>1 DEF GetRegisterPass
      <3> HIDE DEF e
      <3>6. QED
        BY <3>2, <3>3, <3>4, <3>5 DEF Bound
    <2>5. CASE id # x
      <3>1. id \in DOMAIN EvictStale /\ peers'[id] = EvictStale[id]
        BY <2>1, <2>5 DEF Upsert
      <3>2. id \in DOMAIN peers /\ peers'[id] = peers[id]
        BY <1>1, <3>1, EvictStaleFacts
      <3> HIDE DEF e
      <3>3. QED
        BY <1>4, <2>1, <2>3, <3>2
    <2>6. QED
      BY <2>4, <2>5
  <1>9. ASSUME NEW x \in Ids, NEW info \in Infos, RenewStep(x, info)
        PROVE  Bound(id)
    <2> DEFINE r == [peers[x] EXCEPT !.lastSeen = now, !.info = info]
    <2>1. /\ vips' = vips /\ minted' = minted /\ x \in FreshIds
          /\ peers' = Upsert(EvictStale, x, r)
      BY <1>9 DEF RenewStep, config
    <2>2. x \in DOMAIN peers /\ peers[x] \in PeerRecord
      BY <1>1, <2>1, EvictStaleFacts DEF TypeOK
    <2>3. r.key = peers[x].key
      BY <2>2 DEF PeerRecord
    <2> HIDE DEF r
    <2>4. CASE id = x
      BY <1>4, <2>1, <2>2, <2>3, <2>4 DEF Upsert
    <2>5. CASE id # x
      <3>1. id \in DOMAIN EvictStale /\ peers'[id] = EvictStale[id]
        BY <2>1, <2>5 DEF Upsert
      <3>2. id \in DOMAIN peers /\ peers'[id] = peers[id]
        BY <1>1, <3>1, EvictStaleFacts
      <3>3. QED
        BY <1>4, <2>1, <3>2
    <2>6. QED
      BY <2>4, <2>5
  <1>10. ASSUME NEW x \in Ids, WithdrawStep(x) PROVE Bound(id)
    <2>1. /\ vips' = vips /\ minted' = minted
          /\ peers' = RemovePeer(EvictStale, x)
      BY <1>10 DEF WithdrawStep, config
    <2>2. id \in DOMAIN EvictStale /\ peers'[id] = EvictStale[id]
      BY <2>1 DEF RemovePeer
    <2>3. id \in DOMAIN peers /\ peers'[id] = peers[id]
      BY <1>1, <2>2, EvictStaleFacts
    <2>4. QED
      BY <1>4, <2>1, <2>3
  <1>11. QED
    BY <1>1, <1>5, <1>6, <1>7, <1>8, <1>9, <1>10, RecordStep

\* Every record is under a key minted for its identifier by a registration
\* that proved the identifier's own secret (redp2p_index_handle_register,
\* redp2p_get_register_pass).
THEOREM KeysBound == Spec => []KeyBinding
  <1>1. KeyIInv => KeyBinding
    BY DEF KeyIInv
  <1>2. QED
    BY <1>1, KeyInit, KeyNext, PTL DEF Spec

-----------------------------------------------------------------------------
(***************************************************************************)
(* Lives and refusals.                                                     *)
(***************************************************************************)

\* Between its last renewal and its expiry a record stays in the table with
\* its key, whatever handler or eviction runs: only a deregister with that
\* very key removes it (redp2p_evict_stale, redp2p_remove_peer).
THEOREM RecordsLive == Spec => LiveRecordKept
  <1> DEFINE A == \A id \in FreshIds :
                    \/ id \in DOMAIN peers' /\ peers'[id].key = peers[id].key
                    \/ /\ reply'.op = "deregister" /\ reply'.ids = {id}
                       /\ reply'.key = peers[id].key
  <1>1. ASSUME TypeOK, [Next]_vars PROVE [A]_vars
    <2> SUFFICES ASSUME NEW id \in FreshIds
                 PROVE  \/ id \in DOMAIN peers' /\ peers'[id].key = peers[id].key
                        \/ /\ reply'.op = "deregister" /\ reply'.ids = {id}
                           /\ reply'.key = peers[id].key
      OBVIOUS
    <2>1. id \in DOMAIN peers /\ EvictStale[id] = peers[id]
          /\ DOMAIN EvictStale = FreshIds
      BY <1>1, EvictStaleFacts
    <2>2. CASE ConfigureStep \/ TickStep \/ QuietStep \/ UNCHANGED vars
      <3>1. peers' \in {peers, EvictStale}
        BY <2>2 DEF ConfigureStep, TickStep, QuietStep, vars
      <3>2. QED
        BY <2>1, <3>1
    <2>3. ASSUME NEW x \in Ids, NEW info \in Infos, GrantStep(x, info)
          PROVE  id \in DOMAIN peers' /\ peers'[id].key = peers[id].key
      <3>1. id # x
        BY <2>3 DEF GrantStep
      <3>2. QED
        BY <2>1, <2>3, <3>1 DEF GrantStep, Upsert
    <2>4. ASSUME NEW x \in Ids, NEW info \in Infos, RenewStep(x, info)
          PROVE  id \in DOMAIN peers' /\ peers'[id].key = peers[id].key
      <3> DEFINE r == [peers[x] EXCEPT !.lastSeen = now, !.info = info]
      <3>1. x \in FreshIds /\ peers' = Upsert(EvictStale, x, r)
        BY <2>4 DEF RenewStep
      <3>2. peers[x] \in PeerRecord
        BY <1>1, <3>1, EvictStaleFacts DEF TypeOK
      <3>3. r.key = peers[x].key
        BY <3>2 DEF PeerRecord
      <3> HIDE DEF r
      <3>4. QED
        BY <2>1, <3>1, <3>3 DEF Upsert
    <2>5. ASSUME NEW x \in Ids, WithdrawStep(x)
          PROVE  \/ id \in DOMAIN peers' /\ peers'[id].key = peers[id].key
                 \/ /\ reply'.op = "deregister" /\ reply'.ids = {id}
                    /\ reply'.key = peers[id].key
      <3>1. CASE id = x
        BY <2>5, <3>1 DEF WithdrawStep
      <3>2. CASE id # x
        BY <2>1, <2>5, <3>2 DEF WithdrawStep, RemovePeer
      <3>3. QED
        BY <3>1, <3>2
    <2>6. QED
      BY <1>1, <2>2, <2>3, <2>4, <2>5, RecordStep
  <1>2. QED
    BY <1>1, TypeCorrect, PTL DEF Spec, LiveRecordKept

\* Reservations and unreserved live records, counted apart.
LEMMA SeatsTaken ==
    ASSUME SeatIInv, NEW id \in Ids
    PROVE  LET N == NonVip(FreshIds \cup {id})
               T == FreshIds \cup DOMAIN vips \cup {id}
           IN  /\ Cardinality(T) = Cardinality(N) + Cardinality(DOMAIN vips)
               /\ Cardinality(T) \in Nat /\ Cardinality(N) \in Nat
               /\ Cardinality(DOMAIN vips) \in Nat
  <1> DEFINE N == NonVip(FreshIds \cup {id})
             V == DOMAIN vips
             T == FreshIds \cup V \cup {id}
  <1>1. TypeOK
    BY DEF SeatIInv
  <1>2. T \subseteq Ids /\ N \subseteq Ids /\ V \subseteq Ids
    BY <1>1, EvictStaleFacts DEF NonVip, TypeOK
  <1>3. T = N \cup V /\ N \cap V = {}
    BY DEF NonVip
  <1> HIDE DEF N, V, T
  <1>4. IsFiniteSet(N) /\ IsFiniteSet(V) /\ IsFiniteSet(T)
    BY <1>2, FS_Subset
  <1>5. Cardinality(N) \in Nat /\ Cardinality(V) \in Nat /\ Cardinality(T) \in Nat
    BY <1>4, FS_CardinalityType
  <1>6. Cardinality(N \cup V)
          = Cardinality(N) + Cardinality(V) - Cardinality(N \cap V)
    BY <1>4, FS_Union
  <1>7. Cardinality(N \cap V) = 0
    BY <1>3, FS_EmptySet
  <1>8. Cardinality(T) = Cardinality(N) + Cardinality(V)
    BY <1>3, <1>5, <1>6, <1>7
  <1>9. QED
    BY <1>5, <1>8 DEF N, V, T

\* The seat test of redp2p_add_peer for a newcomer, in terms of the seats
\* that reservations take: what AddPeerFull compares with nonvip_cap.
LEMMA SeatTest ==
    ASSUME SeatIInv, NEW id \in Ids, id \notin FreshIds
    PROVE  /\ Cardinality(FreshIds) \in Nat /\ nPeersCap \in Nat
           /\ Cardinality(FreshIds \cup {id}) = Cardinality(FreshIds) + 1
           /\ id \notin DOMAIN vips =>
                /\ Cardinality(NonVip(FreshIds)) \in Nat
                /\ Cardinality(NonVip(FreshIds \cup {id}))
                     = Cardinality(NonVip(FreshIds)) + 1
           /\ nonvipCap = IF Cardinality(DOMAIN vips) >= nPeersCap THEN 0
                          ELSE nPeersCap - Cardinality(DOMAIN vips)
  <1>1. TypeOK /\ FreshIds \subseteq DOMAIN peers
    BY EvictStaleFacts DEF SeatIInv
  <1>2. /\ IsFiniteSet(FreshIds) /\ Cardinality(FreshIds) \in Nat
        /\ IsFiniteSet(NonVip(FreshIds)) /\ Cardinality(NonVip(FreshIds)) \in Nat
    BY <1>1, TableFinite
  <1>3. Cardinality(FreshIds \cup {id}) = Cardinality(FreshIds) + 1
    BY <1>2, FS_AddElement
  <1>4. ASSUME id \notin DOMAIN vips
        PROVE  Cardinality(NonVip(FreshIds \cup {id}))
                 = Cardinality(NonVip(FreshIds)) + 1
    <2>1. /\ NonVip(FreshIds \cup {id}) = NonVip(FreshIds) \cup {id}
          /\ id \notin NonVip(FreshIds)
      BY <1>4 DEF NonVip
    <2>2. QED
      BY <1>2, <2>1, FS_AddElement
  <1>5. nPeersCap \in Nat
    BY <1>1 DEF TypeOK
  <1>6. QED
    BY <1>2, <1>3, <1>4, <1>5 DEF SeatIInv, UpdateNonvipCap

\* table_full means that the live records, the reservations and the newcomer
\* do not fit in the seats: expired records still in the array take nobody's
\* seat (redp2p_index_handle_register evicts before redp2p_add_peer counts).
THEOREM RefusalsJustified == Spec => RefusedOnlyWhenFull
  <1> DEFINE A == \A id \in Ids :
                    reply' = Respond("register", id, "table_full") =>
                       /\ seatsSet
                       /\ Cardinality(FreshIds \cup DOMAIN vips \cup {id})
                            > nPeersCap
  <1>1. ASSUME SeatIInv, [Next]_vars PROVE [A]_vars
    <2>1. SUFFICES ASSUME Next, NEW id \in Ids,
                          reply' = Respond("register", id, "table_full")
                   PROVE  /\ seatsSet
                          /\ Cardinality(FreshIds \cup DOMAIN vips \cup {id})
                               > nPeersCap
      BY <1>1
    <2>2. id \notin FreshIds /\ AddPeerFull(FreshIds, id)
      BY <2>1, TableFullStep
    <2> DEFINE V == Cardinality(DOMAIN vips)
               T == Cardinality(FreshIds \cup DOMAIN vips \cup {id})
               F == Cardinality(FreshIds)
               N == Cardinality(NonVip(FreshIds))
    <2>3. /\ T = Cardinality(NonVip(FreshIds \cup {id})) + V
          /\ T \in Nat /\ V \in Nat
      BY <1>1, SeatsTaken
    <2>4. /\ F \in Nat /\ nPeersCap \in Nat
          /\ Cardinality(FreshIds \cup {id}) = F + 1
          /\ id \notin DOMAIN vips =>
               /\ N \in Nat
               /\ Cardinality(NonVip(FreshIds \cup {id})) = N + 1
          /\ nonvipCap = IF V >= nPeersCap THEN 0 ELSE nPeersCap - V
      BY <1>1, <2>2, SeatTest
    <2>5. T >= F + 1
      <3>1. FreshIds \cup {id} \subseteq FreshIds \cup DOMAIN vips \cup {id}
        OBVIOUS
      <3>2. IsFiniteSet(FreshIds \cup DOMAIN vips \cup {id})
        <4>1. FreshIds \cup DOMAIN vips \cup {id} \subseteq Ids
          BY <1>1, EvictStaleFacts DEF SeatIInv, TypeOK
        <4>2. QED
          BY <4>1, FS_Subset
      <3>3. Cardinality(FreshIds \cup {id}) <= T
        BY <3>1, <3>2, FS_Subset
      <3>4. QED
        BY <2>3, <2>4, <3>3
    <2>6. /\ seatsSet
          /\ F >= nPeersCap \/ (id \notin DOMAIN vips /\ N >= nonvipCap)
      BY <2>2 DEF AddPeerFull
    <2> HIDE DEF V, T, F, N
    <2>7. T > nPeersCap
      <3>1. CASE F >= nPeersCap
        BY <2>3, <2>4, <2>5, <3>1
      <3>2. CASE id \notin DOMAIN vips /\ N >= nonvipCap
        BY <2>3, <2>4, <3>2
      <3>3. QED
        BY <2>6, <3>1, <3>2
    <2>8. QED
      BY <2>6, <2>7 DEF T
  <1>2. QED
    BY <1>1, SeatInit, SeatNext, PTL DEF Spec, RefusedOnlyWhenFull

-----------------------------------------------------------------------------
(***************************************************************************)
(* The lease registry.  A lease is a live record; the clock of both is     *)
(* redp2p_now_s.                                                           *)
(***************************************************************************)

\* Evicting expired records changes no lease.
LEMMA LeasesEvicted ==
    ASSUME TypeOK, now' = now, peers' \in {peers, EvictStale}
    PROVE  EvictStale' = EvictStale
  <1>1. FreshIds' = FreshIds
    BY EvictStaleFacts DEF FreshIds, Stale
  <1>2. \A id \in FreshIds : peers'[id] = peers[id]
    BY EvictStaleFacts
  <1>3. QED
    BY <1>1, <1>2 DEF EvictStale

\* A record written at this instant is a lease.
LEMMA LeaseWritten ==
    ASSUME TypeOK, now' = now, NEW id \in Ids, NEW r \in PeerRecord,
           r.lastSeen = now, peers' = Upsert(EvictStale, id, r)
    PROVE  EvictStale' = [x \in DOMAIN EvictStale \cup {id} |->
                             IF x = id THEN r ELSE EvictStale[x]]
  <1>1. DOMAIN peers' = FreshIds \cup {id}
    BY EvictStaleFacts DEF Upsert
  <1>2. peers'[id] = r /\ \A x \in FreshIds \ {id} : peers'[x] = peers[x]
    BY EvictStaleFacts DEF Upsert
  <1>3. now \in Nat /\ ETimeout \in Nat
    BY DEF TypeOK
  <1>4. ~(now' - r.lastSeen > ETimeout)
    BY <1>3
  <1>5. FreshIds' = FreshIds \cup {id}
    <2>1. \A x \in FreshIds : ~(now - peers[x].lastSeen > ETimeout)
      BY DEF FreshIds, Stale
    <2>2. \A x \in FreshIds \cup {id} : ~(now' - peers'[x].lastSeen > ETimeout)
      BY <1>2, <1>4, <2>1
    <2>3. QED
      BY <1>1, <2>2 DEF FreshIds, Stale
  <1>6. QED
    BY <1>2, <1>5, EvictStaleFacts DEF EvictStale

\* A withdrawn record is no lease, the others are as they were.
LEMMA LeaseWithdrawn ==
    ASSUME TypeOK, now' = now, NEW id \in Ids,
           peers' = RemovePeer(EvictStale, id)
    PROVE  EvictStale' = [x \in DOMAIN EvictStale \ {id} |-> EvictStale[x]]
  <1>1. DOMAIN peers' = FreshIds \ {id}
        /\ \A x \in FreshIds \ {id} : peers'[x] = peers[x]
    BY EvictStaleFacts DEF RemovePeer
  <1>2. FreshIds' = FreshIds \ {id}
    BY <1>1 DEF FreshIds, Stale
  <1>3. QED
    BY <1>1, <1>2, EvictStaleFacts DEF EvictStale

\* With the clock, leases end exactly one tick after their last one.
LEMMA LeasesExpire ==
    ASSUME TypeOK, now' = now + 1, peers' = peers
    PROVE  EvictStale' = [x \in {y \in DOMAIN EvictStale :
                                   now + 1 - EvictStale[y].lastSeen <= ETimeout}
                            |-> EvictStale[x]]
  <1>1. /\ now \in Int /\ ETimeout \in Int
        /\ \A x \in DOMAIN peers : peers[x].lastSeen \in Int
    BY DEF TypeOK, PeerRecord
  <1>2. FreshIds' = {x \in FreshIds : now + 1 - peers[x].lastSeen <= ETimeout}
    BY <1>1 DEF FreshIds, Stale
  <1>3. QED
    BY <1>2, EvictStaleFacts DEF EvictStale

\* Both modules count with the same operator.
LEMMA SameCount == \A S : registry!Cardinality(S) = Cardinality(S)
  BY Zenon DEF registry!Cardinality, Cardinality

\* The capacity tests of redp2p_add_peer are the registry's seat rule.
LEMMA SeatRule ==
    ASSUME SeatIInv, NEW id \in Ids, id \notin FreshIds,
           ~AddPeerFull(FreshIds, id)
    PROVE  registry!SeatFor(id)
  <1>1. DOMAIN EvictStale = FreshIds
    BY EvictStaleFacts DEF SeatIInv
  <1> DEFINE F == Cardinality(FreshIds)
             V == Cardinality(DOMAIN vips)
             N == Cardinality(NonVip(FreshIds))
  <1>2. /\ F \in Nat /\ nPeersCap \in Nat
        /\ Cardinality(FreshIds \cup {id}) = F + 1
        /\ id \notin DOMAIN vips =>
             N \in Nat /\ Cardinality(NonVip(FreshIds \cup {id})) = N + 1
        /\ nonvipCap = IF V >= nPeersCap THEN 0 ELSE nPeersCap - V
    BY SeatTest
  <1>3. V \in Nat
    BY SeatsTaken
  <1>4. seatsSet => /\ ~(F >= nPeersCap)
                    /\ id \notin DOMAIN vips => ~(N >= nonvipCap)
    BY DEF AddPeerFull
  <1>5. NonVip(FreshIds \cup {id}) = (FreshIds \cup {id}) \ DOMAIN vips
    BY DEF NonVip
  <1> HIDE DEF F, V, N
  <1>6. seatsSet => /\ Cardinality(FreshIds \cup {id}) <= nPeersCap
                    /\ id \notin DOMAIN vips =>
                         Cardinality((FreshIds \cup {id}) \ DOMAIN vips) + V
                            <= nPeersCap
    <2>1. CASE id \in DOMAIN vips
      BY <1>2, <1>4, <2>1
    <2>2. CASE seatsSet /\ id \notin DOMAIN vips
      <3>1. N + 1 + V <= nPeersCap
        BY <1>2, <1>3, <1>4, <2>2
      <3>2. Cardinality((FreshIds \cup {id}) \ DOMAIN vips) = N + 1
        BY <1>2, <1>5, <2>2
      <3>3. F + 1 <= nPeersCap
        BY <1>2, <1>4, <2>2
      <3>4. QED
        BY <1>2, <3>1, <3>2, <3>3
    <2>3. QED
      BY <2>1, <2>2
  <1>7. QED
    BY <1>1, <1>6, SameCount, Zenon DEF registry!SeatFor, V

\* The empty context is the empty registry.
LEMMA RegistryInit == Init => registry!Init
  <1> SUFFICES ASSUME Init PROVE registry!Init
    OBVIOUS
  <1>1. TypeOK
    BY InitType
  <1>2. DOMAIN EvictStale = {}
    BY <1>1, EvictStaleFacts DEF Init
  <1>3. Answer = Unanswered
    <2>1. reply.op = "none"
      BY DEF Init, NoReply
    <2>2. QED
      BY <2>1 DEF Answer, Unanswered
  <1>4. Len(minted) = 0 /\ DOMAIN vips = {}
    BY DEF Init
  <1>5. now = 0 /\ seatsSet = FALSE /\ nPeersCap = 0
    BY DEF Init
  <1>6. QED
    BY <1>2, <1>3, <1>4, <1>5 DEF registry!Init, registry!NoAnswer, Unanswered

\* Every step of the index is a step of the registry or changes none of what
\* a client of it sees: a grant is a lease granted under the seat rule, an
\* eviction is invisible.
LEMMA RegistryNext ==
    ASSUME SeatIInv, [Next]_vars
    PROVE  [registry!Next]_(registry!vars)
  <1>1. TypeOK /\ TypeOK' /\ DOMAIN EvictStale = FreshIds
    BY NextType, EvictStaleFacts DEF SeatIInv
  <1> DEFINE Seats == UNCHANGED <<seatsSet, nPeersCap, DOMAIN vips>>
  <1>2. ASSUME UNCHANGED config PROVE Seats
    BY <1>2 DEF config
  <1>3. CASE ConfigureStep
    <2>1. UNCHANGED <<peers, now, minted>> /\ phase = "open"
          /\ Answer' = Unanswered
      BY <1>3 DEF ConfigureStep
    <2>2. EvictStale' = EvictStale
      BY <1>1, <2>1, LeasesEvicted
    <2>3. FreshIds = {}
      BY <1>1, <2>1, EvictStaleFacts DEF SeatIInv
    <2>4. seatsSet' \in BOOLEAN /\ nPeersCap' \in Nat /\ DOMAIN vips' \in SUBSET Ids
      BY <1>1 DEF TypeOK
    <2>5. registry!Assign
      BY <1>1, <2>1, <2>2, <2>3, <2>4
         DEF registry!Assign, registry!NoAnswer, Unanswered
    <2>6. QED
      BY <2>5 DEF registry!Next
  <1>4. CASE TickStep
    <2>1. /\ now' = now + 1 /\ UNCHANGED <<config, peers, minted>>
          /\ Answer' = Unanswered
      BY <1>4 DEF TickStep
    <2>2. EvictStale' = [x \in {y \in DOMAIN EvictStale :
                                   now + 1 - EvictStale[y].lastSeen <= ETimeout}
                            |-> EvictStale[x]]
      BY <1>1, <2>1, LeasesExpire
    <2>3. registry!Advance
      BY <1>2, <2>1, <2>2
         DEF registry!Advance, registry!NoAnswer, registry!seatVars, Unanswered
    <2>4. QED
      BY <2>3 DEF registry!Next
  <1>5. CASE QuietStep
    <2>1. /\ UNCHANGED <<config, now, minted>> /\ peers' \in {peers, EvictStale}
      BY <1>5 DEF QuietStep
    <2>2. EvictStale' = EvictStale
      BY <1>1, <2>1, LeasesEvicted
    <2>3. CASE Answer' = Unanswered
      <3>1. registry!Other
        BY <1>2, <2>1, <2>2, <2>3
           DEF registry!Other, registry!NoAnswer, registry!seatVars, Unanswered
      <3>2. QED
        BY <3>1 DEF registry!Next
    <2>4. ASSUME NEW id \in Ids, AnswersOne(id) PROVE registry!Next
      <3>1. id \in FreshIds => EvictStale[id] = peers[id]
        BY <1>1, EvictStaleFacts
      <3>2. registry!ReadOne(id)
        BY <1>1, <1>2, <2>1, <2>2, <2>4, <3>1
           DEF AnswersOne, registry!ReadOne, registry!seatVars
      <3>3. QED
        BY <3>2 DEF registry!Next
    <2>5. CASE AnswersAll
      <3>1. registry!ReadAll
        BY <1>1, <1>2, <2>1, <2>2, <2>5
           DEF AnswersAll, registry!ReadAll, registry!seatVars
      <3>2. QED
        BY <3>1 DEF registry!Next
    <2>6. QED
      BY <1>5, <2>3, <2>4, <2>5 DEF QuietStep
  <1>6. ASSUME NEW id \in Ids, NEW info \in Infos, GrantStep(id, info)
        PROVE  registry!Next
    <2> DEFINE r == [key |-> Len(minted) + 1, lastSeen |-> now, info |-> info]
    <2>1. /\ UNCHANGED <<config, now>> /\ id \notin FreshIds
          /\ ~AddPeerFull(FreshIds, id)
          /\ peers' = Upsert(EvictStale, id, r) /\ Answer' = Unanswered
      BY <1>6 DEF GrantStep
    <2>2. Len(minted') = Len(minted) + 1
      BY <1>1, <1>6 DEF GrantStep, TypeOK
    <2>3. r \in PeerRecord
      <3>1. Len(minted) + 1 \in Keys
        BY <1>1, <2>2 DEF TypeOK, Keys
      <3>2. QED
        BY <1>1, <3>1 DEF PeerRecord, TypeOK
    <2>4. EvictStale' = [x \in DOMAIN EvictStale \cup {id} |->
                             IF x = id THEN r ELSE EvictStale[x]]
      <3>1. r.lastSeen = now
        OBVIOUS
      <3> HIDE DEF r
      <3>2. QED
        BY <1>1, <2>1, <2>3, <3>1, LeaseWritten
    <2>5. registry!SeatFor(id)
      BY <2>1, SeatRule
    <2>6. registry!Grant(id, info)
      BY <1>1, <1>2, <2>1, <2>2, <2>4, <2>5
         DEF registry!Grant, registry!With, registry!NoAnswer,
             registry!seatVars, Unanswered
    <2>7. QED
      BY <2>6 DEF registry!Next
  <1>7. ASSUME NEW id \in Ids, NEW info \in Infos, RenewStep(id, info)
        PROVE  registry!Next
    <2> DEFINE r == [peers[id] EXCEPT !.lastSeen = now, !.info = info]
    <2>1. /\ UNCHANGED <<config, now, minted>> /\ id \in FreshIds
          /\ peers' = Upsert(EvictStale, id, r) /\ Answer' = Unanswered
      BY <1>7 DEF RenewStep
    <2>2. EvictStale[id] = peers[id] /\ peers[id] \in PeerRecord
      BY <1>1, <2>1, EvictStaleFacts DEF TypeOK
    <2>3. r \in PeerRecord /\ r.lastSeen = now
      BY <1>1, <2>2 DEF PeerRecord, TypeOK
    <2>4. EvictStale' = [x \in DOMAIN EvictStale \cup {id} |->
                             IF x = id THEN r ELSE EvictStale[x]]
      <3> HIDE DEF r
      <3>1. QED
        BY <1>1, <2>1, <2>3, LeaseWritten
    <2>5. registry!Renew(id, info)
      BY <1>1, <1>2, <2>1, <2>2, <2>4
         DEF registry!Renew, registry!With, registry!NoAnswer,
             registry!seatVars, Unanswered
    <2>6. QED
      BY <2>5 DEF registry!Next
  <1>8. ASSUME NEW id \in Ids, WithdrawStep(id) PROVE registry!Next
    <2>1. /\ UNCHANGED <<config, now, minted>> /\ id \in FreshIds
          /\ peers' = RemovePeer(EvictStale, id) /\ Answer' = Unanswered
      BY <1>8 DEF WithdrawStep
    <2>2. EvictStale' = [x \in DOMAIN EvictStale \ {id} |-> EvictStale[x]]
      BY <1>1, <2>1, LeaseWithdrawn
    <2>3. registry!Withdraw(id)
      BY <1>1, <1>2, <2>1, <2>2
         DEF registry!Withdraw, registry!NoAnswer, registry!seatVars, Unanswered
    <2>4. QED
      BY <2>3 DEF registry!Next
  <1>9. CASE UNCHANGED vars
    <2>1. UNCHANGED <<peers, now, minted, reply, seatsSet, nPeersCap, vips>>
      BY <1>9 DEF vars
    <2>2. EvictStale' = EvictStale /\ Answer' = Answer
      BY <1>1, <2>1, LeasesEvicted DEF Answer
    <2>3. QED
      BY <2>1, <2>2 DEF registry!vars
  <1>10. QED
    BY <1>1, <1>3, <1>4, <1>5, <1>6, <1>7, <1>8, <1>9, RecordStep

\* The index implements the lease registry: grants, renewals, withdrawals and
\* reads are the registry's, and the evictions scattered over register,
\* heartbeat, deregister and the idle loop are invisible to every client.
THEOREM ImplementsRegistry == Spec => IsLeaseRegistry
  <1>1. QED
    BY RegistryInit, RegistryNext, SeatInit, SeatNext, PTL
       DEF Spec, IsLeaseRegistry, registry!Spec

-----------------------------------------------------------------------------
(***************************************************************************)
(* What a step does to the pending calls.                                  *)
(***************************************************************************)

\* Expired calls leave the table, and those of taken with fate f.
RemoveStep(taken, f) ==
    /\ taken \subseteq LiveCalls
    /\ f \in Fates
    /\ taken # {} => f # "pending"
    /\ pending' = LiveCalls \ taken
    /\ fate' = SetFate(taken, f)

\* Expired calls leave and a new one comes in.
AcceptStep ==
    /\ Cardinality(LiveCalls) < MaxPending
    /\ Len(fate) < MaxCall
    /\ \E c \in PendingCall :
          c.serial = Len(fate) + 1 /\ pending' = LiveCalls \cup {c}
    /\ fate' = Append(SetFate({}, "pending"), "pending")

RemovalStep ==
    \E taken \in SUBSET pending, f \in Fates : RemoveStep(taken, f)

KeepStep == UNCHANGED <<pending, fate>>

\* Every step of the index leaves the calls alone or is one of the two.
LEMMA CallStep ==
    ASSUME TypeOK, [Next]_vars, IsFiniteSet(pending)
    PROVE  KeepStep \/ RemovalStep \/ AcceptStep
  <1>0. ASSUME pending' = LiveCalls, fate' = SetFate({}, "pending")
        PROVE  RemovalStep
    <2>1. "pending" \in Fates
      BY DEF Fates
    <2>2. RemoveStep({}, "pending")
      BY <1>0, <2>1 DEF RemoveStep
    <2>3. QED
      BY <2>1, <2>2 DEF RemovalStep
  <1>1. CASE PrepareFdset
    BY <1>0, <1>1 DEF PrepareFdset
  <1>2. ASSUME NEW id \in Ids, NEW out \in Outcomes, HandlePunchPoll(id, out)
        PROVE  RemovalStep
    <2> DEFINE taken == {c \in LiveCalls : c.target = id}
               f == IF out # "ok" THEN "lost"
                    ELSE IF Cardinality(taken) <= ReplyCalls
                    THEN "returned" ELSE "dropped"
    <2>1. pending' = LiveCalls \ taken /\ fate' = SetFate(taken, f)
      BY <1>2 DEF HandlePunchPoll
    <2>2. f \in Fates /\ f # "pending"
      BY DEF Fates
    <2>3. taken \subseteq LiveCalls /\ taken \in SUBSET pending
      BY LiveCallsFacts
    <2> HIDE DEF taken, f
    <2>4. RemoveStep(taken, f)
      BY <2>1, <2>2, <2>3 DEF RemoveStep
    <2>5. QED
      BY <2>2, <2>3, <2>4 DEF RemovalStep
  <1>3. ASSUME NEW caller \in Callers, NEW id \in Ids, NEW out \in Outcomes,
               HandlePunchReq(caller, id, out)
        PROVE  RemovalStep \/ AcceptStep
    <2>1. Cardinality(LiveCalls) \in Nat
      BY LiveCallsFacts, FS_Subset, FS_CardinalityType
    <2>2. CASE Cardinality(LiveCalls) >= MaxPending
      <3>1. pending' = LiveCalls /\ fate' = SetFate({}, "pending")
        BY <1>3, <2>2 DEF HandlePunchReq
      <3>2. QED
        BY <1>0, <3>1
    <2>3. CASE ~(Cardinality(LiveCalls) >= MaxPending)
      <3> DEFINE c == [serial |-> Len(fate) + 1, caller |-> caller,
                       target |-> id, ts |-> now]
      <3>1. /\ Len(fate) < MaxCall
            /\ pending' = LiveCalls \cup {c}
            /\ fate' = Append(SetFate({}, "pending"), "pending")
        BY <1>3, <2>3 DEF HandlePunchReq
      <3>2. Len(fate) + 1 \in Calls
        BY SMTT(30), <3>1 DEF TypeOK, Calls
      <3>3. c \in PendingCall
        BY <3>2 DEF PendingCall, TypeOK
      <3>4. c.serial = Len(fate) + 1
        OBVIOUS
      <3>5. Cardinality(LiveCalls) < MaxPending
        BY <2>1, <2>3
      <3> HIDE DEF c
      <3>6. QED
        BY <3>1, <3>3, <3>4, <3>5 DEF AcceptStep
    <2>4. QED
      BY <2>2, <2>3
  <1>4. ASSUME NEW id, NEW proof, NEW info, NEW out,
               HandleRegister(id, proof, info, out)
        PROVE  KeepStep
    BY <1>4 DEF HandleRegister, KeepStep
  <1>5. ASSUME NEW id, NEW key, NEW info, NEW out,
               HandleHeartbeat(id, key, info, out)
        PROVE  KeepStep
    BY <1>5 DEF HandleHeartbeat, KeepStep
  <1>6. ASSUME NEW id, NEW key, NEW out, HandleDeregister(id, key, out)
        PROVE  KeepStep
    BY <1>6 DEF HandleDeregister, history, KeepStep
  <1>7. CASE Request
    <2>1. ASSUME NEW x, HandleError(x) PROVE KeepStep
      BY <2>1 DEF HandleError, history, KeepStep
    <2>2. ASSUME NEW x, HandleLookup(x) PROVE KeepStep
      BY <2>2 DEF HandleLookup, history, KeepStep
    <2>3. CASE HandleChallenge \/ HandleList
      BY <2>3 DEF HandleChallenge, HandleList, history, KeepStep
    <2>4. QED
      BY <1>2, <1>3, <1>4, <1>5, <1>6, <1>7, <2>1, <2>2, <2>3 DEF Request
  <1>8. CASE Configure \/ Serve \/ Stop \/ Tick \/ Prune \/ UNCHANGED vars
    BY <1>8 DEF Configure, SetSeats, SetVip, Serve, Stop, Tick, Prune,
                history, vars, KeepStep
  <1>9. QED
    BY <1>1, <1>7, <1>8 DEF Next

-----------------------------------------------------------------------------
(***************************************************************************)
(* The table and the history.                                              *)
(***************************************************************************)

\* PendingInv needs its serials inside the history, and a finite table for
\* its count.
CallIInv ==
    /\ TypeOK
    /\ PendingInv
    /\ IsFiniteSet(pending)
    /\ \A c \in pending : c.serial \in DOMAIN fate

\* No call is pending in a fresh context.
LEMMA CallInit == Init => CallIInv
  <1> SUFFICES ASSUME Init PROVE CallIInv
    OBVIOUS
  <1>1. pending = {} /\ DOMAIN fate = {}
    BY DEF Init
  <1>2. IsFiniteSet({}) /\ Cardinality({}) = 0
    BY FS_EmptySet
  <1>3. QED
    BY <1>1, <1>2, InitType DEF CallIInv, PendingInv

\* What SetFate does to one call, when serials are unique: the calls that
\* left have their fate, the live ones are still open.
LEMMA FateAfter ==
    ASSUME CallIInv, NEW taken, taken \subseteq LiveCalls, NEW f,
           taken # {} => f # "pending", NEW n \in DOMAIN fate
    PROVE  /\ SetFate(taken, f)[n] = "pending"
                <=> \E c \in LiveCalls \ taken : c.serial = n
           /\ fate[n] # "pending" => SetFate(taken, f)[n] = fate[n]
  <1> DEFINE v == SetFate(taken, f)[n]
  <1>1. v = IF \E c \in taken : c.serial = n THEN f
            ELSE IF \E c \in StaleCalls : c.serial = n THEN "expired"
            ELSE fate[n]
    BY DEF SetFate
  <1>2. /\ \A c, d \in pending : c.serial = d.serial => c = d
        /\ fate[n] = "pending" <=> \E c \in pending : c.serial = n
    BY DEF CallIInv, PendingInv
  <1>3. /\ pending = LiveCalls \cup StaleCalls /\ LiveCalls \cap StaleCalls = {}
        /\ taken \subseteq pending
    BY LiveCallsFacts DEF LiveCalls
  <1> HIDE DEF v
  <1>4. CASE \E c \in taken : c.serial = n
    <2>1. PICK c \in taken : c.serial = n
      BY <1>4
    <2>2. v = f /\ f # "pending" /\ fate[n] = "pending"
      BY <1>1, <1>2, <1>3, <2>1
    <2>3. ~\E d \in LiveCalls \ taken : d.serial = n
      BY <1>2, <1>3, <2>1
    <2>4. QED
      BY <2>2, <2>3 DEF v
  <1>5. CASE ~(\E c \in taken : c.serial = n) /\ \E c \in StaleCalls : c.serial = n
    <2>1. PICK c \in StaleCalls : c.serial = n
      BY <1>5
    <2>2. v = "expired" /\ fate[n] = "pending"
      BY <1>1, <1>2, <1>3, <1>5
    <2>3. ~\E d \in LiveCalls \ taken : d.serial = n
      BY <1>2, <1>3, <2>1
    <2>4. QED
      BY <2>2, <2>3 DEF v
  <1>6. CASE /\ ~(\E c \in taken : c.serial = n)
             /\ ~(\E c \in StaleCalls : c.serial = n)
    <2>1. v = fate[n]
      BY <1>1, <1>6
    <2>2. (\E c \in pending : c.serial = n)
            <=> \E c \in LiveCalls \ taken : c.serial = n
      BY <1>3, <1>6
    <2>3. QED
      BY <1>2, <2>1, <2>2 DEF v
  <1>7. QED
    BY <1>4, <1>5, <1>6

\* Every step keeps the table and the history together.
LEMMA CallNext == CallIInv /\ [Next]_vars => CallIInv'
  <1> SUFFICES ASSUME CallIInv, [Next]_vars PROVE CallIInv'
    OBVIOUS
  <1>1. TypeOK /\ TypeOK' /\ IsFiniteSet(pending)
    BY NextType DEF CallIInv
  <1>2. /\ Cardinality(pending) <= MaxPending
        /\ \A c, d \in pending : c.serial = d.serial => c = d
        /\ \A c \in pending : c.serial \in DOMAIN fate
    BY DEF CallIInv, PendingInv
  <1>3. /\ IsFiniteSet(LiveCalls) /\ Cardinality(LiveCalls) \in Nat
        /\ Cardinality(LiveCalls) <= Cardinality(pending)
        /\ Cardinality(pending) \in Nat
    BY <1>1, LiveCallsFacts, FS_Subset, FS_CardinalityType
  <1>4. CASE UNCHANGED <<pending, fate>>
    BY <1>1, <1>4 DEF CallIInv, PendingInv
  <1>5. ASSUME NEW taken \in SUBSET pending, NEW f \in Fates, RemoveStep(taken, f)
        PROVE  CallIInv'
    <2>1. /\ taken \subseteq LiveCalls
          /\ taken # {} => f # "pending"
          /\ pending' = LiveCalls \ taken /\ fate' = SetFate(taken, f)
      BY <1>5 DEF RemoveStep
    <2>2. pending' \subseteq LiveCalls /\ pending' \subseteq pending
      BY <2>1, LiveCallsFacts
    <2>3. IsFiniteSet(pending') /\ Cardinality(pending') <= MaxPending
      <3>1. /\ IsFiniteSet(pending')
            /\ Cardinality(pending') <= Cardinality(LiveCalls)
        BY <1>3, <2>2, FS_Subset
      <3>2. Cardinality(pending') \in Nat
        BY <3>1, FS_CardinalityType
      <3>3. QED
        BY <1>2, <1>3, <3>1, <3>2
    <2>4. DOMAIN fate' = DOMAIN fate
      BY <1>1, <2>1, SetFateType
    <2>5. \A n \in DOMAIN fate' :
             fate'[n] = "pending" <=> \E c \in pending' : c.serial = n
      BY <2>1, <2>4, FateAfter
    <2>6. QED
      BY <1>1, <1>2, <2>2, <2>3, <2>4, <2>5 DEF CallIInv, PendingInv
  <1>6. CASE AcceptStep
    <2> DEFINE m == Len(fate) + 1
               g == SetFate({}, "pending")
    <2>1. PICK c \in PendingCall : c.serial = m /\ pending' = LiveCalls \cup {c}
      BY <1>6 DEF AcceptStep
    <2>2. fate' = Append(g, "pending") /\ Cardinality(LiveCalls) < MaxPending
      BY <1>6 DEF AcceptStep
    <2>3. "pending" \in Fates
      BY DEF Fates
    <2>4. /\ g \in Seq(Fates) /\ Len(g) = Len(fate)
          /\ DOMAIN g = DOMAIN fate /\ DOMAIN fate = 1 .. Len(fate)
          /\ Len(fate) \in Nat
      <3>1. /\ g \in Seq(Fates) /\ Len(g) = Len(fate)
            /\ DOMAIN g = DOMAIN fate
        BY <1>1, <2>3, SetFateType
      <3>2. fate \in Seq(Fates)
        BY <1>1 DEF TypeOK
      <3> HIDE DEF g
      <3>3. QED
        BY <3>1, <3>2
    <2> HIDE DEF g
    <2>5. /\ DOMAIN fate' = 1 .. m /\ fate'[m] = "pending"
          /\ \A n \in DOMAIN fate : fate'[n] = g[n]
      BY <2>2, <2>3, <2>4
    <2>6. \A d \in LiveCalls : d.serial \in 1 .. Len(fate) /\ d.serial # m
      BY <1>2, <2>4, LiveCallsFacts
    <2>7. \A a, b \in pending' : a.serial = b.serial => a = b
      BY <1>2, <2>1, <2>6, LiveCallsFacts
    <2>8. IsFiniteSet(pending') /\ Cardinality(pending') <= MaxPending
      <3>1. c \notin LiveCalls
        BY <2>1, <2>6
      <3>2. /\ IsFiniteSet(pending')
            /\ Cardinality(pending') = Cardinality(LiveCalls) + 1
        BY <1>3, <2>1, <3>1, FS_AddElement
      <3>3. QED
        BY <1>3, <2>2, <3>2
    <2>9. \A n \in DOMAIN fate' :
             fate'[n] = "pending" <=> \E d \in pending' : d.serial = n
      <3> SUFFICES ASSUME NEW n \in DOMAIN fate'
                   PROVE  fate'[n] = "pending"
                            <=> \E d \in pending' : d.serial = n
        OBVIOUS
      <3>1. CASE n = m
        BY <2>1, <2>5, <3>1
      <3>2. CASE n # m
        <4>1. n \in DOMAIN fate
          BY <2>4, <2>5, <3>2
        <4>2. g[n] = "pending" <=> \E d \in LiveCalls \ {} : d.serial = n
          <5> DEFINE none == {}
          <5>1. none \subseteq LiveCalls /\ (none # {} => "pending" # "pending")
            OBVIOUS
          <5> HIDE DEF none
          <5>2. SetFate(none, "pending")[n] = "pending"
                  <=> \E d \in LiveCalls \ none : d.serial = n
            BY SMTT(30), <4>1, <5>1, FateAfter
          <5>3. QED
            BY <5>2 DEF g, none
        <4>3. QED
          BY <2>1, <2>5, <3>2, <4>1, <4>2
      <3>3. QED
        BY <3>1, <3>2
    <2>10. \A d \in pending' : d.serial \in DOMAIN fate'
      BY <2>1, <2>4, <2>5, <2>6
    <2>11. QED
      BY <1>1, <2>7, <2>8, <2>9, <2>10 DEF CallIInv, PendingInv
  <1>7. QED
    BY <1>1, <1>4, <1>5, <1>6, CallStep DEF KeepStep, RemovalStep

\* The pending table agrees with the history of every accepted call and
\* never holds more than REDP2P_MAX_PENDING_CALLS
\* (redp2p_index_handle_punch_req, redp2p_index_handle_punch_poll).
THEOREM CallsConsistent == Spec => []PendingInv
  <1>1. CallIInv => PendingInv
    BY DEF CallIInv
  <1>2. QED
    BY <1>1, CallInit, CallNext, PTL DEF Spec

\* A decided fate is final: no call is handed out twice, none comes back, and
\* one that expired is never handed out.
THEOREM FatesFinal == Spec => FateFinal
  <1> DEFINE A == \A n \in DOMAIN fate :
                    /\ n \in DOMAIN fate'
                    /\ fate[n] # "pending" => fate'[n] = fate[n]
  <1>1. ASSUME CallIInv, [Next]_vars PROVE [A]_vars
    <2> SUFFICES ASSUME NEW n \in DOMAIN fate
                 PROVE  /\ n \in DOMAIN fate'
                        /\ fate[n] # "pending" => fate'[n] = fate[n]
      OBVIOUS
    <2>1. TypeOK /\ IsFiniteSet(pending)
      BY <1>1 DEF CallIInv
    <2>2. CASE KeepStep
      BY <2>2 DEF KeepStep
    <2>3. ASSUME NEW taken \in SUBSET pending, NEW f \in Fates,
                 RemoveStep(taken, f)
          PROVE  /\ n \in DOMAIN fate'
                 /\ fate[n] # "pending" => fate'[n] = fate[n]
      <3>1. /\ taken \subseteq LiveCalls
            /\ taken # {} => f # "pending"
            /\ fate' = SetFate(taken, f)
        BY <2>3 DEF RemoveStep
      <3>2. DOMAIN fate' = DOMAIN fate
        BY <2>1, <3>1, SetFateType
      <3>3. QED
        BY <1>1, <3>1, <3>2, FateAfter
    <2>4. CASE AcceptStep
      <3> DEFINE none == {}
                 g == SetFate(none, "pending")
      <3>1. none \subseteq LiveCalls /\ (none # {} => "pending" # "pending")
        OBVIOUS
      <3>2. fate' = Append(g, "pending")
        BY <2>4 DEF AcceptStep
      <3>3. "pending" \in Fates
        BY DEF Fates
      <3> HIDE DEF none
      <3>4. fate[n] # "pending" => g[n] = fate[n]
        <4> DEFINE f == "pending"
        <4>1. none \subseteq LiveCalls /\ (none # {} => f # "pending")
          BY <3>1
        <4> HIDE DEF f
        <4>2. fate[n] # "pending" => SetFate(none, f)[n] = fate[n]
          BY <1>1, <4>1, FateAfter
        <4>3. QED
          BY <4>2 DEF f
      <3>5. g \in Seq(Fates) /\ DOMAIN g = DOMAIN fate
        BY <2>1, <3>3, SetFateType
      <3> HIDE DEF g
      <3>6. n \in DOMAIN fate' /\ fate'[n] = g[n]
        BY <3>2, <3>3, <3>5
      <3>7. QED
        BY <3>4, <3>6
    <2>5. QED
      BY <1>1, <2>1, <2>2, <2>3, <2>4, CallStep DEF RemovalStep
  <1>2. QED
    BY <1>1, CallInit, CallNext, PTL DEF Spec, FateFinal

-----------------------------------------------------------------------------
(***************************************************************************)
(* Replies.                                                                *)
(***************************************************************************)

\* Only redp2p_index_handle_punch_req and redp2p_index_handle_punch_poll
\* write replies of their operations.
LEMMA CallReplies ==
    ASSUME Next, reply'.op \in {"punch_req", "punch_poll"}
    PROVE  \/ \E caller \in Callers, id \in Ids, out \in Outcomes :
                 HandlePunchReq(caller, id, out)
           \/ \E id \in Ids, out \in Outcomes : HandlePunchPoll(id, out)
  <1>1. NoReply.op = "none"
    BY DEF NoReply
  <1>2. ASSUME NEW id, NEW proof, NEW info, NEW out,
               HandleRegister(id, proof, info, out)
        PROVE  reply'.op = "register"
    BY <1>2 DEF HandleRegister, RegisterDenied, RegisterFull, RegisterFault,
                RegisterNew, RegisterRefresh, Respond
  <1>3. ASSUME NEW id, NEW key, NEW info, NEW out,
               HandleHeartbeat(id, key, info, out)
        PROVE  reply'.op = "heartbeat"
    BY <1>3 DEF HandleHeartbeat, HeartbeatDenied, HeartbeatAccepted, Respond
  <1>4. ASSUME NEW id, NEW key, NEW out, HandleDeregister(id, key, out)
        PROVE  reply'.op = "deregister"
    BY <1>4 DEF HandleDeregister, Respond
  <1>5. ASSUME NEW id, HandleLookup(id) PROVE reply'.op = "lookup"
    BY <1>5 DEF HandleLookup, Respond
  <1>6. ASSUME HandleList PROVE reply'.op \in {"none", "list"}
    BY <1>6 DEF HandleList, NoReply
  <1>7. ASSUME HandleChallenge PROVE reply'.op = "challenge"
    BY <1>7 DEF HandleChallenge, NoReply
  <1>8. ASSUME NEW code, HandleError(code) PROVE reply'.op = "invalid"
    BY <1>8 DEF HandleError, NoReply
  <1>9. CASE Request
    BY <1>2, <1>3, <1>4, <1>5, <1>6, <1>7, <1>8, <1>9 DEF Request
  <1>10. CASE Configure \/ Serve \/ Stop \/ Tick \/ PrepareFdset \/ Prune
    <2>1. reply' = NoReply
      BY <1>10 DEF Configure, SetSeats, SetVip, Serve, Stop, Tick,
                   PrepareFdset, Prune
    <2>2. QED
      BY <1>1, <2>1
  <1>11. QED
    BY <1>9, <1>10 DEF Next

\* A call is live exactly while its age is within REDP2P_PENDING_CALL_TTL_S.
LEMMA LiveCallsAge ==
    ASSUME TypeOK
    PROVE  LiveCalls = {c \in pending : now <= c.ts + PendingTTL}
  <1>1. now \in Int /\ PendingTTL \in Int /\ \A c \in pending : c.ts \in Int
    BY DEF TypeOK, PendingCall
  <1>2. QED
    BY <1>1 DEF LiveCalls, StaleCalls

\* punch_poll answers with calls of the asking publisher within their TTL,
\* and leaves none of its own behind (redp2p_index_handle_punch_poll).
THEOREM PollsExact == Spec => PollExact
  <1> DEFINE A == \A id \in Ids :
                    reply'.op = "punch_poll" /\ reply'.ids = {id}
                        /\ reply'.status = "ok" =>
                      /\ reply'.calls \subseteq pending
                      /\ \A c \in reply'.calls : c.target = id
                                              /\ now - c.ts <= PendingTTL
                      /\ \A c \in pending' : c.target # id
  <1>1. ASSUME TypeOK, [Next]_vars PROVE [A]_vars
    <2>1. SUFFICES ASSUME Next, NEW id \in Ids, reply'.op = "punch_poll",
                          reply'.ids = {id}, reply'.status = "ok"
                   PROVE  /\ reply'.calls \subseteq pending
                          /\ \A c \in reply'.calls : c.target = id
                                               /\ now - c.ts <= PendingTTL
                          /\ \A c \in pending' : c.target # id
      BY <1>1
    <2>2. ASSUME NEW caller, NEW x, NEW out, HandlePunchReq(caller, x, out)
          PROVE  reply'.op = "punch_req"
      BY <2>2 DEF HandlePunchReq, Respond
    <2>3. PICK x \in Ids, out \in Outcomes : HandlePunchPoll(x, out)
      BY <2>1, <2>2, CallReplies
    <2> DEFINE taken == {c \in LiveCalls : c.target = x}
    <2>4. reply' = [Respond("punch_poll", x, out) EXCEPT
                      !.calls = IF out = "ok" THEN taken ELSE {}]
      <3>1. reply' # NoReply
        BY <2>1 DEF NoReply
      <3>2. QED
        BY <2>3, <3>1 DEF HandlePunchPoll
    <2>5. reply'.ids = {x} /\ reply'.status = out
          /\ reply'.calls = IF out = "ok" THEN taken ELSE {}
      BY <2>4 DEF Respond
    <2>6. x = id /\ reply'.calls = taken
      BY <2>1, <2>5
    <2>7. pending' = LiveCalls \ taken
      BY <2>3 DEF HandlePunchPoll
    <2>8. \A c \in LiveCalls : now - c.ts <= PendingTTL
      <3>1. now \in Int /\ PendingTTL \in Int /\ \A c \in pending : c.ts \in Int
        BY <1>1 DEF TypeOK, PendingCall
      <3>2. QED
        BY <3>1 DEF LiveCalls, StaleCalls
    <2>9. QED
      BY <2>6, <2>7, <2>8, LiveCallsFacts
  <1>2. QED
    BY <1>1, TypeCorrect, PTL DEF Spec, PollExact

\* busy is answered only when REDP2P_MAX_PENDING_CALLS calls within their TTL
\* wait (redp2p_index_handle_punch_req evicts before it counts).
THEOREM BusyJustified == Spec => BusyOnlyWhenFull
  <1> DEFINE A == \A id \in Ids :
                    reply' = Respond("punch_req", id, "busy") =>
                       Cardinality({c \in pending : now <= c.ts + PendingTTL})
                           >= MaxPending
  <1>1. ASSUME TypeOK, [Next]_vars PROVE [A]_vars
    <2>1. SUFFICES ASSUME Next, NEW id \in Ids,
                          reply' = Respond("punch_req", id, "busy")
                   PROVE  Cardinality({c \in pending : now <= c.ts + PendingTTL})
                              >= MaxPending
      BY <1>1
    <2>2. reply'.op = "punch_req" /\ reply'.status = "busy"
      BY <2>1 DEF Respond
    <2>3. ASSUME NEW x, NEW out, HandlePunchPoll(x, out)
          PROVE  reply'.op \in {"none", "punch_poll"}
      BY <2>3 DEF HandlePunchPoll, Respond, NoReply
    <2>4. PICK caller \in Callers, x \in Ids, out \in Outcomes :
                 HandlePunchReq(caller, x, out)
      BY <2>1, <2>2, <2>3, CallReplies
    <2>5. Cardinality(LiveCalls) >= MaxPending
      <3>1. SUFFICES ASSUME ~(Cardinality(LiveCalls) >= MaxPending) PROVE FALSE
        OBVIOUS
      <3>2. reply'.status = out
        BY <2>4, <3>1 DEF HandlePunchReq, Respond
      <3>3. QED
        BY <2>2, <3>2 DEF Outcomes
    <2>6. QED
      BY <1>1, <2>5, LiveCallsAge
  <1>2. QED
    BY <1>1, TypeCorrect, PTL DEF Spec, BusyOnlyWhenFull
=============================================================================
