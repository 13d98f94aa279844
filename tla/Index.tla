------------------------------- MODULE Index -------------------------------
(***************************************************************************)
(* The rendezvous index of redp2p: the publisher table, the pending punch  *)
(* calls and the handlers of the eight HTTP operations, as one context     *)
(* (struct redp2p) keeps them between redp2p_open and redp2p_close.        *)
(*                                                                         *)
(* The server is one thread that runs every handler to its end before the  *)
(* next one, so a handler is one action.  What the event loop adds (the    *)
(* connections, when select() is idle) is in module IndexLoop; here the    *)
(* loop's own evictions may happen between any two requests.               *)
(*                                                                         *)
(* The array peers[] is a partial function from identifiers to records and *)
(* pending_calls[] a set of calls; module Tables checks the array loops    *)
(* against exactly these abstractions.                                     *)
(***************************************************************************)
EXTENDS Integers, FiniteSets, Sequences

CONSTANTS
    Ids,           \* publisher identifiers
    Passes,        \* registration secrets
    GlobalPass,    \* ctx->pass
    PowBits,       \* ctx->pow_bits
    Infos,         \* announced (proto, udp_port, candidates) triples
    Callers,       \* (self_id, session, candidates) of a punch_req
    SeatCounts,    \* values redp2p_set_seats is called with
    VipLists,      \* token lists redp2p_set_vip is called with
    ETimeout,      \* ctx->etimeout_sec
    PruneInterval, \* ctx->prune_interval_s
    PendingTTL,    \* REDP2P_PENDING_CALL_TTL_S
    MaxPending,    \* REDP2P_MAX_PENDING_CALLS
    ReplyIds,      \* identifiers that fit in one REDP2P_BUF reply
    ReplyCalls,    \* calls that fit in one REDP2P_BUF reply
    MaxNow,        \* bound: the clock stops here
    MaxKey,        \* bound: keys minted
    MaxCall        \* bound: punch calls accepted

VipEntry == [id : Ids, pass : Passes]

ASSUME ConstantAssumption ==
    /\ IsFiniteSet(Ids)
    /\ GlobalPass \in Passes
    /\ PowBits \in Nat
    /\ SeatCounts \subseteq Nat
    /\ VipLists \subseteq Seq(VipEntry)
    /\ ETimeout \in Nat /\ PruneInterval \in Nat
    /\ PendingTTL \in Nat /\ MaxPending \in Nat
    /\ ReplyIds \in Nat /\ ReplyCalls \in Nat
    /\ MaxNow \in Nat /\ MaxKey \in Nat /\ MaxCall \in Nat

VARIABLES
    phase,      \* "open" until the first serve, then "serving" or "stopped"
    seatsSet,   \* ctx->seats_set
    nPeersCap,  \* ctx->n_peers_cap
    nonvipCap,  \* ctx->nonvip_cap
    vips,       \* ctx->vips: reserved identifier -> its secret
    peers,      \* ctx->peers: registered identifier -> record
    pending,    \* ctx->pending_calls
    now,        \* redp2p_now_s
    lastPrune,  \* runtime->last_prune
    reply,      \* the HTTP reply the last step wrote, NoReply when none
    minted,     \* history: key -> the identifier and secret it was minted for
    fate        \* history: what became of every accepted punch call

config == <<seatsSet, nPeersCap, nonvipCap, vips>>
history == <<minted, fate>>
vars == <<phase, seatsSet, nPeersCap, nonvipCap, vips, peers, pending, now,
          lastPrune, reply, minted, fate>>

Keys == 1 .. MaxKey
Calls == 1 .. MaxCall
Fates == {"pending", "returned", "expired", "lost", "dropped"}
PeerRecord == [key : Keys, lastSeen : 0 .. MaxNow, info : Infos]
PendingCall == [serial : Calls, caller : Callers, target : Ids,
                ts : 0 .. MaxNow]

(***************************************************************************)
(* Replies.  "none" is a reply too large for its buffer: the connection is *)
(* closed without one.  "internal" is an allocation or random failure.     *)
(***************************************************************************)
Ops == {"none", "invalid", "challenge", "register", "heartbeat", "lookup",
        "list", "deregister", "punch_req", "punch_poll"}
Statuses == {"none", "ok", "bad_request", "invalid_id", "auth_failed",
             "invalid_key", "not_found", "busy", "table_full", "internal"}
Replies == [op : Ops, status : Statuses, ids : SUBSET Ids,
            key : 0 .. MaxKey, info : SUBSET Infos,
            calls : SUBSET PendingCall]

NoReply == [op |-> "none", status |-> "none", ids |-> {}, key |-> 0,
            info |-> {}, calls |-> {}]

\* redp2p_index_respond with {"ok": true} alone, or with an error code.
Respond(op, id, status) ==
    [op |-> op, status |-> status, ids |-> {id}, key |-> 0, info |-> {},
     calls |-> {}]

\* The reply object itself may fail to be allocated, after the handler's
\* work is done.
Outcomes == {"ok", "internal"}

-----------------------------------------------------------------------------
(***************************************************************************)
(* Helpers on the tables.                                                  *)
(***************************************************************************)

\* Mutants: the subtraction without its guard, and reservations ignored.
UpdateNonvipCapUnderflow(seats, nVips) == seats - nVips
UpdateNonvipCapAllSeats(seats, nVips) == seats

\* redp2p_update_nonvip_cap
UpdateNonvipCap(seats, nVips) == IF nVips >= seats THEN 0 ELSE seats - nVips

\* Mutant: every identifier registers with the global secret.
GetRegisterPassGlobal(id) == GlobalPass

\* redp2p_get_register_pass
GetRegisterPass(id) == IF id \in DOMAIN vips THEN vips[id] ELSE GlobalPass

\* redp2p_verify_register_pow: the HMAC binds the secret and the identifier,
\* and its digest shows the leading zero bits.
VerifyRegisterPow(pass, id, proof) ==
    /\ proof.pass = pass
    /\ proof.id = id
    /\ proof.zeros >= PowBits

\* Mutant: a record expires one tick early.
StaleEarly(r) == now - r.lastSeen >= ETimeout

\* redp2p_peer_is_stale
Stale(r) == now - r.lastSeen > ETimeout
FreshIds == {id \in DOMAIN peers : ~Stale(peers[id])}

\* redp2p_evict_stale: the table without its expired records.
EvictStale == [id \in FreshIds |-> peers[id]]

\* redp2p_count_nonvip_peers
NonVip(S) == S \ DOMAIN vips

\* Mutant: only the unreserved seats are counted.
AddPeerFullNonVipOnly(S, id) ==
    /\ seatsSet
    /\ id \notin DOMAIN vips
    /\ Cardinality(NonVip(S)) > nonvipCap

\* redp2p_add_peer refuses a new identifier with REDP2P_EFULL.
AddPeerFull(S, id) ==
    /\ seatsSet
    /\ \/ Cardinality(S) >= nPeersCap
       \/ /\ id \notin DOMAIN vips
          /\ Cardinality(NonVip(S)) >= nonvipCap

\* A record written at table position of id, the others left alone.
Upsert(tbl, id, r) ==
    [x \in DOMAIN tbl \cup {id} |-> IF x = id THEN r ELSE tbl[x]]

\* redp2p_remove_peer
RemovePeer(tbl, id) == [x \in DOMAIN tbl \ {id} |-> tbl[x]]

\* redp2p_pending_call_evict_stale
StaleCalls == {c \in pending : now - c.ts > PendingTTL}
LiveCalls == pending \ StaleCalls

\* History of the calls that leave the pending table.
SetFate(gone, f) ==
    [n \in DOMAIN fate |->
        IF \E c \in gone : c.serial = n THEN f
        ELSE IF \E c \in StaleCalls : c.serial = n THEN "expired"
        ELSE fate[n]]

-----------------------------------------------------------------------------
Init ==
    /\ phase = "open"
    /\ seatsSet = FALSE /\ nPeersCap = 0 /\ nonvipCap = 0
    /\ vips = [id \in {} |-> GlobalPass]
    /\ peers = [id \in {} |-> [key |-> 0, lastSeen |-> 0, info |-> {}]]
    /\ pending = {}
    /\ now = 0 /\ lastPrune = 0
    /\ reply = NoReply
    /\ minted = << >>
    /\ fate = << >>

(***************************************************************************)
(* Configuration.  The CLI and the runner set seats and VIP reservations   *)
(* once, before the context serves.                                        *)
(***************************************************************************)

\* redp2p_set_seats
SetSeats(n) ==
    /\ phase = "open"
    /\ seatsSet' = TRUE
    /\ nPeersCap' = n
    /\ nonvipCap' = UpdateNonvipCap(n, Cardinality(DOMAIN vips))
    /\ reply' = NoReply
    /\ UNCHANGED <<phase, vips, peers, pending, now, lastPrune, history>>

\* A token list redp2p_add_vip accepts entry by entry: no identifier twice.
DistinctVips(list) ==
    \A i, j \in DOMAIN list : list[i].id = list[j].id => i = j

VipTable(list) ==
    [id \in {list[i].id : i \in DOMAIN list} |->
        (CHOOSE e \in {list[i] : i \in DOMAIN list} : e.id = id).pass]

\* redp2p_set_vip: malformed is an odd token count or an invalid token.  On
\* every error the reservations are cleared.
SetVip(list, malformed) ==
    /\ phase = "open"
    /\ vips' = IF malformed \/ ~DistinctVips(list)
                 THEN [id \in {} |-> GlobalPass]
                 ELSE VipTable(list)
    /\ nonvipCap' = UpdateNonvipCap(nPeersCap, Cardinality(DOMAIN vips'))
    /\ reply' = NoReply
    /\ UNCHANGED <<phase, seatsSet, nPeersCap, peers, pending, now,
                   lastPrune, history>>

\* redp2p_serve_index up to its loop; the tables survive an earlier stop.
Serve ==
    /\ phase \in {"open", "stopped"}
    /\ phase' = "serving"
    /\ lastPrune' = now
    /\ reply' = NoReply
    /\ UNCHANGED <<config, peers, pending, now, history>>

\* The loop leaves on stop_requested; cleanup keeps the tables.
Stop ==
    /\ phase = "serving"
    /\ phase' = "stopped"
    /\ reply' = NoReply
    /\ UNCHANGED <<config, peers, pending, now, lastPrune, history>>

Tick ==
    /\ now < MaxNow
    /\ now' = now + 1
    /\ reply' = NoReply
    /\ UNCHANGED <<phase, config, peers, pending, lastPrune, history>>

-----------------------------------------------------------------------------
(***************************************************************************)
(* The handlers.                                                           *)
(***************************************************************************)

\* Any operation that fails before it touches the tables: the request does
\* not validate (missing or wrong-typed field, duplicate field, unknown op,
\* invalid identifier), or a read-only operation cannot allocate its reply.
HandleError(code) ==
    /\ phase = "serving"
    /\ reply' = [NoReply EXCEPT !.op = "invalid", !.status = code]
    /\ UNCHANGED <<phase, config, peers, pending, now, lastPrune, history>>

\* redp2p_index_handle_challenge keeps nothing.
HandleChallenge ==
    /\ phase = "serving"
    /\ reply' = [NoReply EXCEPT !.op = "challenge", !.status = "ok"]
    /\ UNCHANGED <<phase, config, peers, pending, now, lastPrune, history>>

RegisterDenied(id, proof) ==
    /\ ~VerifyRegisterPow(GetRegisterPass(id), id, proof)
    /\ reply' = Respond("register", id, "auth_failed")
    /\ UNCHANGED <<peers, minted>>

\* Mutant: capacity is tested before the expired records are evicted.
RegisterFullBeforeEvict(id, proof) ==
    /\ VerifyRegisterPow(GetRegisterPass(id), id, proof)
    /\ id \notin DOMAIN peers
    /\ AddPeerFull(DOMAIN peers, id)
    /\ peers' = EvictStale
    /\ reply' = Respond("register", id, "table_full")
    /\ UNCHANGED minted

RegisterFull(id, proof) ==
    /\ VerifyRegisterPow(GetRegisterPass(id), id, proof)
    /\ id \notin FreshIds
    /\ AddPeerFull(FreshIds, id)
    /\ peers' = EvictStale
    /\ reply' = Respond("register", id, "table_full")
    /\ UNCHANGED minted

\* The table cannot grow or no key can be drawn: nothing is added.
RegisterFault(id, proof) ==
    /\ VerifyRegisterPow(GetRegisterPass(id), id, proof)
    /\ id \notin FreshIds
    /\ ~AddPeerFull(FreshIds, id)
    /\ peers' = EvictStale
    /\ reply' = Respond("register", id, "internal")
    /\ UNCHANGED minted

RegisterNew(id, proof, info, out) ==
    /\ VerifyRegisterPow(GetRegisterPass(id), id, proof)
    /\ id \notin FreshIds
    /\ ~AddPeerFull(FreshIds, id)
    /\ Len(minted) < MaxKey
    /\ LET key == Len(minted) + 1
       IN  /\ peers' = Upsert(EvictStale, id,
                           [key |-> key, lastSeen |-> now, info |-> info])
           /\ minted' = Append(minted, [id |-> id, pass |-> proof.pass])
           /\ reply' = [Respond("register", id, out) EXCEPT
                           !.key = IF out = "ok" THEN key ELSE 0]

\* A live record keeps its key.
RegisterRefresh(id, proof, info, out) ==
    /\ VerifyRegisterPow(GetRegisterPass(id), id, proof)
    /\ id \in FreshIds
    /\ peers' = Upsert(EvictStale, id,
                    [peers[id] EXCEPT !.lastSeen = now, !.info = info])
    /\ reply' = [Respond("register", id, out) EXCEPT
                    !.key = IF out = "ok" THEN peers[id].key ELSE 0]
    /\ UNCHANGED minted

\* redp2p_index_handle_register
HandleRegister(id, proof, info, out) ==
    /\ phase = "serving"
    /\ \/ RegisterDenied(id, proof)
       \/ RegisterFull(id, proof)
       \/ RegisterFault(id, proof)
       \/ RegisterNew(id, proof, info, out)
       \/ RegisterRefresh(id, proof, info, out)
    /\ UNCHANGED <<phase, config, pending, now, lastPrune, fate>>

HeartbeatDenied(id, key) ==
    /\ id \in FreshIds => peers[id].key # key
    /\ peers' = EvictStale
    /\ reply' = Respond("heartbeat", id,
                    IF id \in FreshIds THEN "invalid_key" ELSE "not_found")

HeartbeatAccepted(id, key, info, out) ==
    /\ id \in FreshIds
    /\ peers[id].key = key
    /\ peers' = Upsert(EvictStale, id,
                    [peers[id] EXCEPT !.lastSeen = now, !.info = info])
    /\ reply' = Respond("heartbeat", id, out)

\* redp2p_index_handle_heartbeat
HandleHeartbeat(id, key, info, out) ==
    /\ phase = "serving"
    /\ \/ HeartbeatDenied(id, key)
       \/ HeartbeatAccepted(id, key, info, out)
    /\ UNCHANGED <<phase, config, pending, now, lastPrune, minted, fate>>

\* redp2p_index_handle_lookup: reads only, expired records are hidden.
HandleLookup(id) ==
    /\ phase = "serving"
    /\ reply' = IF id \notin FreshIds
                  THEN Respond("lookup", id, "not_found")
                  ELSE [Respond("lookup", id, "ok") EXCEPT
                          !.info = {peers[id].info}]
    /\ UNCHANGED <<phase, config, peers, pending, now, lastPrune, history>>

\* redp2p_index_handle_list
HandleList ==
    /\ phase = "serving"
    /\ reply' = IF Cardinality(FreshIds) > ReplyIds
                  THEN NoReply
                  ELSE [NoReply EXCEPT !.op = "list", !.status = "ok",
                                       !.ids = FreshIds]
    /\ UNCHANGED <<phase, config, peers, pending, now, lastPrune, history>>

\* Mutant: deregister without the comparison of keys.
HandleDeregisterAnyKey(id, key, out) ==
    /\ phase = "serving"
    /\ id \in FreshIds
    /\ peers' = RemovePeer(EvictStale, id)
    /\ reply' = [Respond("deregister", id, out) EXCEPT !.key = key]
    /\ UNCHANGED <<phase, config, pending, now, lastPrune, history>>

\* redp2p_index_handle_deregister
HandleDeregister(id, key, out) ==
    /\ phase = "serving"
    /\ IF id \in FreshIds /\ peers[id].key = key
         THEN /\ peers' = RemovePeer(EvictStale, id)
              /\ reply' = [Respond("deregister", id, out) EXCEPT !.key = key]
         ELSE /\ peers' = EvictStale
              /\ reply' = Respond("deregister", id, "invalid_key")
    /\ UNCHANGED <<phase, config, pending, now, lastPrune, history>>

\* Mutants: room for one call too many, and a full test without eviction.
HandlePunchReqOffByOne(caller, target, out) ==
    /\ phase = "serving"
    /\ Cardinality(LiveCalls) <= MaxPending
    /\ Len(fate) < MaxCall
    /\ pending' = LiveCalls \cup
          {[serial |-> Len(fate) + 1, caller |-> caller, target |-> target,
            ts |-> now]}
    /\ fate' = Append(SetFate({}, "pending"), "pending")
    /\ reply' = Respond("punch_req", target, out)
    /\ UNCHANGED <<phase, config, peers, now, lastPrune, minted>>

HandlePunchReqNoEvict(caller, target, out) ==
    /\ phase = "serving"
    /\ IF Cardinality(pending) >= MaxPending
         THEN /\ reply' = Respond("punch_req", target, "busy")
              /\ UNCHANGED <<pending, fate>>
         ELSE /\ Len(fate) < MaxCall
              /\ pending' = pending \cup
                    {[serial |-> Len(fate) + 1, caller |-> caller,
                      target |-> target, ts |-> now]}
              /\ fate' = Append(fate, "pending")
              /\ reply' = Respond("punch_req", target, out)
    /\ UNCHANGED <<phase, config, peers, now, lastPrune, minted>>

\* redp2p_index_handle_punch_req: the target need not be registered, and
\* expired publisher records are left in place.
HandlePunchReq(caller, target, out) ==
    /\ phase = "serving"
    /\ IF Cardinality(LiveCalls) >= MaxPending
         THEN /\ pending' = LiveCalls
              /\ fate' = SetFate({}, "pending")
              /\ reply' = Respond("punch_req", target, "busy")
         ELSE /\ Len(fate) < MaxCall
              /\ pending' = LiveCalls \cup
                    {[serial |-> Len(fate) + 1, caller |-> caller,
                      target |-> target, ts |-> now]}
              /\ fate' = Append(SetFate({}, "pending"), "pending")
              /\ reply' = Respond("punch_req", target, out)
    /\ UNCHANGED <<phase, config, peers, now, lastPrune, minted>>

\* Mutants: a poll that leaves the calls in the table, and one that hands
\* out expired calls.
HandlePunchPollKeeps(id, out) ==
    LET taken == {c \in LiveCalls : c.target = id}
    IN  /\ phase = "serving"
        /\ pending' = LiveCalls
        /\ fate' = SetFate(taken, "returned")
        /\ reply' = [Respond("punch_poll", id, "ok") EXCEPT !.calls = taken]
        /\ UNCHANGED <<phase, config, peers, now, lastPrune, minted>>

HandlePunchPollStale(id, out) ==
    LET taken == {c \in pending : c.target = id}
    IN  /\ phase = "serving"
        /\ pending' = pending \ taken
        /\ fate' = SetFate(taken, "returned")
        /\ reply' = [Respond("punch_poll", id, "ok") EXCEPT !.calls = taken]
        /\ UNCHANGED <<phase, config, peers, now, lastPrune, minted>>

\* redp2p_index_handle_punch_poll: the calls are taken before the reply is
\* built, so a reply that fails or does not fit loses them.
HandlePunchPoll(id, out) ==
    LET taken == {c \in LiveCalls : c.target = id}
        fits == Cardinality(taken) <= ReplyCalls
    IN  /\ phase = "serving"
        /\ pending' = LiveCalls \ taken
        /\ fate' = SetFate(taken, IF out # "ok" THEN "lost"
                                  ELSE IF fits THEN "returned" ELSE "dropped")
        /\ reply' = IF out = "ok" /\ ~fits THEN NoReply
                    ELSE [Respond("punch_poll", id, out) EXCEPT
                            !.calls = IF out = "ok" THEN taken ELSE {}]
        /\ UNCHANGED <<phase, config, peers, now, lastPrune, minted>>

(***************************************************************************)
(* What the event loop does by itself.                                     *)
(***************************************************************************)

\* redp2p_index_prepare_fdset, at the top of every iteration.
PrepareFdset ==
    /\ phase = "serving"
    /\ pending' = LiveCalls
    /\ fate' = SetFate({}, "pending")
    /\ reply' = NoReply
    /\ UNCHANGED <<phase, config, peers, now, lastPrune, minted>>

\* The prune of an idle select, when it is due.
Prune ==
    /\ phase = "serving"
    /\ now - lastPrune >= PruneInterval
    /\ peers' = EvictStale
    /\ lastPrune' = now
    /\ reply' = NoReply
    /\ UNCHANGED <<phase, config, pending, now, history>>

Configure ==
    \/ \E n \in SeatCounts : SetSeats(n)
    \/ \E list \in VipLists, malformed \in BOOLEAN : SetVip(list, malformed)

Proofs == [pass : Passes, id : Ids, zeros : 0 .. PowBits]

Request ==
    \/ \E code \in {"bad_request", "invalid_id", "internal"} :
          HandleError(code)
    \/ HandleChallenge
    \/ \E id \in Ids, proof \in Proofs, info \in Infos, out \in Outcomes :
          HandleRegister(id, proof, info, out)
    \/ \E id \in Ids, key \in Keys, info \in Infos, out \in Outcomes :
          HandleHeartbeat(id, key, info, out)
    \/ \E id \in Ids : HandleLookup(id)
    \/ HandleList
    \/ \E id \in Ids, key \in Keys, out \in Outcomes :
          HandleDeregister(id, key, out)
    \/ \E caller \in Callers, id \in Ids, out \in Outcomes :
          HandlePunchReq(caller, id, out)
    \/ \E id \in Ids, out \in Outcomes : HandlePunchPoll(id, out)

Next == Configure \/ Serve \/ Stop \/ Tick \/ Request \/ PrepareFdset \/ Prune

Spec == Init /\ [][Next]_vars

-----------------------------------------------------------------------------
(***************************************************************************)
(* Properties.                                                             *)
(***************************************************************************)

\* Types of the state of one index context.
TypeOK ==
    /\ phase \in {"open", "serving", "stopped"}
    /\ seatsSet \in BOOLEAN /\ nPeersCap \in Nat /\ nonvipCap \in Nat
    /\ DOMAIN vips \subseteq Ids
    /\ vips \in [DOMAIN vips -> Passes]
    /\ DOMAIN peers \subseteq Ids
    /\ peers \in [DOMAIN peers -> PeerRecord]
    /\ pending \subseteq PendingCall
    /\ now \in 0 .. MaxNow /\ lastPrune \in 0 .. MaxNow
    /\ reply \in Replies
    /\ minted \in Seq([id : Ids, pass : Passes]) /\ Len(minted) <= MaxKey
    /\ fate \in Seq(Fates) /\ Len(fate) <= MaxCall

\* redp2p_add_peer's two capacity tests keep both bounds: the table never
\* holds more records than seats, nor more unreserved publishers than the
\* seats that reservations leave, whatever expires or is withdrawn between.
SeatInv ==
    seatsSet => /\ Cardinality(DOMAIN peers) <= nPeersCap
                /\ Cardinality(NonVip(DOMAIN peers)) <= nonvipCap

\* A reservation is worth a seat: while the reservations fit in the seats,
\* register never answers table_full to a reserved identifier, however many
\* others are registered and however stale their records are.
VipNeverRefused ==
    [][\A id \in DOMAIN vips :
         Cardinality(DOMAIN vips) <= nPeersCap =>
            reply' # Respond("register", id, "table_full")]_vars

\* table_full is answered only when the live records, the reservations and
\* the newcomer really exceed the seats: an expired record still in the
\* array takes nobody's seat.
RefusedOnlyWhenFull ==
    [][\A id \in Ids :
         reply' = Respond("register", id, "table_full") =>
            /\ seatsSet
            /\ Cardinality(FreshIds \cup DOMAIN vips \cup {id})
                 > nPeersCap]_vars

\* A live record outlives every step with its key unchanged, except a
\* deregister that presents that very key.
LiveRecordKept ==
    [][\A id \in FreshIds :
         \/ id \in DOMAIN peers' /\ peers'[id].key = peers[id].key
         \/ /\ reply'.op = "deregister" /\ reply'.ids = {id}
            /\ reply'.key = peers[id].key]_vars

\* Every record in the table is under a key minted for that identifier by a
\* registration that knew the identifier's own secret: its VIP secret when
\* it is reserved, the global one when not.
KeyBinding ==
    \A id \in DOMAIN peers :
        /\ peers[id].key \in DOMAIN minted
        /\ minted[peers[id].key].id = id
        /\ minted[peers[id].key].pass =
              IF id \in DOMAIN vips THEN vips[id] ELSE GlobalPass

\* The publisher records as the lease registry of module Registry: the live
\* records are the leases, lookup and list its reads.
Answer ==
    IF reply.op = "lookup" /\ reply.status \in {"ok", "not_found"}
      THEN [about |-> reply.ids, info |-> reply.info,
            live |-> IF reply.status = "ok" THEN reply.ids ELSE {}]
    ELSE IF reply.op = "list" /\ reply.status = "ok"
      THEN [about |-> Ids, live |-> reply.ids, info |-> {}]
    ELSE [about |-> {}, live |-> {}, info |-> {}]

registry == INSTANCE Registry WITH
    Lease <- ETimeout, leases <- EvictStale, clock <- now,
    granted <- Len(minted), limited <- seatsSet, seats <- nPeersCap,
    reserved <- DOMAIN vips, answer <- Answer

\* The index implements the lease registry: the lazy evictions scattered over
\* register, heartbeat, deregister and the idle loop are invisible to every
\* client, in what is granted and in what is read.
IsLeaseRegistry == registry!Spec

\* The pending table is consistent with every call's history: at most
\* MaxPending calls, each accepted call is in the table exactly while its
\* fate is open, so none is returned twice or comes back.
PendingInv ==
    /\ Cardinality(pending) <= MaxPending
    /\ \A c, d \in pending : c.serial = d.serial => c = d
    /\ \A n \in DOMAIN fate :
          fate[n] = "pending" <=> \E c \in pending : c.serial = n

\* A fate, once decided, is final: a call is handed to a publisher at most
\* once, and a call that expired is never handed out.
FateFinal ==
    [][\A n \in DOMAIN fate :
         /\ n \in DOMAIN fate'
         /\ fate[n] # "pending" => fate'[n] = fate[n]]_vars

\* punch_poll answers with calls for the asking publisher that are no older
\* than the pending TTL, and leaves no live one of its own behind.
PollExact ==
    [][\A id \in Ids :
         reply'.op = "punch_poll" /\ reply'.ids = {id}
             /\ reply'.status = "ok" =>
           /\ reply'.calls \subseteq pending
           /\ \A c \in reply'.calls : c.target = id
                                       /\ now - c.ts <= PendingTTL
           /\ \A c \in pending' : c.target # id]_vars

\* busy is answered only when MaxPending calls that are still within their
\* TTL wait: calls that expired while nobody polled block no consumer.
BusyOnlyWhenFull ==
    [][\A id \in Ids :
         reply' = Respond("punch_req", id, "busy") =>
            Cardinality({c \in pending : now <= c.ts + PendingTTL})
                >= MaxPending]_vars

\* "punch_poll returns and consumes the pending calls addressed to a
\* publisher" (DESIGN.md): no call is consumed by a poll whose reply did not
\* fit in its buffer.
PollReturnsConsumed == \A n \in DOMAIN fate : fate[n] # "dropped"
=============================================================================
