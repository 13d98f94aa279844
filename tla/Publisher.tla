----------------------------- MODULE Publisher -----------------------------
(***************************************************************************)
(* The life of one registration: publishers (redp2p_wait) and operators    *)
(* (redp2p_deregister) of one identifier, their HTTP exchanges with the    *)
(* index of module Index, and the key file they share.                     *)
(*                                                                         *)
(* A client that gives up may leave its request behind: the index handles  *)
(* it later.  The index may restart with empty tables, a process may die   *)
(* at any point, and saving the key may fail before or after the rename.   *)
(* The challenge that precedes a registration changes nothing; when it     *)
(* fails, the register request is one that never arrives.  Punch polls and *)
(* sessions are not shown: the loop may end at any time (LoopEnds).        *)
(***************************************************************************)
EXTENDS Integers, FiniteSets, Sequences

CONSTANTS
    Procs,          \* processes, or threads when OneProcess
    Publishers,     \* those that may run redp2p_wait
    OneProcess,     \* do they share g_key_mutex?
    HeartbeatS,     \* ctx->heartbeat_s
    ETimeout, PruneInterval, MaxNow, MaxKey,    \* as in Index
    MaxRuns,        \* bound: runs started
    MaxFaults       \* bound: exchanges given up and index restarts

ASSUME PublisherAssumption ==
    /\ Publishers \subseteq Procs
    /\ OneProcess \in BOOLEAN
    /\ HeartbeatS \in Nat /\ MaxRuns \in Nat /\ MaxFaults \in Nat

VARIABLES
    \* the index
    phase, seatsSet, nPeersCap, nonvipCap, vips, peers, pending, now,
    lastPrune, reply, minted, fate,
    \* the clients
    pc,       \* where each process is
    key,      \* ctx->key, or the key redp2p_deregister loaded; 0 when empty
    last,     \* runtime->last_heartbeat
    http,     \* the exchange each process waits for
    late,     \* requests whose client no longer waits
    file,     \* the scoped key file; 0 when absent
    runs, faults

Id == "id"
Pass == "pass"
Info == "info"

idx == INSTANCE Index WITH
    Ids <- {Id}, Passes <- {Pass}, GlobalPass <- Pass, PowBits <- 0,
    Infos <- {Info}, Callers <- {}, SeatCounts <- {}, VipLists <- {},
    PendingTTL <- 0, MaxPending <- 0, ReplyIds <- 0, ReplyCalls <- 0,
    MaxCall <- 0

index == <<phase, seatsSet, nPeersCap, nonvipCap, vips, peers, pending, now,
           lastPrune, reply, minted, fate>>
clients == <<pc, key, last, http, late, file, runs, faults>>
vars == <<index, clients>>

Pcs == {"off", "registering", "saving", "rollback", "loop", "beating",
        "reregistering", "resaving", "unsaving", "leaving", "deleting",
        "erase", "unlink"}
Requests == [op : {"register", "heartbeat", "deregister"}, key : 0 .. MaxKey]
Results == {"waiting", "OK", "ENOENT", "EAUTH", "EFULL", "EINVAL", "ERROR",
            "EPROTO", "ENET", "ETIMEOUT"}

Idle == [op |-> "none", key |-> 0, res |-> "none"]
Ask(op, k) == [op |-> op, key |-> k, res |-> "waiting"]

\* redp2p_http_map_error, and ENET for a connection closed with no reply
MapError(status) ==
    CASE status = "ok" -> "OK"
      [] status = "not_found" -> "ENOENT"
      [] status \in {"auth_failed", "invalid_key"} -> "EAUTH"
      [] status = "table_full" -> "EFULL"
      [] status = "invalid_id" -> "EINVAL"
      [] status = "internal" -> "ERROR"
      [] status = "none" -> "ENET"
      [] OTHER -> "EPROTO"

\* g_key_mutex: held from the load to the unlink of redp2p_remove_key.
KeyLockFree == OneProcess => \A p \in Procs : pc[p] # "unlink"

Init ==
    /\ idx!Init
    /\ pc = [p \in Procs |-> "off"]
    /\ key = [p \in Procs |-> 0]
    /\ last = [p \in Procs |-> 0]
    /\ http = [p \in Procs |-> Idle]
    /\ late = {} /\ file = 0 /\ runs = 0 /\ faults = 0

-----------------------------------------------------------------------------
(***************************************************************************)
(* The index.                                                              *)
(***************************************************************************)
Proof == [pass |-> Pass, id |-> Id, zeros |-> 0]

Handle(r) ==
    \E out \in {"ok", "internal"} :
        \/ r.op = "register" /\ idx!HandleRegister(Id, Proof, Info, out)
        \/ r.op = "heartbeat" /\ idx!HandleHeartbeat(Id, r.key, Info, out)
        \/ r.op = "deregister" /\ idx!HandleDeregister(Id, r.key, out)

Answer(p) ==
    /\ http[p].res = "waiting"
    /\ Handle([op |-> http[p].op, key |-> http[p].key])
    /\ http' = [http EXCEPT ![p].res = MapError(reply'.status),
                            ![p].key = reply'.key]
    /\ UNCHANGED <<pc, key, last, late, file, runs, faults>>

AnswerLate(r) ==
    /\ r \in late
    /\ Handle(r)
    /\ late' = late \ {r}
    /\ UNCHANGED <<pc, key, last, http, file, runs, faults>>

\* The server's own steps.
IndexAlone ==
    /\ idx!Serve \/ idx!Tick \/ idx!Prune
    /\ UNCHANGED clients

\* The index is started again; open connections break.
IndexRestart ==
    /\ phase = "serving" /\ faults < MaxFaults
    /\ faults' = faults + 1
    /\ peers' = [x \in {} |-> peers[x]]
    /\ pending' = {} /\ lastPrune' = now /\ reply' = idx!NoReply
    /\ late' = {}
    /\ http' = [p \in Procs |->
                  IF http[p].res = "waiting" THEN [http[p] EXCEPT !.res = "ENET"]
                  ELSE http[p]]
    /\ UNCHANGED <<phase, seatsSet, nPeersCap, nonvipCap, vips, now, minted,
                   fate, pc, key, last, file, runs>>

-----------------------------------------------------------------------------
(***************************************************************************)
(* redp2p_http_client gives up: the request never arrives, or it does and  *)
(* only its reply is lost.                                                 *)
(***************************************************************************)
GiveUp(p, err, arrives) ==
    /\ http[p].res = "waiting" /\ faults < MaxFaults
    /\ faults' = faults + 1
    /\ http' = [http EXCEPT ![p].res = err]
    /\ late' = IF arrives
                 THEN late \cup {[op |-> http[p].op, key |-> http[p].key]}
                 ELSE late
    /\ UNCHANGED <<index, pc, key, last, file, runs>>

\* What every step of a client leaves alone.
Quiet == UNCHANGED <<index, late, runs, faults>>

Done(p, at) == pc[p] = at /\ http[p].res \notin {"none", "waiting"}

Goto(p, at) == pc' = [pc EXCEPT ![p] = at]
SetKey(p, k) == key' = [key EXCEPT ![p] = k]
Request(p, op, k) == http' = [http EXCEPT ![p] = Ask(op, k)]
EndRequest(p) == http' = [http EXCEPT ![p] = Idle]

\* redp2p_deregister_with_key
DeregisterWithKey(p, k) == Request(p, "deregister", k)

\* redp2p_wait begins with a registration.
StartPublisher(p) ==
    /\ p \in Publishers /\ pc[p] = "off" /\ runs < MaxRuns
    /\ runs' = runs + 1
    /\ Goto(p, "registering") /\ Request(p, "register", 0)
    /\ UNCHANGED <<index, key, last, late, file, faults>>

\* redp2p_publisher_register
Registered(p) ==
    /\ Done(p, "registering") /\ EndRequest(p)
    /\ IF http[p].res = "OK"
         THEN SetKey(p, http[p].key) /\ Goto(p, "saving")
         ELSE Goto(p, "off") /\ UNCHANGED key
    /\ Quiet /\ UNCHANGED <<last, file>>

\* redp2p_save_key: replaced, not replaced, or replaced with the directory
\* not synchronised, which is reported as a failure.
SaveKey(p, outcome) ==
    /\ KeyLockFree
    /\ file' = IF outcome = "unchanged" THEN file ELSE key[p]

\* redp2p_publisher_persist_registration
Persist(p, outcome) ==
    /\ pc[p] = "saving" /\ SaveKey(p, outcome)
    /\ IF outcome = "saved"
         THEN /\ Goto(p, "loop") /\ last' = [last EXCEPT ![p] = now]
              /\ UNCHANGED http
         ELSE /\ Goto(p, "rollback") /\ DeregisterWithKey(p, key[p])
              /\ UNCHANGED last
    /\ Quiet /\ UNCHANGED key

\* Its rollback ignores the answer and removes the file too.
RolledBack(p) ==
    /\ Done(p, "rollback") /\ EndRequest(p)
    /\ Goto(p, "erase")
    /\ Quiet /\ UNCHANGED <<key, last, file>>

\* redp2p_publisher_heartbeat, when it is due
Heartbeat(p) ==
    /\ pc[p] = "loop" /\ now - last[p] >= HeartbeatS
    /\ Goto(p, "beating") /\ Request(p, "heartbeat", key[p])
    /\ Quiet /\ UNCHANGED <<key, last, file>>

\* Mutant: an expired record is waited out instead of registered again.
HeartbeatDoneTolerant(p) ==
    /\ Done(p, "beating") /\ EndRequest(p) /\ Goto(p, "loop")
    /\ last' = [last EXCEPT ![p] = IF http[p].res = "OK" THEN now ELSE @]
    /\ Quiet /\ UNCHANGED <<key, file>>

\* Its answer: accepted; no such record or another key; late; or fatal.
HeartbeatDone(p) ==
    /\ Done(p, "beating")
    /\ \/ /\ http[p].res = "OK"
          /\ Goto(p, "loop") /\ last' = [last EXCEPT ![p] = now]
          /\ EndRequest(p)
       \/ /\ http[p].res \in {"ENOENT", "EAUTH"}
          /\ Goto(p, "reregistering") /\ Request(p, "register", 0)
          /\ UNCHANGED last
       \/ /\ http[p].res = "ETIMEOUT"
          /\ Goto(p, "loop") /\ EndRequest(p) /\ UNCHANGED last
       \/ /\ http[p].res \notin {"OK", "ENOENT", "EAUTH", "ETIMEOUT"}
          /\ Goto(p, "leaving") /\ DeregisterWithKey(p, key[p])
          /\ UNCHANGED last
    /\ Quiet /\ UNCHANGED <<key, file>>

\* redp2p_publisher_reregister
Reregistered(p) ==
    /\ Done(p, "reregistering")
    /\ \/ /\ http[p].res = "OK"
          /\ SetKey(p, http[p].key) /\ Goto(p, "resaving") /\ EndRequest(p)
       \/ /\ http[p].res = "ETIMEOUT"
          /\ Goto(p, "loop") /\ EndRequest(p) /\ UNCHANGED key
       \/ /\ http[p].res \notin {"OK", "ETIMEOUT"}
          /\ Goto(p, "leaving") /\ DeregisterWithKey(p, key[p])
          /\ UNCHANGED key
    /\ Quiet /\ UNCHANGED <<last, file>>

\* Mutant: the new key is kept in memory only.
ResaveSkipped(p, outcome) ==
    /\ pc[p] = "resaving" /\ outcome = "saved"
    /\ Goto(p, "loop") /\ last' = [last EXCEPT ![p] = now]
    /\ Quiet /\ UNCHANGED <<key, http, file>>

\* The end of redp2p_publisher_reregister.  redp2p_key_paths depends on the
\* state directory and on HOME alone; it succeeded when the first registration
\* was persisted, so its failure here, which would skip the save, is left out.
Resave(p, outcome) ==
    /\ pc[p] = "resaving" /\ SaveKey(p, outcome)
    /\ IF outcome = "saved"
         THEN /\ Goto(p, "loop") /\ last' = [last EXCEPT ![p] = now]
              /\ UNCHANGED http
         ELSE /\ Goto(p, "unsaving") /\ DeregisterWithKey(p, key[p])
              /\ UNCHANGED last
    /\ Quiet /\ UNCHANGED key

\* The key is forgotten, the loop ends, and there is nothing to remove.
Unsaved(p) ==
    /\ Done(p, "unsaving") /\ EndRequest(p)
    /\ SetKey(p, 0) /\ Goto(p, "off")
    /\ Quiet /\ UNCHANGED <<last, file>>

\* A requested stop or a fatal error of the loop, then
\* redp2p_publisher_remove_registration.
LoopEnds(p) ==
    /\ pc[p] = "loop"
    /\ Goto(p, "leaving") /\ DeregisterWithKey(p, key[p])
    /\ Quiet /\ UNCHANGED <<key, last, file>>

-----------------------------------------------------------------------------
(***************************************************************************)
(* Deregistration.                                                         *)
(***************************************************************************)

\* redp2p_load_key_path: the key, 0 when there is no file or it cannot be
\* opened, is not a private regular file or does not parse.
LoadKeyPath(loads) == IF loads THEN file ELSE 0

\* redp2p_deregister loads the persisted key.
StartDelete(p) ==
    /\ pc[p] = "off" /\ runs < MaxRuns /\ KeyLockFree
    /\ LoadKeyPath(TRUE) # 0
    /\ runs' = runs + 1
    /\ SetKey(p, LoadKeyPath(TRUE))
    /\ Goto(p, "deleting") /\ DeregisterWithKey(p, LoadKeyPath(TRUE))
    /\ UNCHANGED <<index, last, late, file, faults>>

\* The key file goes only when the index accepted the deregistration.
Deregistered(p) ==
    /\ Done(p, "leaving") \/ Done(p, "deleting")
    /\ EndRequest(p)
    /\ IF http[p].res = "OK" THEN Goto(p, "erase") /\ UNCHANGED key
                             ELSE Goto(p, "off") /\ SetKey(p, 0)
    /\ Quiet /\ UNCHANGED <<last, file>>

\* Mutant: redp2p_remove_key without the comparison.
RemoveKeyLoadAny(p, loads) ==
    /\ pc[p] = "erase" /\ KeyLockFree
    /\ IF LoadKeyPath(loads) # 0 THEN Goto(p, "unlink") /\ UNCHANGED key
                   ELSE Goto(p, "off") /\ SetKey(p, 0)
    /\ Quiet /\ UNCHANGED <<last, http, file>>

\* redp2p_remove_key loads, which may fail, and compares, then unlinks.
RemoveKeyLoad(p, loads) ==
    /\ pc[p] = "erase" /\ KeyLockFree
    /\ IF LoadKeyPath(loads) = key[p]
         THEN Goto(p, "unlink") /\ UNCHANGED key
         ELSE Goto(p, "off") /\ SetKey(p, 0)
    /\ Quiet /\ UNCHANGED <<last, http, file>>

RemoveKeyUnlink(p, removed) ==
    /\ pc[p] = "unlink"
    /\ file' = IF removed THEN 0 ELSE file
    /\ Goto(p, "off") /\ SetKey(p, 0)
    /\ Quiet /\ UNCHANGED <<last, http>>

\* A process dies, and with it all its threads; a request may survive it.
Crash(p, arrives) ==
    LET dead == IF OneProcess THEN Procs ELSE {p}
        sent == {q \in dead : http[q].res = "waiting"}
    IN  /\ pc[p] # "off" /\ faults < MaxFaults
        /\ faults' = faults + 1
        /\ pc' = [q \in Procs |-> IF q \in dead THEN "off" ELSE pc[q]]
        /\ key' = [q \in Procs |-> IF q \in dead THEN 0 ELSE key[q]]
        /\ http' = [q \in Procs |-> IF q \in dead THEN Idle ELSE http[q]]
        /\ late' = IF arrives
                     THEN late \cup {[op |-> http[q].op, key |-> http[q].key]
                                        : q \in sent}
                     ELSE late
        /\ UNCHANGED <<index, last, file, runs>>

Outcomes == {"saved", "unchanged", "unsynced"}

\* The steps a running process takes by itself.
Step(p) ==
    \/ Registered(p) \/ RolledBack(p) \/ Heartbeat(p) \/ HeartbeatDone(p)
    \/ Reregistered(p) \/ Unsaved(p) \/ Deregistered(p)
    \/ \E works \in BOOLEAN :
          RemoveKeyLoad(p, works) \/ RemoveKeyUnlink(p, works)
    \/ \E outcome \in Outcomes : Persist(p, outcome) \/ Resave(p, outcome)

Next ==
    \/ IndexAlone \/ IndexRestart
    \/ \E r \in late : AnswerLate(r)
    \/ \E p \in Procs :
          \/ Step(p) \/ Answer(p) \/ StartPublisher(p) \/ LoopEnds(p)
          \/ StartDelete(p)
          \/ \E arrives \in BOOLEAN :
                \/ Crash(p, arrives)
                \/ \E err \in {"ETIMEOUT", "ENET"} : GiveUp(p, err, arrives)

\* Processes that run keep running, and the index answers.
Fairness == \A p \in Procs : WF_vars(Step(p)) /\ WF_vars(Answer(p))

Spec == Init /\ [][Next]_vars /\ Fairness

-----------------------------------------------------------------------------
(***************************************************************************)
(* Properties.                                                             *)
(***************************************************************************)

\* Types of the clients' state; the index's is in module Index.
TypeOK ==
    /\ idx!TypeOK
    /\ pc \in [Procs -> Pcs]
    /\ key \in [Procs -> 0 .. MaxKey] /\ file \in 0 .. MaxKey
    /\ last \in [Procs -> 0 .. MaxNow]
    /\ late \subseteq Requests
    /\ \A p \in Procs : http[p] = Idle \/ http[p].res \in Results
    /\ runs \in 0 .. MaxRuns /\ faults \in 0 .. MaxFaults

RecordKey == IF Id \in DOMAIN peers THEN peers[Id].key ELSE 0

\* "re-registration never orphans the local key file" (DESIGN.md): while a
\* publisher serves and the index holds its record, the persisted key is the
\* one that removes that record, through expiries, restarts of the index,
\* lost replies, failed saves, crashes and an operator's deregistration.
KeyFileCurrent ==
    \A p \in Publishers :
        pc[p] \in {"loop", "beating"} /\ RecordKey = key[p] /\ key[p] # 0
            => file = key[p]

\* "Removes one persisted path only while it still contains the observed
\* key" (redp2p_remove_key).
RemovesObservedKey ==
    [][file # 0 /\ file' = 0 =>
          \E p \in Procs : pc[p] = "unlink" /\ key[p] = file]_vars

\* A publisher that keeps running is registered again and again under the key
\* it holds and has persisted, whatever happened to its record or to the
\* answers it waited for.
Heals ==
    \A p \in Publishers :
        []<>(pc[p] = "off" \/ (RecordKey = key[p] /\ file = key[p]))
=============================================================================
