------------------------------- MODULE Runner -------------------------------
(***************************************************************************)
(* The runner of src/src/libredp2p.c (kc_redp2p_run and below it): a table *)
(* of slots, one background thread per open slot, and the open, status,    *)
(* stop and close commands of host threads.                                *)
(*                                                                         *)
(* A host thread keeps, as the code does, a pointer into the table between *)
(* the steps of a command, and a service thread keeps one for its whole    *)
(* life.  "gen" counts the times realloc has moved the table: a pointer of *)
(* an older generation leads to freed memory.  What is written through it  *)
(* is lost and what is read is what was there, one outcome of such an      *)
(* access, and the thread is marked as having gone wild.  Service n is the *)
(* n-th open that got as far as a context; its context and its thread are  *)
(* called n too.                                                           *)
(***************************************************************************)
EXTENDS Naturals, Sequences

CONSTANTS
    Hosts,        \* threads of the embedding program
    InitialCap,   \* slots of the first allocation (8 in the code)
    MaxOpens      \* services opened in one behaviour

ASSUME RunnerAssumption == InitialCap \in Nat \ {0} /\ MaxOpens \in Nat

VARIABLES
    table,   \* the slot array: its generation, capacity and used slots
    host,    \* host[h]: the command host thread h is executing
    svc,     \* svc[n]: thread n, and context n
    opened   \* number of contexts created

runnerVars == <<table, host, svc, opened>>

Services == 1 .. MaxOpens

(* kc_redp2p_runner_slot_t; 0 is the null context and the null thread.      *)
FreeSlot == [state |-> "free", result |-> "ok", ctx |-> 0, thread |-> 0]

(* Between commands a host remembers the handle of its last open, and what  *)
(* the last status said.                                                    *)
Idle == [pc |-> "idle", op |-> "none", slot |-> 0, gen |-> 0, n |-> 0,
         said |-> "none"]

(* A service that does not exist yet.  "ctx" is the state of its context,   *)
(* "bad" records a context that was freed twice, "wild" a thread that used  *)
(* its slot pointer after the table had moved.                              *)
NoService == [st |-> "none", slot |-> 0, gen |-> 0, ret |-> "ok",
              stop |-> FALSE, ctx |-> "none", bad |-> FALSE, wild |-> FALSE]

RunnerInit ==
    /\ table = [gen |-> 0, cap |-> 0, slots |-> <<>>]
    /\ host = [h \in Hosts |-> Idle]
    /\ svc = [n \in Services |-> NoService]
    /\ opened = 0

Used == 1 .. Len(table.slots)
Frees == {i \in Used : table.slots[i].state = "free"}

(* A store through a pointer to slot i of the array of generation g.        *)
Store(t, g, i, s) ==
    IF t.gen = g THEN [t EXCEPT !.slots[i] = s] ELSE t

(* redp2p_close on the context of slot s, NULL included.                    *)
CloseCtx(n) ==
    IF n = 0 THEN svc
    ELSE [svc EXCEPT ![n].bad = @ \/ svc[n].ctx = "freed",
                     ![n].ctx = "freed"]

-----------------------------------------------------------------------------
(* An open that fails before it has a slot: a request without a known "op", *)
(* or no memory for a larger table.                                         *)
OpenRefused(h) ==
    /\ host[h].pc = "idle"
    /\ host' = [host EXCEPT ![h] = [Idle EXCEPT !.op = "failed"]]
    /\ UNCHANGED <<table, svc, opened>>

(* kc_redp2p_runner_slot_alloc, under the mutex: the first free slot, else  *)
(* a new one at the end, for which a full array is doubled and may move.    *)
Taken(s) == [s EXCEPT !.state = "running", !.result = "ok", !.thread = 0]

OpenAlloc(h) ==
    /\ host[h].pc = "idle"
    /\ opened < MaxOpens
    /\ \/ /\ Frees # {}
          /\ LET i == CHOOSE i \in Frees : \A j \in Frees : i <= j
             IN  /\ table' = [table EXCEPT !.slots[i] = Taken(@)]
                 /\ host' = [host EXCEPT ![h] =
                      [Idle EXCEPT !.pc = "clear", !.op = "open", !.slot = i,
                                   !.gen = table.gen]]
       \/ /\ Frees = {}
          /\ \E moves \in BOOLEAN :
               LET full == Len(table.slots) >= table.cap
                   t == [gen   |-> IF full /\ moves THEN table.gen + 1
                                                    ELSE table.gen,
                         cap   |-> IF ~full THEN table.cap
                                   ELSE IF table.cap = 0 THEN InitialCap
                                   ELSE 2 * table.cap,
                         slots |-> Append(table.slots, Taken(FreeSlot))]
               IN  /\ moves => full
                   /\ table' = t
                   /\ host' = [host EXCEPT ![h] =
                        [Idle EXCEPT !.pc = "clear", !.op = "open",
                                     !.slot = Len(t.slots), !.gen = t.gen]]
    /\ UNCHANGED <<svc, opened>>

(* The memset of redp2p_runner_open, outside the mutex.                     *)
OpenClear(h) ==
    /\ host[h].pc = "clear"
    /\ table' = Store(table, host[h].gen, host[h].slot, FreeSlot)
    /\ host' = [host EXCEPT ![h].pc = "context"]
    /\ UNCHANGED <<svc, opened>>

(* redp2p_open; a failure gives the slot back.                              *)
OpenContext(h) ==
    /\ host[h].pc = "context"
    /\ opened < MaxOpens
    /\ LET n == opened + 1
           running == [FreeSlot EXCEPT !.state = "running", !.ctx = n]
       IN  \/ /\ opened' = n
              /\ table' = Store(table, host[h].gen, host[h].slot, running)
              /\ svc' = [svc EXCEPT ![n].ctx = "open"]
              /\ host' = [host EXCEPT ![h].pc = "setup", ![h].n = n]
           \/ /\ table' = Store(table, host[h].gen, host[h].slot, FreeSlot)
              /\ host' = [host EXCEPT ![h] = [Idle EXCEPT !.op = "failed"]]
              /\ UNCHANGED <<svc, opened>>

(* The options of the command; any failure closes the context again.        *)
OpenSetup(h) ==
    /\ host[h].pc = "setup"
    /\ \/ /\ host' = [host EXCEPT ![h].pc = "start"]
          /\ UNCHANGED <<table, svc>>
       \/ /\ svc' = CloseCtx(host[h].n)
          /\ table' = Store(table, host[h].gen, host[h].slot, FreeSlot)
          /\ host' = [host EXCEPT ![h] = [Idle EXCEPT !.op = "failed"]]
    /\ UNCHANGED opened

(* redp2p_runner_thread_start, and the handle is returned - or not, when    *)
(* the reply cannot be built: the service then runs in a slot whose handle  *)
(* nobody has.                                                              *)
OpenStart(h) ==
    /\ host[h].pc = "start"
    /\ \/ /\ svc' = [svc EXCEPT ![host[h].n] =
               [@ EXCEPT !.st = "start", !.slot = host[h].slot,
                         !.gen = host[h].gen]]
          /\ table' = IF table.gen = host[h].gen
                        THEN [table EXCEPT !.slots[host[h].slot].thread = host[h].n]
                        ELSE table
          /\ host' \in {[host EXCEPT ![h].pc = "idle"],
                       [host EXCEPT ![h] = [Idle EXCEPT !.op = "unanswered"]]}
       \/ /\ svc' = CloseCtx(host[h].n)
          /\ table' = Store(table, host[h].gen, host[h].slot, FreeSlot)
          /\ host' = [host EXCEPT ![h] = [Idle EXCEPT !.op = "failed"]]
    /\ UNCHANGED opened

(* kc_redp2p_runner_slot_get: the slot of a handle in the present array.    *)
Slot(h) == table.slots[host[h].slot]
HasHandle(h) == host[h].pc = "idle" /\ host[h].slot \in Used

(* redp2p_runner_status.                                                    *)
Status(h) ==
    /\ HasHandle(h)
    /\ host' = [host EXCEPT ![h].op = "status",
                            ![h].said = IF Slot(h).state = "running"
                                          THEN "running" ELSE Slot(h).result]
    /\ UNCHANGED <<table, svc, opened>>

(* Mutant: the service is not told. *)
EndBeginJoinOnly(h, op) ==
    /\ HasHandle(h)
    /\ op \in {"stop", "close"}
    /\ host' = [host EXCEPT ![h].pc = "join", ![h].op = op]
    /\ UNCHANGED <<table, svc, opened>>

(* redp2p_runner_stop and redp2p_runner_close begin alike: a running        *)
(* service is asked to stop (redp2p_stop), then its thread is joined.       *)
EndBegin(h, op) ==
    /\ HasHandle(h)
    /\ op \in {"stop", "close"}
    /\ svc' = IF Slot(h).state = "running" /\ Slot(h).ctx # 0
                THEN [svc EXCEPT ![Slot(h).ctx].stop = TRUE] ELSE svc
    /\ host' = [host EXCEPT ![h].pc = "join", ![h].op = op]
    /\ UNCHANGED <<table, opened>>

Joined(h) == Slot(h).thread # 0 => svc[Slot(h).thread].st = "done"

StopEnd(h) ==
    /\ host[h].pc = "join" /\ host[h].op = "stop"
    /\ Joined(h)
    /\ table' = [table EXCEPT !.slots[host[h].slot] =
                   [@ EXCEPT !.thread = 0, !.state = "finished"]]
    /\ host' = [host EXCEPT ![h].pc = "idle"]
    /\ UNCHANGED <<svc, opened>>

(* Mutant: the pointer to the context stays. *)
ReleasedKeepsContext(s) == [s EXCEPT !.thread = 0, !.state = "free"]

(* What redp2p_runner_close leaves in the slot.                             *)
Released(s) == [s EXCEPT !.thread = 0, !.ctx = 0, !.state = "free"]

CloseEnd(h) ==
    /\ host[h].pc = "join" /\ host[h].op = "close"
    /\ Joined(h)
    /\ svc' = CloseCtx(Slot(h).ctx)
    /\ table' = [table EXCEPT !.slots[host[h].slot] = Released(@)]
    /\ host' = [host EXCEPT ![h].pc = "idle", ![h].op = "closed"]
    /\ UNCHANGED opened

-----------------------------------------------------------------------------
(* redp2p_runner_thread.  The thread uses its slot pointer to the end.      *)
Wild(n) == svc[n].wild \/ svc[n].gen # table.gen

(* It reads the operation, the context and the arguments from its slot.     *)
Begin(n) ==
    /\ svc[n].st = "start"
    /\ svc' = [svc EXCEPT ![n].st = "run", ![n].wild = Wild(n)]
    /\ UNCHANGED <<table, host, opened>>

(* The blocking operation, which goes on reading the index host it borrowed *)
(* from the slot, returns by itself or because of a stop request; then the  *)
(* result and the state are stored.                                         *)
Return(n) ==
    /\ svc[n].st = "run"
    /\ \E r \in {"ok", "error"} :
         svc' = [svc EXCEPT ![n].st = "result", ![n].wild = Wild(n),
                            ![n].ret = r]
    /\ UNCHANGED <<table, host, opened>>

SlotOf(n) == table.slots[svc[n].slot]

StoredFirst(n) == [SlotOf(n) EXCEPT !.result = svc[n].ret]
StoredLast(n) == [SlotOf(n) EXCEPT !.state = "finished"]

(* Mutant: the state is stored before the result. *)
StoreResultSwapped(n) ==
    /\ svc[n].st = "result"
    /\ table' = Store(table, svc[n].gen, svc[n].slot, StoredLast(n))
    /\ svc' = [svc EXCEPT ![n].st = "state", ![n].wild = Wild(n)]
    /\ UNCHANGED <<host, opened>>

StoreResult(n) ==
    /\ svc[n].st = "result"
    /\ table' = Store(table, svc[n].gen, svc[n].slot, StoredFirst(n))
    /\ svc' = [svc EXCEPT ![n].st = "state", ![n].wild = Wild(n)]
    /\ UNCHANGED <<host, opened>>

(* Mutant: the state is not stored. *)
StoreStateNot(n) ==
    /\ svc[n].st = "state"
    /\ svc' = [svc EXCEPT ![n].st = "done", ![n].wild = Wild(n)]
    /\ UNCHANGED <<table, host, opened>>

StoreState(n) ==
    /\ svc[n].st = "state"
    /\ table' = Store(table, svc[n].gen, svc[n].slot, StoredLast(n))
    /\ svc' = [svc EXCEPT ![n].st = "done", ![n].wild = Wild(n)]
    /\ UNCHANGED <<host, opened>>

-----------------------------------------------------------------------------
Command(h) ==
    \/ OpenRefused(h) \/ OpenAlloc(h) \/ OpenClear(h) \/ OpenContext(h)
    \/ OpenSetup(h) \/ OpenStart(h)
    \/ Status(h) \/ EndBegin(h, "stop") \/ EndBegin(h, "close")
    \/ StopEnd(h) \/ CloseEnd(h)

Thread(n) == Begin(n) \/ Return(n) \/ StoreResult(n) \/ StoreState(n)

RunnerNext == (\E h \in Hosts : Command(h)) \/ (\E n \in Services : Thread(n))

-----------------------------------------------------------------------------
(* The types of the variables.                                              *)
SlotType == [state : {"free", "running", "finished"}, result : {"ok", "error"},
             ctx : 0 .. MaxOpens, thread : 0 .. MaxOpens]
RunnerTypeOK ==
    /\ table.gen \in Nat /\ table.cap \in Nat
    /\ Len(table.slots) <= table.cap
    /\ \A i \in Used : table.slots[i] \in SlotType
    /\ opened \in 0 .. MaxOpens
    /\ \A h \in Hosts : host[h].slot \in 0 .. Len(table.slots)
    /\ \A n \in Services : svc[n].slot \in 0 .. Len(table.slots)

(* A thread never works on a released context, nor through a pointer into a *)
(* slot table that has moved, and no context is released twice, however     *)
(* open, stop, close and a second close of the same handle follow each      *)
(* other (redp2p_runner_thread_join before redp2p_close, the NULL left in   *)
(* the slot, and the slot pointer of redp2p_runner_thread).                 *)
ContextOwned ==
    \A n \in Services :
        /\ svc[n].st \in {"start", "run", "result"} => svc[n].ctx = "open"
        /\ ~svc[n].bad /\ ~svc[n].wild

(* The slot of an open handle tells the truth: a service whose thread has   *)
(* ended is not "running", one whose thread runs is (redp2p_runner_status   *)
(* has nothing else to report from; src/DESIGN.md:203 says that "status     *)
(* reports running or finished state").                                     *)
StatusTrue ==
    \A i \in Used : \A n \in Services :
        (table.slots[i].ctx = n /\ table.slots[i].thread = n) =>
            /\ svc[n].st = "done" => table.slots[i].state = "finished"
            /\ svc[n].st \in {"start", "run"} =>
                  table.slots[i].state = "running"
=============================================================================
