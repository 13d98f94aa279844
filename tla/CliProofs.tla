----------------------------- MODULE CliProofs -----------------------------
(***************************************************************************)
(* Theorems about the runner (module Runner) as the command line program   *)
(* and an embedding host use it (module Cli), for any number of services:  *)
(* while the table has its first allocation contexts are never used after  *)
(* they were freed nor freed twice and the status of a slot is true; the   *)
(* program's exit is clean and truthful.                                   *)
(***************************************************************************)
EXTENDS Cli, WellFoundedInduction, TLAPS

USE RunnerAssumption, CliAssumption

(* The types the proofs need of the runner's state.                         *)
HostType == [pc : {"idle", "clear", "context", "setup", "start", "join"},
             op : {"none", "open", "failed", "unanswered", "status", "stop",
                   "close", "closed"},
             slot : Nat, gen : Nat, n : 0 .. MaxOpens,
             said : {"none", "running", "ok", "error"}]
ServiceType == [st : {"none", "start", "run", "result", "state", "done"},
                slot : Nat, gen : Nat, ret : {"ok", "error"}, stop : BOOLEAN,
                ctx : {"none", "open", "freed"}, bad : BOOLEAN,
                wild : BOOLEAN]
TableType == [gen : Nat, cap : Nat, slots : Seq(SlotType)]

Shape ==
    /\ table \in TableType
    /\ host \in [{main} -> HostType]
    /\ svc \in [Services -> ServiceType]
    /\ opened \in 0 .. MaxOpens

Working == {"start", "run", "result", "state"}
Opening == {"clear", "context", "setup", "start"}

(* A slot's context is open and its own; its thread works on that context;  *)
(* a free slot has none.                                                    *)
SlotOwned(i) ==
    LET s == table.slots[i]
    IN  /\ s.ctx # 0 => s.ctx <= opened /\ svc[s.ctx].ctx = "open"
        /\ s.thread \in {0, s.ctx}
        /\ s.state = "free" => s.ctx = 0

(* A thread that works is still in its slot, so whoever frees the slot's    *)
(* context has to join it first.                                            *)
ThreadOwned(n) ==
    svc[n].st \in Working =>
        svc[n].slot \in Used /\ table.slots[svc[n].slot].thread = n

OwnedInv ==
    /\ \A i \in Used : SlotOwned(i)
    /\ \A i, j \in Used :
          table.slots[i].ctx = table.slots[j].ctx /\ table.slots[i].ctx # 0 =>
             i = j
    /\ \A n \in Services : n > opened => svc[n] = NoService
    /\ \A n \in Services : ThreadOwned(n)
    /\ \A n \in Services : ~svc[n].bad

(* What the host's pointer into the table is worth at each step of open,    *)
(* stop and close.                                                          *)
HostInv ==
    LET me == host[main]
        s == table.slots[me.slot]
    IN  /\ me.pc \in Opening \cup {"join"} => me.slot \in Used
        /\ me.pc \in Opening => me.gen = table.gen
        /\ me.pc \in {"clear", "context"} => s.ctx = 0
        /\ me.pc \in {"setup", "start"} =>
              /\ me.n \in 1 .. opened /\ s.ctx = me.n /\ s.thread = 0
              /\ svc[me.n].st = "none"

RunnerIInv == Shape /\ OwnedInv /\ HostInv

-----------------------------------------------------------------------------
(* Lemmas about the table.                                                  *)

(* A store into a slot: what it changes and what it leaves.                 *)
LEMMA TableWrite ==
    ASSUME Shape, NEW i \in Used, NEW s \in SlotType
    PROVE  LET t == [table EXCEPT !.slots[i] = s]
           IN  /\ t \in TableType
               /\ t.gen = table.gen /\ t.cap = table.cap
               /\ Len(t.slots) = Len(table.slots)
               /\ t.slots[i] = s
               /\ \A j \in Used : j # i => t.slots[j] = table.slots[j]
  <1>1. table \in TableType /\ table.slots \in Seq(SlotType)
        /\ Used = 1 .. Len(table.slots) /\ Len(table.slots) \in Nat
    BY DEF Shape, TableType, Used
  <1> DEFINE q == [table.slots EXCEPT ![i] = s]
  <1>2. /\ q \in Seq(SlotType) /\ Len(q) = Len(table.slots)
        /\ q[i] = s /\ \A j \in Used : j # i => q[j] = table.slots[j]
    BY <1>1
  <1>3. [table EXCEPT !.slots[i] = s] = [table EXCEPT !.slots = q]
    OBVIOUS
  <1> HIDE DEF q
  <1> DEFINE t == [table EXCEPT !.slots = q]
  <1>4. /\ t \in TableType /\ t.gen = table.gen /\ t.cap = table.cap
        /\ t.slots = q
    BY <1>1, <1>2 DEF TableType
  <1>5. QED
    BY <1>1, <1>2, <1>3, <1>4

(* The slots of an enlarged table.                                          *)
LEMMA TableAppend ==
    ASSUME Shape, NEW s \in SlotType
    PROVE  LET q == Append(table.slots, s)
           IN  /\ q \in Seq(SlotType) /\ Len(q) = Len(table.slots) + 1
               /\ q[Len(table.slots) + 1] = s
               /\ \A j \in Used : q[j] = table.slots[j]
  <1>1. table.slots \in Seq(SlotType) /\ Used = 1 .. Len(table.slots)
    BY DEF Shape, TableType, Used
  <1>2. QED
    BY <1>1

(* One field of a slot written, the others left.                            *)
LEMMA SlotFields ==
    ASSUME NEW s \in SlotType
    PROVE  /\ \A v \in {"free", "running", "finished"} :
                LET r == [s EXCEPT !.state = v]
                IN  /\ r \in SlotType /\ r.state = v /\ r.result = s.result
                    /\ r.ctx = s.ctx /\ r.thread = s.thread
           /\ \A v \in {"ok", "error"} :
                LET r == [s EXCEPT !.result = v]
                IN  /\ r \in SlotType /\ r.result = v /\ r.state = s.state
                    /\ r.ctx = s.ctx /\ r.thread = s.thread
           /\ \A v \in 0 .. MaxOpens :
                LET r == [s EXCEPT !.ctx = v]
                IN  /\ r \in SlotType /\ r.ctx = v /\ r.state = s.state
                    /\ r.result = s.result /\ r.thread = s.thread
           /\ \A v \in 0 .. MaxOpens :
                LET r == [s EXCEPT !.thread = v]
                IN  /\ r \in SlotType /\ r.thread = v /\ r.state = s.state
                    /\ r.result = s.result /\ r.ctx = s.ctx
  <1> DEFINE B == 0 .. MaxOpens
  <1> HIDE DEF B
  <1>1. SlotType = [state : {"free", "running", "finished"},
                    result : {"ok", "error"}, ctx : B, thread : B]
    BY DEF SlotType, B
  <1>2. ASSUME NEW v \in {"free", "running", "finished"}
        PROVE  LET r == [s EXCEPT !.state = v]
               IN  /\ r \in SlotType /\ r.state = v /\ r.result = s.result
                   /\ r.ctx = s.ctx /\ r.thread = s.thread
    BY <1>1
  <1>3. ASSUME NEW v \in {"ok", "error"}
        PROVE  LET r == [s EXCEPT !.result = v]
               IN  /\ r \in SlotType /\ r.result = v /\ r.state = s.state
                   /\ r.ctx = s.ctx /\ r.thread = s.thread
    BY <1>1
  <1>4. ASSUME NEW v \in B
        PROVE  LET r == [s EXCEPT !.ctx = v]
               IN  /\ r \in SlotType /\ r.ctx = v /\ r.state = s.state
                   /\ r.result = s.result /\ r.thread = s.thread
    BY <1>1
  <1>5. ASSUME NEW v \in B
        PROVE  LET r == [s EXCEPT !.thread = v]
               IN  /\ r \in SlotType /\ r.thread = v /\ r.state = s.state
                   /\ r.result = s.result /\ r.ctx = s.ctx
    BY <1>1
  <1>6. QED
    BY <1>2, <1>3, <1>4, <1>5 DEF B

(* The slot values the commands write.                                      *)
LEMMA SlotValues ==
    /\ FreeSlot \in SlotType /\ FreeSlot.ctx = 0 /\ FreeSlot.thread = 0
    /\ FreeSlot.state = "free"
    /\ \A s \in SlotType :
         /\ Taken(s) \in SlotType /\ Taken(s).ctx = s.ctx
         /\ Taken(s).thread = 0 /\ Taken(s).state = "running"
         /\ Released(s) \in SlotType /\ Released(s).ctx = 0
         /\ Released(s).thread = 0 /\ Released(s).state = "free"
  <1>1. FreeSlot \in SlotType /\ FreeSlot.ctx = 0 /\ FreeSlot.thread = 0
        /\ FreeSlot.state = "free"
    BY DEF FreeSlot, SlotType
  <1> DEFINE B == 0 .. MaxOpens
  <1>2. 0 \in B
    OBVIOUS
  <1> HIDE DEF B
  <1>3. SlotType = [state : {"free", "running", "finished"},
                    result : {"ok", "error"}, ctx : B, thread : B]
    BY DEF SlotType, B
  <1>4. ASSUME NEW s \in SlotType
        PROVE  /\ Taken(s) \in SlotType /\ Taken(s).ctx = s.ctx
               /\ Taken(s).thread = 0 /\ Taken(s).state = "running"
    BY <1>2, <1>3 DEF Taken
  <1>5. ASSUME NEW s \in SlotType
        PROVE  /\ Released(s) \in SlotType /\ Released(s).ctx = 0
               /\ Released(s).thread = 0 /\ Released(s).state = "free"
    BY <1>2, <1>3 DEF Released
  <1>6. QED
    BY <1>1, <1>4, <1>5

(* The host when its open has been given slot i of generation g.            *)
Opener(i, g) ==
    [Idle EXCEPT !.pc = "clear", !.op = "open", !.slot = i, !.gen = g]

(* The host between its commands, and at the start of an open.              *)
LEMMA HostValues ==
    /\ Idle \in HostType /\ Idle.pc = "idle" /\ Idle.slot = 0
    /\ \A i, g \in Nat :
         /\ Opener(i, g) \in HostType /\ Opener(i, g).pc = "clear"
         /\ Opener(i, g).op = "open" /\ Opener(i, g).slot = i
         /\ Opener(i, g).gen = g
    /\ \A v \in {"failed", "unanswered"} :
         LET me == [Idle EXCEPT !.op = v]
         IN  me \in HostType /\ me.pc = "idle" /\ me.op = v /\ me.slot = 0
  <1> DEFINE B == 0 .. MaxOpens
  <1>1. 0 \in B
    OBVIOUS
  <1> HIDE DEF B
  <1>2. HostType =
          [pc : {"idle", "clear", "context", "setup", "start", "join"},
           op : {"none", "open", "failed", "unanswered", "status", "stop",
                 "close", "closed"},
           slot : Nat, gen : Nat, n : B,
           said : {"none", "running", "ok", "error"}]
    BY DEF HostType, B
  <1>3. Idle \in HostType /\ Idle.pc = "idle" /\ Idle.slot = 0
    BY <1>1, <1>2 DEF Idle
  <1>4. ASSUME NEW i \in Nat, NEW g \in Nat
        PROVE  /\ Opener(i, g) \in HostType /\ Opener(i, g).pc = "clear"
               /\ Opener(i, g).op = "open" /\ Opener(i, g).slot = i
               /\ Opener(i, g).gen = g
    BY <1>1, <1>2 DEF Idle, Opener
  <1>5. ASSUME NEW v \in {"failed", "unanswered"}
        PROVE  LET me == [Idle EXCEPT !.op = v]
               IN  me \in HostType /\ me.pc = "idle" /\ me.op = v /\ me.slot = 0
    BY <1>1, <1>2 DEF Idle
  <1>6. QED
    BY <1>3, <1>4, <1>5

(* The initial table is empty.                                              *)
LEMMA RunnerIInvInit == Init => RunnerIInv
  <1> SUFFICES ASSUME Init PROVE RunnerIInv
    OBVIOUS
  <1>1. /\ table = [gen |-> 0, cap |-> 0, slots |-> <<>>]
        /\ host = [h \in {main} |-> Idle] /\ svc = [n \in Services |-> NoService]
        /\ opened = 0
    BY DEF Init, RunnerInit
  <1>2. Idle \in HostType /\ Idle.pc = "idle"
    BY DEF Idle, HostType
  <1>3. NoService \in ServiceType /\ NoService.st = "none"
        /\ NoService.bad = FALSE
    BY DEF NoService, ServiceType
  <1>4. Shape
    BY <1>1, <1>2, <1>3 DEF Shape, TableType
  <1>5. Used = {}
    BY <1>1 DEF Used
  <1>6. OwnedInv
    BY <1>1, <1>3, <1>5 DEF OwnedInv, ThreadOwned, Working
  <1>7. HostInv
    BY <1>1, <1>2 DEF HostInv, Opening
  <1>8. QED
    BY <1>4, <1>6, <1>7 DEF RunnerIInv

-----------------------------------------------------------------------------
(* Steps that keep the ownership of contexts and threads.                   *)

(* Nothing in the table changes, and no thread starts (redp2p_runner_status, *)
(* the stop request of redp2p_runner_stop, a service that returns).         *)
LEMMA OwnedKept ==
    ASSUME RunnerIInv, table' = table, opened' = opened,
           svc' \in [Services -> ServiceType],
           \A n \in Services :
              /\ svc'[n].ctx = svc[n].ctx
              /\ svc'[n].bad = svc[n].bad
              /\ svc'[n].slot = svc[n].slot
              /\ svc'[n].st \in Working => svc[n].st \in Working
              /\ n > opened => svc'[n] = svc[n]
    PROVE  OwnedInv'
  <1>1. Used' = Used
    BY DEF Used
  <1>2. \A i \in Used : table.slots[i] \in SlotType
    BY DEF RunnerIInv, Shape, TableType, Used
  <1>3. \A i \in Used : SlotOwned(i)'
    BY <1>2 DEF RunnerIInv, OwnedInv, SlotOwned, SlotType, Shape, Services
  <1>4. \A n \in Services : ThreadOwned(n)'
    BY <1>1 DEF RunnerIInv, OwnedInv, ThreadOwned
  <1>5. QED
    BY <1>1, <1>3, <1>4 DEF RunnerIInv, OwnedInv

(* Slot i is written: it keeps its context, loses it or gets a new one, the *)
(* contexts of the other slots stay, and so does every working thread.      *)
LEMMA OwnedWrite ==
    ASSUME RunnerIInv, NEW i \in Used, NEW s \in SlotType,
           table' = [table EXCEPT !.slots[i] = s],
           opened' \in 0 .. MaxOpens, opened <= opened',
           svc' \in [Services -> ServiceType],
           s.thread \in {0, s.ctx}, s.state = "free" => s.ctx = 0,
           s.ctx # 0 => /\ s.ctx <= opened' /\ svc'[s.ctx].ctx = "open"
                        /\ s.ctx = table.slots[i].ctx \/ s.ctx > opened,
           \A n \in Services :
              /\ \/ svc'[n].ctx = svc[n].ctx
                 \/ n = table.slots[i].ctx
                 \/ n > opened
              /\ svc'[n].st \in Working =>
                    \/ svc'[n].slot = i /\ s.thread = n
                    \/ /\ svc[n].st \in Working /\ svc'[n].slot = svc[n].slot
                       /\ svc[n].slot # i
              /\ ~svc'[n].bad
              /\ n > opened' => svc'[n] = NoService
    PROVE  OwnedInv'
  <1>1. /\ table'.gen = table.gen /\ Len(table'.slots) = Len(table.slots)
        /\ table'.slots[i] = s
        /\ \A j \in Used : j # i => table'.slots[j] = table.slots[j]
    BY TableWrite DEF RunnerIInv
  <1>2. Used' = Used
    BY <1>1 DEF Used
  <1>3. \A j \in Used : table.slots[j] \in SlotType
    BY DEF RunnerIInv, Shape, TableType, Used
  <1>4. ASSUME NEW j \in Used PROVE SlotOwned(j)'
    <2>1. CASE j = i
      BY <1>1, <2>1 DEF SlotOwned
    <2>2. CASE j # i
      <3>1. table'.slots[j] = table.slots[j] /\ SlotOwned(j)
        BY <1>1, <2>2 DEF RunnerIInv, OwnedInv
      <3>2. table.slots[j].ctx # 0 => table.slots[j].ctx # table.slots[i].ctx
        BY <2>2 DEF RunnerIInv, OwnedInv
      <3>3. table.slots[j].ctx # 0 => table.slots[j].ctx \in Services
        BY <1>3 DEF SlotType, Services
      <3>4. opened \in Nat /\ opened' \in Nat
            /\ table.slots[j].ctx \in Nat
        BY <1>3 DEF RunnerIInv, Shape, SlotType
      <3>5. QED
        BY <3>1, <3>2, <3>3, <3>4 DEF SlotOwned
    <2>3. QED
      BY <2>1, <2>2
  <1>5. ASSUME NEW j \in Used, NEW k \in Used,
               table'.slots[j].ctx = table'.slots[k].ctx,
               table'.slots[j].ctx # 0
        PROVE  j = k
    <2>1. \A l \in Used : l # i /\ table.slots[l].ctx # 0 =>
             table.slots[l].ctx <= opened
      BY DEF RunnerIInv, OwnedInv, SlotOwned
    <2>2. \A l, m \in Used :
             table.slots[l].ctx = table.slots[m].ctx /\ table.slots[l].ctx # 0 =>
                l = m
      BY DEF RunnerIInv, OwnedInv
    <2>3. opened \in Nat /\ s.ctx \in Nat
      BY DEF RunnerIInv, Shape, SlotType
    <2>4. CASE j = i /\ k # i
      BY <1>1, <1>5, <2>1, <2>2, <2>3, <2>4
    <2>5. CASE j # i /\ k = i
      BY <1>1, <1>5, <2>1, <2>2, <2>3, <2>5
    <2>6. CASE j # i /\ k # i
      BY <1>1, <1>5, <2>2, <2>6
    <2>7. QED
      BY <2>4, <2>5, <2>6
  <1>6. ASSUME NEW n \in Services PROVE ThreadOwned(n)'
    <2>1. ThreadOwned(n)
      BY DEF RunnerIInv, OwnedInv
    <2>2. QED
      BY <1>1, <1>2, <2>1 DEF ThreadOwned
  <1>7. QED
    BY <1>2, <1>4, <1>5, <1>6 DEF OwnedInv

(* No thread works in a slot that holds no thread.                          *)
LEMMA NobodyWorks ==
    ASSUME RunnerIInv, NEW i \in Used, table.slots[i].thread = 0,
           NEW n \in Services, svc[n].st \in Working
    PROVE  svc[n].slot # i
  <1>1. ThreadOwned(n) /\ n # 0
    BY DEF RunnerIInv, OwnedInv, Services
  <1>2. QED
    BY <1>1 DEF ThreadOwned

(* A set of numbers that is not empty has a least one.                      *)
LEMMA LeastNumber ==
    ASSUME NEW S \in SUBSET Nat, S # {}
    PROVE  \E m \in S : \A j \in S : m <= j
  <1>1. \E m \in S : \A j \in S : ~(<<j, m>> \in OpToRel(<, Nat))
    BY NatLessThanWellFounded, WFMin, Zenon
  <1>2. PICK m \in S : \A j \in S : ~(<<j, m>> \in OpToRel(<, Nat))
    BY <1>1
  <1>3. \A j \in S : ~(j < m)
    BY <1>2 DEF OpToRel
  <1>4. QED
    BY <1>3

-----------------------------------------------------------------------------
(* What each step does, in terms of slots and services.                     *)

(* Slot i is written and nothing else of the table.                         *)
SlotWritten(i) ==
    /\ Used' = Used /\ table'.gen = table.gen /\ table'.cap = table.cap
    /\ Len(table'.slots) = Len(table.slots)
    /\ \A j \in Used : j # i => table'.slots[j] = table.slots[j]

SameRun(m) ==
    /\ svc'[m].st = svc[m].st /\ svc'[m].slot = svc[m].slot
    /\ svc'[m].gen = svc[m].gen /\ svc'[m].ret = svc[m].ret
    /\ svc'[m].wild = svc[m].wild

SameHandle == host'[main].slot = host[main].slot /\ host'[main].n = host[main].n
SameCommand == SameHandle /\ host'[main].op = host[main].op

Grows ==
    /\ Len(table.slots) >= table.cap
    /\ table'.cap = IF table.cap = 0 THEN InitialCap ELSE 2 * table.cap

Failed == host'[main].pc = "idle" /\ host'[main].op = "failed"

RefusedDoes ==
    /\ UNCHANGED <<table, svc, opened>>
    /\ host[main].pc = "idle" /\ Failed

AllocDoes ==
    \E i \in Used' :
        /\ host[main].pc = "idle" /\ host'[main].pc = "clear"
        /\ host'[main].op = "open" /\ host'[main].slot = i
        /\ table'.slots[i].ctx = 0 /\ table'.slots[i].thread = 0
        /\ Used' = Used \cup {i}
        /\ i \in Used => table.slots[i].ctx = 0 /\ table.slots[i].thread = 0
        /\ \A j \in Used : j # i => table'.slots[j] = table.slots[j]
        /\ svc' = svc /\ opened' = opened
        /\ \/ /\ table'.gen = table.gen /\ table'.cap = table.cap
              /\ Len(table'.slots) = Len(table.slots)
           \/ /\ Len(table'.slots) = Len(table.slots) + 1
              /\ \/ Grows
                 \/ /\ Len(table.slots) < table.cap
                    /\ table'.gen = table.gen /\ table'.cap = table.cap

(* The slot of an open is cleared, and its context, if it has one, freed.   *)
FailDoes ==
    LET i == host[main].slot
        n == table.slots[i].ctx
    IN  /\ host[main].pc \in Opening
        /\ i \in Used /\ SlotWritten(i) /\ table'.slots[i] = FreeSlot
        /\ opened' = opened
        /\ \A m \in Services : SameRun(m) /\ (m # n => svc'[m] = svc[m])
        /\ n # 0 => n \in Services /\ svc'[n].ctx = "freed"

ContextDoes ==
    LET i == host[main].slot
        n == opened + 1
    IN  /\ host[main].pc = "context"
        /\ i \in Used /\ SlotWritten(i) /\ n \in Services
        /\ table'.slots[i].state = "running" /\ table'.slots[i].ctx = n
        /\ table'.slots[i].thread = 0
        /\ opened' = n /\ svc'[n].ctx = "open" /\ svc'[n].st = "none"
        /\ svc'[n].wild = svc[n].wild
        /\ \A m \in Services : m # n => svc'[m] = svc[m]
        /\ host'[main].pc = "setup" /\ host'[main].op = host[main].op
        /\ host'[main].slot = i /\ host'[main].n = n

SetupDoes ==
    /\ UNCHANGED <<table, svc, opened>>
    /\ host[main].pc = "setup" /\ host'[main].pc = "start" /\ SameCommand

StartDoes ==
    LET i == host[main].slot
        n == host[main].n
    IN  /\ host[main].pc = "start"
        /\ i \in Used /\ SlotWritten(i) /\ n \in Services
        /\ table'.slots[i].thread = n /\ table'.slots[i].ctx = n
        /\ table'.slots[i].state = table.slots[i].state
        /\ opened' = opened
        /\ svc'[n].st = "start" /\ svc'[n].slot = i /\ svc'[n].gen = table.gen
        /\ svc'[n].ctx = "open" /\ svc'[n].wild = svc[n].wild
        /\ \A m \in Services : m # n => svc'[m] = svc[m]
        /\ host'[main].pc = "idle"
        /\ SameCommand \/ host'[main].op = "unanswered"

StatusDoes ==
    /\ UNCHANGED <<table, svc, opened>>
    /\ host[main].slot \in Used
    /\ host'[main].pc = "idle" /\ SameHandle
    /\ host'[main].said = IF Slot(main).state = "running" THEN "running"
                                                         ELSE Slot(main).result

EndBeginDoes(op) ==
    /\ UNCHANGED <<table, opened>>
    /\ host[main].slot \in Used
    /\ host'[main].pc = "join" /\ host'[main].op = op /\ SameHandle
    /\ \A m \in Services : SameRun(m) /\ svc'[m].ctx = svc[m].ctx

StopDoes ==
    LET i == host[main].slot
    IN  /\ host[main].pc = "join" /\ host[main].op = "stop" /\ Joined(main)
        /\ i \in Used /\ SlotWritten(i)
        /\ table'.slots[i].thread = 0 /\ table'.slots[i].state = "finished"
        /\ table'.slots[i].ctx = table.slots[i].ctx
        /\ UNCHANGED <<svc, opened>>
        /\ host'[main].pc = "idle" /\ SameHandle

CloseDoes ==
    LET i == host[main].slot
        n == table.slots[i].ctx
    IN  /\ host[main].pc = "join" /\ host[main].op = "close" /\ Joined(main)
        /\ i \in Used /\ SlotWritten(i)
        /\ table'.slots[i].thread = 0 /\ table'.slots[i].state = "free"
        /\ table'.slots[i].ctx = 0
        /\ opened' = opened
        /\ \A m \in Services : SameRun(m) /\ (m # n => svc'[m] = svc[m])
        /\ n # 0 => n \in Services /\ svc'[n].ctx = "freed"
        /\ host'[main].pc = "idle" /\ SameHandle

ThreadDoes(n) ==
    LET i == svc[n].slot
        s == table.slots[i]
        t == table'.slots[i]
    IN  /\ i \in Used /\ SlotWritten(i)
        /\ host' = host /\ opened' = opened
        /\ \A m \in Services : m # n => svc'[m] = svc[m]
        /\ svc'[n].ctx = svc[n].ctx /\ svc'[n].slot = i
        /\ svc'[n].gen = svc[n].gen /\ svc'[n].wild = Wild(n)
        /\ t.ctx = n /\ t.thread = n /\ s.thread = n
        /\ \/ svc[n].st = "start" /\ svc'[n].st = "run" /\ t = s
           \/ svc[n].st = "run" /\ svc'[n].st = "result" /\ t = s
           \/ /\ svc[n].st = "result" /\ svc'[n].st = "state"
              /\ svc'[n].ret = svc[n].ret /\ t.state = s.state
              /\ svc[n].gen = table.gen => t.result = svc[n].ret
           \/ /\ svc[n].st = "state" /\ svc'[n].st = "done"
              /\ svc'[n].ret = svc[n].ret /\ t.result = s.result
              /\ svc[n].gen = table.gen => t.state = "finished"

-----------------------------------------------------------------------------
(* The steps of redp2p_runner_open.                                         *)

(* An open that gets no slot.                                               *)
LEMMA RefusedKeeps ==
    ASSUME RunnerIInv, OpenRefused(main)
    PROVE  RunnerIInv' /\ RefusedDoes
  <1>1. /\ host[main].pc = "idle" /\ host \in [{main} -> HostType]
        /\ table' = table /\ svc' = svc /\ opened' = opened
        /\ host' = [host EXCEPT ![main] = [Idle EXCEPT !.op = "failed"]]
    BY DEF RunnerIInv, Shape, OpenRefused
  <1>2. /\ host' \in [{main} -> HostType] /\ host'[main].pc = "idle"
        /\ host'[main].op = "failed"
    BY <1>1, HostValues
  <1>3. OwnedInv'
    BY <1>1, OwnedKept DEF RunnerIInv, Shape
  <1>4. QED
    BY <1>1, <1>2, <1>3
       DEF RunnerIInv, Shape, HostInv, Opening, RefusedDoes, Failed

(* The first free slot is taken, or the table grows.                        *)
LEMMA AllocKeeps ==
    ASSUME RunnerIInv, OpenAlloc(main)
    PROVE  RunnerIInv' /\ AllocDoes
  <1>0. /\ table \in TableType /\ table.slots \in Seq(SlotType)
        /\ host \in [{main} -> HostType]
        /\ \A i \in Used : table.slots[i] \in SlotType
        /\ svc' = svc /\ opened' = opened /\ host[main].pc = "idle"
    <2>1. svc' = svc /\ opened' = opened /\ host[main].pc = "idle"
      BY DEF OpenAlloc
    <2>2. QED
      BY <2>1 DEF RunnerIInv, Shape, TableType, Used
  <1>1. CASE Frees # {}
    <2> DEFINE i == CHOOSE i \in Frees : \A j \in Frees : i <= j
               s == Taken(table.slots[i])
               me == Opener(i, table.gen)
    <2>1. /\ table' = [table EXCEPT !.slots[i] = s]
          /\ host' = [host EXCEPT ![main] = me]
      BY <1>1, Zenon DEF OpenAlloc, Opener
    <2>2. i \in Frees
      <3>1. Frees \subseteq Nat
        BY DEF Frees, Used
      <3>2. PICK m \in Frees : \A j \in Frees : m <= j
        BY <1>1, <3>1, LeastNumber
      <3>3. QED
        BY <3>2, Zenon
    <2> HIDE DEF i
    <2>3. /\ i \in Used /\ i \in Nat /\ table.slots[i].state = "free"
          /\ table.slots[i].ctx = 0 /\ table.slots[i].thread = 0
      BY <2>2 DEF RunnerIInv, OwnedInv, SlotOwned, Frees, Used
    <2>4. /\ s \in SlotType /\ s.ctx = 0 /\ s.thread = 0 /\ s.state = "running"
      BY <1>0, <2>3, SlotValues
    <2> HIDE DEF s
    <2>5. /\ me \in HostType /\ me.pc = "clear" /\ me.slot = i
          /\ me.gen = table.gen /\ me.op = "open"
      BY <1>0, <2>3, HostValues DEF TableType
    <2> HIDE DEF me
    <2>6. /\ table' \in TableType /\ table'.gen = table.gen
          /\ table'.cap = table.cap
          /\ table'.slots[i] = s /\ Len(table'.slots) = Len(table.slots)
          /\ \A j \in Used : j # i => table'.slots[j] = table.slots[j]
      BY <2>1, <2>3, <2>4, TableWrite DEF RunnerIInv
    <2>7. Shape'
      BY <1>0, <2>1, <2>5, <2>6 DEF RunnerIInv, Shape
    <2>8. OwnedInv'
      <3>1. \A n \in Services : svc[n].st \in Working => svc[n].slot # i
        BY <2>3, NobodyWorks
      <3>2. \A n \in Services : ~svc[n].bad /\ (n > opened => svc[n] = NoService)
        BY DEF RunnerIInv, OwnedInv
      <3>3. opened \in 0 .. MaxOpens /\ svc \in [Services -> ServiceType]
        BY DEF RunnerIInv, Shape
      <3>4. QED
        BY <1>0, <2>1, <2>3, <2>4, <3>1, <3>2, <3>3, OwnedWrite
    <2>9. HostInv'
      <3>1. host'[main] = me /\ i \in Used'
        BY <1>0, <2>1, <2>3, <2>6 DEF Used
      <3>2. QED
        BY <2>4, <2>5, <2>6, <3>1 DEF HostInv, Opening
    <2>10. AllocDoes
      <3>1. host'[main] = me /\ i \in Used' /\ Used' = Used \cup {i}
        BY <1>0, <2>1, <2>3, <2>6 DEF Used
      <3>2. QED
        BY <1>0, <2>3, <2>4, <2>5, <2>6, <3>1 DEF AllocDoes
    <2>11. QED
      BY <2>7, <2>8, <2>9, <2>10 DEF RunnerIInv
  <1>2. CASE Frees = {}
    <2> DEFINE s == Taken(FreeSlot)
               q == Append(table.slots, s)
    <2>1. s \in SlotType /\ s.ctx = 0 /\ s.thread = 0 /\ s.state = "running"
      BY SlotValues
    <2> HIDE DEF s
    <2>2. /\ q \in Seq(SlotType) /\ Len(q) = Len(table.slots) + 1
          /\ q[Len(table.slots) + 1] = s
          /\ \A j \in Used : q[j] = table.slots[j]
      BY <2>1, TableAppend DEF RunnerIInv
    <2> PICK l \in Nat : l = Len(q)
      BY <2>2
    <2>3. PICK g \in Nat, c \in Nat :
            /\ table' = [gen |-> g, cap |-> c, slots |-> q]
            /\ host' = [host EXCEPT ![main] = Opener(l, g)]
            /\ \/ /\ Len(table.slots) >= table.cap
                  /\ c = IF table.cap = 0 THEN InitialCap ELSE 2 * table.cap
               \/ /\ Len(table.slots) < table.cap
                  /\ g = table.gen /\ c = table.cap
      <3>1. PICK moves \in BOOLEAN :
              LET full == Len(table.slots) >= table.cap
                  t == [gen   |-> IF full /\ moves THEN table.gen + 1
                                                   ELSE table.gen,
                        cap   |-> IF ~full THEN table.cap
                                  ELSE IF table.cap = 0 THEN InitialCap
                                  ELSE 2 * table.cap,
                        slots |-> q]
              IN  /\ moves => full
                  /\ table' = t
                  /\ host' = [host EXCEPT ![main] =
                       [Idle EXCEPT !.pc = "clear", !.op = "open",
                                    !.slot = Len(t.slots), !.gen = t.gen]]
        BY <1>2, Zenon DEF OpenAlloc, s
      <3> HIDE DEF q
      <3> DEFINE full == Len(table.slots) >= table.cap
                 g == IF full /\ moves THEN table.gen + 1 ELSE table.gen
                 c == IF ~full THEN table.cap
                      ELSE IF table.cap = 0 THEN InitialCap ELSE 2 * table.cap
      <3>2. g \in Nat /\ c \in Nat
        BY <1>0 DEF TableType
      <3>3. table' = [gen |-> g, cap |-> c, slots |-> q]
        BY <3>1
      <3> HIDE DEF g, c
      <3>4. host' = [host EXCEPT ![main] = Opener(l, g)]
        BY <3>1, <3>3 DEF g, c, Opener
      <3>5. \/ /\ Len(table.slots) >= table.cap
               /\ c = IF table.cap = 0 THEN InitialCap ELSE 2 * table.cap
            \/ /\ Len(table.slots) < table.cap
               /\ g = table.gen /\ c = table.cap
        <4>1. Len(table.slots) \in Nat /\ table.cap \in Nat
          BY <1>0 DEF TableType
        <4>2. QED
          BY <4>1 DEF g, c
      <3>6. QED
        BY <3>2, <3>3, <3>4, <3>5
    <2>4. /\ table'.slots = q /\ table'.gen = g /\ table' \in TableType
          /\ table'.cap = c
          /\ Len(table.slots) \in Nat
      BY <1>0, <2>2, <2>3 DEF TableType
    <2> HIDE DEF q
    <2>5. Used' = Used \cup {l} /\ l \notin Used /\ l \in Used' /\ l \in Nat
      BY <2>2, <2>4 DEF Used
    <2>6. /\ Opener(l, g) \in HostType /\ Opener(l, g).pc = "clear"
          /\ Opener(l, g).slot = l /\ Opener(l, g).gen = g
          /\ Opener(l, g).op = "open"
      BY HostValues
    <2>7. Shape'
      BY <1>0, <2>3, <2>4, <2>6 DEF RunnerIInv, Shape
    <2>8. OwnedInv'
      <3>1. /\ table'.slots[l] = s
            /\ \A j \in Used : table'.slots[j] = table.slots[j]
        BY <2>2, <2>4
      <3>2. \A j \in Used : SlotOwned(j)'
        BY <1>0, <3>1 DEF RunnerIInv, OwnedInv, SlotOwned
      <3>3. SlotOwned(l)'
        BY <2>1, <3>1 DEF SlotOwned
      <3>4. \A n \in Services : ThreadOwned(n)'
        BY <1>0, <2>5, <3>1 DEF RunnerIInv, OwnedInv, ThreadOwned
      <3>5. \A j, k \in Used' :
               table'.slots[j].ctx = table'.slots[k].ctx
               /\ table'.slots[j].ctx # 0 => j = k
        BY <2>1, <2>5, <3>1 DEF RunnerIInv, OwnedInv
      <3>6. QED
        BY <1>0, <2>5, <3>2, <3>3, <3>4, <3>5 DEF RunnerIInv, OwnedInv
    <2>9. HostInv'
      <3>1. host'[main] = Opener(l, g) /\ table'.slots[l] = s
        BY <1>0, <2>2, <2>3, <2>4
      <3>2. QED
        BY <2>1, <2>4, <2>5, <2>6, <3>1 DEF HostInv, Opening
    <2>10. AllocDoes
      <3>1. /\ host'[main] = Opener(l, g) /\ table'.slots[l] = s
            /\ \A j \in Used : table'.slots[j] = table.slots[j]
            /\ Len(table'.slots) = Len(table.slots) + 1
        BY <1>0, <2>2, <2>3, <2>4
      <3>2. \/ Grows
            \/ /\ Len(table.slots) < table.cap
               /\ table'.gen = table.gen /\ table'.cap = table.cap
        BY <2>3, <2>4 DEF Grows
      <3>3. QED
        BY <1>0, <2>1, <2>5, <2>6, <3>1, <3>2 DEF AllocDoes
    <2>11. QED
      BY <2>7, <2>8, <2>9, <2>10 DEF RunnerIInv
  <1>3. QED
    BY <1>1, <1>2

(* What an open in progress has: a slot of the present table, which no      *)
(* thread works on.                                                         *)
LEMMA OpeningSlot ==
    ASSUME RunnerIInv, host[main].pc \in Opening
    PROVE  /\ host[main] \in HostType
           /\ host[main].slot \in Used /\ host[main].slot \in Nat
           /\ host[main].gen = table.gen
           /\ table.slots[host[main].slot] \in SlotType
           /\ table.slots[host[main].slot].thread = 0
           /\ \A s : Store(table, host[main].gen, host[main].slot, s) =
                       [table EXCEPT !.slots[host[main].slot] = s]
  <1>1. /\ host[main] \in HostType /\ host[main].slot \in Used
        /\ host[main].slot \in Nat /\ host[main].gen = table.gen
    BY DEF RunnerIInv, Shape, HostInv, Used
  <1>2. table.slots[host[main].slot] \in SlotType
    BY <1>1 DEF RunnerIInv, Shape, TableType, Used
  <1>3. SlotOwned(host[main].slot)
    BY <1>1 DEF RunnerIInv, OwnedInv
  <1>4. table.slots[host[main].slot].thread = 0
    BY <1>3 DEF RunnerIInv, HostInv, Opening, SlotOwned
  <1>5. QED
    BY <1>1, <1>2, <1>4 DEF Store

(* A context released: the others stay, and it was open.                    *)
LEMMA ContextFreed ==
    ASSUME RunnerIInv, NEW i \in Used, table.slots[i].ctx # 0
    PROVE  LET n == table.slots[i].ctx
               v == CloseCtx(n)
           IN  /\ n \in Services /\ n <= opened
               /\ v \in [Services -> ServiceType]
               /\ v[n].ctx = "freed" /\ ~v[n].bad /\ v[n].st = svc[n].st
               /\ v[n].slot = svc[n].slot /\ v[n].gen = svc[n].gen
               /\ v[n].ret = svc[n].ret /\ v[n].wild = svc[n].wild
               /\ \A m \in Services : m # n => v[m] = svc[m]
  <1> DEFINE n == table.slots[i].ctx
  <1>1. /\ n \in Services /\ n # 0 /\ n <= opened
        /\ svc[n].ctx = "open" /\ ~svc[n].bad
    <2>1. table.slots[i] \in SlotType /\ SlotOwned(i)
      BY DEF RunnerIInv, OwnedInv, Shape, TableType, Used
    <2>2. n \in Services
      BY <2>1 DEF SlotType, Services
    <2>3. QED
      BY <2>1, <2>2 DEF SlotOwned, RunnerIInv, OwnedInv
  <1> HIDE DEF n
  <1> DEFINE a == [svc[n] EXCEPT !.bad = @ \/ svc[n].ctx = "freed"]
             b == [a EXCEPT !.ctx = "freed"]
  <1>2. svc \in [Services -> ServiceType] /\ svc[n] \in ServiceType
    BY <1>1 DEF RunnerIInv, Shape
  <1>3. CloseCtx(n) = [svc EXCEPT ![n] = b]
    BY <1>1, <1>2 DEF CloseCtx
  <1>4. /\ a \in ServiceType /\ a.bad = FALSE /\ a.st = svc[n].st
        /\ a.ret = svc[n].ret /\ a.slot = svc[n].slot /\ a.gen = svc[n].gen
        /\ a.wild = svc[n].wild
    BY <1>1, <1>2 DEF ServiceType
  <1> HIDE DEF a
  <1>5. /\ b \in ServiceType /\ b.bad = FALSE /\ b.st = a.st /\ b.ctx = "freed"
        /\ b.ret = a.ret /\ b.slot = a.slot /\ b.gen = a.gen
        /\ b.wild = a.wild
    BY <1>4 DEF ServiceType
  <1> HIDE DEF b
  <1>6. QED
    BY <1>1, <1>2, <1>3, <1>4, <1>5 DEF n

(* An open in progress gives its slot back, after it has released the       *)
(* context if it had one; or the slot is cleared before there is one.       *)
LEMMA GiveBack ==
    ASSUME RunnerIInv, host[main].pc \in Opening,
           table' = Store(table, host[main].gen, host[main].slot, FreeSlot),
           opened' = opened,
           \/ /\ host[main].pc \in {"clear", "context"}
              /\ svc' = svc
           \/ /\ host[main].pc \in {"setup", "start"}
              /\ svc' = CloseCtx(host[main].n)
    PROVE  /\ table' \in TableType /\ svc' \in [Services -> ServiceType]
           /\ table'.gen = table.gen /\ Len(table'.slots) = Len(table.slots)
           /\ table'.slots[host[main].slot] = FreeSlot
           /\ OwnedInv' /\ FailDoes
  <1> DEFINE i == host[main].slot
             n == table.slots[i].ctx
  <1>1. /\ i \in Used /\ table.slots[i].thread = 0
        /\ table' = [table EXCEPT !.slots[i] = FreeSlot]
    BY OpeningSlot
  <1>2. /\ FreeSlot \in SlotType /\ FreeSlot.ctx = 0 /\ FreeSlot.thread = 0
    BY SlotValues
  <1>3. /\ table' \in TableType /\ table'.gen = table.gen
        /\ table'.cap = table.cap
        /\ Len(table'.slots) = Len(table.slots)
        /\ table'.slots[i] = FreeSlot
        /\ \A j \in Used : j # i => table'.slots[j] = table.slots[j]
    BY <1>1, <1>2, TableWrite DEF RunnerIInv
  <1>4. /\ svc' \in [Services -> ServiceType]
        /\ \A m \in Services : /\ svc'[m].st = svc[m].st
                               /\ svc'[m].slot = svc[m].slot
                               /\ svc'[m].gen = svc[m].gen
                               /\ svc'[m].ret = svc[m].ret
                               /\ svc'[m].wild = svc[m].wild
                               /\ ~svc'[m].bad
                               /\ m # n => svc'[m] = svc[m]
                               /\ m > opened => svc'[m] = svc[m]
        /\ n # 0 => n \in Services /\ svc'[n].ctx = "freed"
    <2>1. CASE host[main].pc \in {"clear", "context"}
      BY <2>1 DEF RunnerIInv, OwnedInv, Shape, HostInv
    <2>2. CASE host[main].pc \in {"setup", "start"}
      <3>1. n = host[main].n /\ n # 0
        BY <2>2 DEF RunnerIInv, HostInv
      <3>2. svc' = CloseCtx(n)
        BY <2>2, <3>1
      <3>3. /\ svc' \in [Services -> ServiceType] /\ ~svc'[n].bad
            /\ svc'[n].st = svc[n].st /\ svc'[n].slot = svc[n].slot
            /\ svc'[n].gen = svc[n].gen /\ svc'[n].ret = svc[n].ret
            /\ svc'[n].wild = svc[n].wild
            /\ svc'[n].ctx = "freed" /\ n \in Services /\ n <= opened
            /\ \A m \in Services : m # n => svc'[m] = svc[m]
        BY <1>1, <3>1, <3>2, ContextFreed
      <3>4. n \in Nat /\ opened \in Nat
        <4>1. n \in Services
          BY <3>3
        <4>2. QED
          BY <4>1 DEF Services, RunnerIInv, Shape
      <3> HIDE DEF n
      <3>5. QED
        BY <3>3, <3>4 DEF RunnerIInv, OwnedInv
    <2>3. QED
      BY <2>1, <2>2
  <1>5. OwnedInv'
    <2>1. \A m \in Services : svc[m].st \in Working => svc[m].slot # i
      BY <1>1, NobodyWorks
    <2>2. \A m \in Services : m > opened => svc[m] = NoService
      BY DEF RunnerIInv, OwnedInv
    <2>3. opened \in 0 .. MaxOpens
      BY DEF RunnerIInv, Shape
    <2>4. PICK j \in Used : j = i
      BY <1>1
    <2>5. table' = [table EXCEPT !.slots[j] = FreeSlot]
      BY <1>1, <2>4
    <2>6. \A m \in Services :
              /\ \/ svc'[m].ctx = svc[m].ctx
                 \/ m = table.slots[j].ctx
                 \/ m > opened
              /\ svc'[m].st \in Working =>
                    \/ svc'[m].slot = j /\ FreeSlot.thread = m
                    \/ /\ svc[m].st \in Working /\ svc'[m].slot = svc[m].slot
                       /\ svc[m].slot # j
              /\ ~svc'[m].bad
              /\ m > opened' => svc'[m] = NoService
      BY <1>4, <2>1, <2>2, <2>4
    <2>7. FreeSlot.thread \in {0, FreeSlot.ctx} /\ opened <= opened'
          /\ opened' \in 0 .. MaxOpens
      BY <1>2, <2>3
    <2> HIDE DEF i, n
    <2>8. QED
      BY <1>2, <1>4, <2>5, <2>6, <2>7, OwnedWrite
  <1>6. FailDoes
    <2>1. Used' = Used
      BY <1>3 DEF Used
    <2>2. QED
      BY <1>1, <1>3, <1>4, <2>1 DEF FailDoes, SlotWritten, SameRun
  <1>7. QED
    BY <1>3, <1>4, <1>5, <1>6

(* An open that fails, or the memset of the slot, keeps the invariant.      *)
LEMMA FailKeeps ==
    ASSUME RunnerIInv, host[main].pc \in Opening,
           table' = Store(table, host[main].gen, host[main].slot, FreeSlot),
           opened' = opened,
           \/ /\ host[main].pc \in {"clear", "context"}
              /\ svc' = svc
           \/ /\ host[main].pc \in {"setup", "start"}
              /\ svc' = CloseCtx(host[main].n),
           host' \in [{main} -> HostType],
           \/ host'[main].pc = "idle"
           \/ /\ host'[main].pc = "context"
              /\ host'[main].slot = host[main].slot
              /\ host'[main].gen = host[main].gen
    PROVE  RunnerIInv' /\ FailDoes
  <1>1. /\ table' \in TableType /\ svc' \in [Services -> ServiceType]
        /\ table'.gen = table.gen /\ Len(table'.slots) = Len(table.slots)
        /\ table'.slots[host[main].slot] = FreeSlot
        /\ OwnedInv' /\ FailDoes
    BY GiveBack
  <1>2. Shape'
    BY <1>1 DEF RunnerIInv, Shape
  <1>3. HostInv'
    <2>1. /\ host[main].slot \in Used /\ host[main].gen = table.gen
      BY OpeningSlot
    <2>2. FreeSlot.ctx = 0 /\ Used' = Used
      BY <1>1, SlotValues DEF Used
    <2>3. QED
      BY <1>1, <2>1, <2>2 DEF HostInv, Opening
  <1>4. QED
    BY <1>1, <1>2, <1>3 DEF RunnerIInv

(* The memset of redp2p_runner_open.                                       *)
LEMMA ClearKeeps ==
    ASSUME RunnerIInv, OpenClear(main)
    PROVE  /\ RunnerIInv' /\ FailDoes /\ SameCommand
           /\ host'[main].pc = "context"
  <1>1. host[main] \in HostType /\ host \in [{main} -> HostType]
    BY DEF RunnerIInv, Shape
  <1>2. /\ host' = [host EXCEPT ![main] = [host[main] EXCEPT !.pc = "context"]]
        /\ host[main].pc = "clear" /\ svc' = svc /\ opened' = opened
        /\ table' = Store(table, host[main].gen, host[main].slot, FreeSlot)
    BY DEF OpenClear
  <1>3. /\ host' \in [{main} -> HostType] /\ host'[main].pc = "context"
        /\ host'[main].slot = host[main].slot
        /\ host'[main].gen = host[main].gen
        /\ SameCommand
    BY <1>1, <1>2 DEF HostType, SameCommand, SameHandle
  <1>4. QED
    BY <1>2, <1>3, FailKeeps DEF Opening

(* redp2p_open gives the service its context, or the slot is given back.    *)
LEMMA ContextKeeps ==
    ASSUME RunnerIInv, OpenContext(main)
    PROVE  RunnerIInv' /\ (ContextDoes \/ (FailDoes /\ Failed))
  <1> DEFINE n == opened + 1
             i == host[main].slot
             s == [FreeSlot EXCEPT !.state = "running", !.ctx = n]
             x == [svc[n] EXCEPT !.ctx = "open"]
             me == [[host[main] EXCEPT !.pc = "setup"] EXCEPT !.n = n]
  <1>1. /\ host[main].pc = "context" /\ opened < MaxOpens
        /\ host[main] \in HostType /\ host \in [{main} -> HostType]
        /\ opened \in 0 .. MaxOpens
    BY DEF RunnerIInv, Shape, OpenContext
  <1>2. /\ n \in 0 .. MaxOpens /\ n \in Services /\ n # 0 /\ n > opened
        /\ n <= MaxOpens /\ n \in Nat
    BY <1>1 DEF Services
  <1>3. CASE /\ opened' = n
             /\ table' = Store(table, host[main].gen, host[main].slot, s)
             /\ svc' = [svc EXCEPT ![n].ctx = "open"]
             /\ host' = [host EXCEPT ![main].pc = "setup", ![main].n = n]
    <2>1. /\ i \in Used /\ host[main].gen = table.gen
          /\ table.slots[i].thread = 0
          /\ table' = [table EXCEPT !.slots[i] = s]
      BY <1>1, <1>3, OpeningSlot DEF Opening
    <2>2. table.slots[i].ctx = 0
      BY <1>1 DEF RunnerIInv, HostInv
    <2>3. svc[n] = NoService /\ svc \in [Services -> ServiceType]
      BY <1>2 DEF RunnerIInv, OwnedInv, Shape
    <2> HIDE DEF n
    <2>4. /\ s \in SlotType /\ s.ctx = n /\ s.thread = 0 /\ s.state = "running"
      <3> DEFINE B == 0 .. MaxOpens
      <3>1. 0 \in B /\ n \in B
        BY <1>2
      <3> HIDE DEF B
      <3>2. SlotType = [state : {"free", "running", "finished"},
                        result : {"ok", "error"}, ctx : B, thread : B]
        BY DEF SlotType, B
      <3>3. QED
        BY <3>1, <3>2 DEF FreeSlot
    <2> HIDE DEF s
    <2>5. /\ x \in ServiceType /\ x.ctx = "open" /\ x.st = "none"
          /\ x.bad = FALSE /\ x.wild = svc[n].wild /\ svc' = [svc EXCEPT ![n] = x]
      <3>1. svc' = [svc EXCEPT ![n] = x]
        BY <1>2, <1>3, <2>3
      <3>2. /\ x \in ServiceType /\ x.ctx = "open" /\ x.st = "none"
            /\ x.bad = FALSE /\ x.wild = svc[n].wild
        <4>1. /\ svc[n] \in ServiceType /\ svc[n].st = "none"
              /\ svc[n].bad = FALSE
          <5>1. NoService.st = "none" /\ NoService.bad = FALSE
            BY DEF NoService
          <5>2. QED
            BY <1>2, <2>3, <5>1
        <4>2. QED
          BY <4>1 DEF ServiceType
      <3>3. QED
        BY <3>1, <3>2
    <2> HIDE DEF x
    <2>6. /\ svc' \in [Services -> ServiceType] /\ svc'[n] = x
          /\ \A m \in Services : m # n => svc'[m] = svc[m]
      BY <1>2, <2>3, <2>5
    <2>7. /\ me \in HostType /\ me.pc = "setup" /\ me.n = n /\ me.slot = i
          /\ me.gen = host[main].gen /\ me.op = host[main].op
          /\ host' = [host EXCEPT ![main] = me]
      <3> DEFINE B == 0 .. MaxOpens
      <3>1. n \in B
        BY <1>2
      <3> HIDE DEF B
      <3>2. HostType =
              [pc : {"idle", "clear", "context", "setup", "start", "join"},
               op : {"none", "open", "failed", "unanswered", "status", "stop",
                     "close", "closed"},
               slot : Nat, gen : Nat, n : B,
               said : {"none", "running", "ok", "error"}]
        BY DEF HostType, B
      <3>3. me \in HostType /\ me.pc = "setup" /\ me.n = n /\ me.slot = i
            /\ me.gen = host[main].gen /\ me.op = host[main].op
        BY <1>1, <3>1, <3>2
      <3>4. host' = [host EXCEPT ![main] = me]
        BY <1>1, <1>3
      <3>5. QED
        BY <3>3, <3>4
    <2> HIDE DEF me
    <2>8. /\ table' \in TableType /\ table'.gen = table.gen
          /\ table'.cap = table.cap
          /\ Len(table'.slots) = Len(table.slots) /\ table'.slots[i] = s
          /\ \A j \in Used : j # i => table'.slots[j] = table.slots[j]
      BY <2>1, <2>4, TableWrite DEF RunnerIInv
    <2>9. Shape'
      <3>1. /\ table' \in TableType /\ svc' \in [Services -> ServiceType]
            /\ opened' \in 0 .. MaxOpens
        BY <1>2, <1>3, <2>6, <2>8
      <3>2. host' \in [{main} -> HostType]
        BY <1>1, <2>7
      <3>3. QED
        BY <3>1, <3>2 DEF Shape
    <2>10. OwnedInv'
      <3>1. \A m \in Services : svc[m].st \in Working => svc[m].slot # i
        BY <2>1, NobodyWorks
      <3>2. \A m \in Services :
               ~svc[m].bad /\ (m > opened => svc[m] = NoService)
        BY DEF RunnerIInv, OwnedInv
      <3>3. PICK j \in Used : j = i
        BY <2>1
      <3>4. \A m \in Services :
              /\ \/ svc'[m].ctx = svc[m].ctx
                 \/ m = table.slots[j].ctx
                 \/ m > opened
              /\ svc'[m].st \in Working =>
                    \/ svc'[m].slot = j /\ s.thread = m
                    \/ /\ svc[m].st \in Working /\ svc'[m].slot = svc[m].slot
                       /\ svc[m].slot # j
              /\ ~svc'[m].bad
              /\ m > opened' => svc'[m] = NoService
        <4> SUFFICES ASSUME NEW m \in Services
                     PROVE  /\ \/ svc'[m].ctx = svc[m].ctx
                               \/ m = table.slots[j].ctx
                               \/ m > opened
                            /\ svc'[m].st \in Working =>
                                  \/ svc'[m].slot = j /\ s.thread = m
                                  \/ /\ svc[m].st \in Working
                                     /\ svc'[m].slot = svc[m].slot
                                     /\ svc[m].slot # j
                            /\ ~svc'[m].bad
                            /\ m > opened' => svc'[m] = NoService
          OBVIOUS
        <4>1. CASE m = n
          <5>1. svc'[m].st = "none" /\ svc'[m].bad = FALSE /\ m > opened
            BY <1>2, <2>5, <2>6, <4>1
          <5>2. ~(m > opened')
            BY <1>2, <1>3, <4>1
          <5>3. QED
            BY <5>1, <5>2 DEF Working
        <4>2. CASE m # n
          <5>1. svc'[m] = svc[m] /\ (m > opened' => m > opened)
            BY <1>1, <1>2, <1>3, <2>6, <4>2 DEF n, Services
          <5>2. QED
            BY <3>1, <3>2, <3>3, <5>1
        <4>3. QED
          BY <4>1, <4>2
      <3>5. /\ opened' \in 0 .. MaxOpens /\ opened <= opened'
            /\ s.thread \in {0, s.ctx} /\ s.state # "free"
            /\ s.ctx <= opened' /\ svc'[s.ctx].ctx = "open" /\ s.ctx > opened
        BY <1>1, <1>2, <1>3, <2>4, <2>5, <2>6
      <3>6. table' = [table EXCEPT !.slots[j] = s]
        BY <2>1, <3>3
      <3> HIDE DEF i
      <3>7. QED
        BY <2>4, <2>6, <3>4, <3>5, <3>6, OwnedWrite
    <2>11. HostInv'
      <3>1. host'[main] = me /\ Used' = Used
        BY <1>1, <2>7, <2>8 DEF Used
      <3>2. svc'[n].st = "none" /\ n \in 1 .. opened'
        <4>1. svc'[n].st = "none"
          BY <2>5, <2>6
        <4>2. opened' = n /\ n \in 1 .. n
          BY <1>2, <1>3
        <4>3. QED
          BY <4>1, <4>2
      <3>3. QED
        BY <2>1, <2>4, <2>7, <2>8, <3>1, <3>2 DEF HostInv, Opening
    <2>12. ContextDoes
      <3>1. host'[main] = me /\ Used' = Used
        BY <1>1, <2>7, <2>8 DEF Used
      <3>2. SlotWritten(i)
        BY <2>8, <3>1 DEF SlotWritten
      <3>3. opened' = n /\ n = opened + 1
        BY <1>3 DEF n
      <3>4. /\ svc'[n].ctx = "open" /\ svc'[n].st = "none"
            /\ svc'[n].wild = svc[n].wild
        BY <2>5, <2>6
      <3> HIDE DEF i
      <3>5. QED
        BY <1>1, <1>2, <2>1, <2>4, <2>6, <2>7, <2>8, <3>1, <3>2, <3>3, <3>4
           DEF ContextDoes, i
    <2>13. RunnerIInv'
      BY <2>9, <2>10, <2>11 DEF RunnerIInv
    <2>14. QED
      BY <2>12, <2>13
  <1>4. CASE /\ table' = Store(table, host[main].gen, host[main].slot, FreeSlot)
             /\ host' = [host EXCEPT ![main] = [Idle EXCEPT !.op = "failed"]]
             /\ UNCHANGED <<svc, opened>>
    <2>1. host' \in [{main} -> HostType] /\ host'[main].pc = "idle" /\ Failed
      BY <1>1, <1>4, HostValues DEF Failed
    <2>2. QED
      BY <1>1, <1>4, <2>1, FailKeeps DEF Opening
  <1>5. QED
    BY <1>3, <1>4, Zenon DEF OpenContext

(* The options of the command are set, or the context is released again.    *)
LEMMA SetupKeeps ==
    ASSUME RunnerIInv, OpenSetup(main)
    PROVE  RunnerIInv' /\ (SetupDoes \/ (FailDoes /\ Failed))
  <1>1. /\ host[main].pc = "setup" /\ opened' = opened
        /\ host[main] \in HostType /\ host \in [{main} -> HostType]
    BY DEF RunnerIInv, Shape, OpenSetup
  <1>2. CASE /\ host' = [host EXCEPT ![main].pc = "start"]
             /\ UNCHANGED <<table, svc>>
    <2> DEFINE me == [host[main] EXCEPT !.pc = "start"]
    <2>1. /\ host' = [host EXCEPT ![main] = me]
          /\ me \in HostType /\ me.pc = "start" /\ me.slot = host[main].slot
          /\ me.gen = host[main].gen /\ me.n = host[main].n
          /\ me.op = host[main].op
      BY <1>1, <1>2 DEF HostType
    <2> HIDE DEF me
    <2>2. host'[main] = me /\ Used' = Used
      BY <1>1, <1>2, <2>1 DEF Used
    <2>3. Shape'
      BY <1>1, <1>2, <2>1 DEF RunnerIInv, Shape
    <2>4. OwnedInv'
      BY <1>1, <1>2, OwnedKept DEF RunnerIInv, Shape
    <2>5. HostInv'
      BY <1>1, <1>2, <2>1, <2>2 DEF RunnerIInv, HostInv, Opening
    <2>6. SetupDoes
      BY <1>1, <1>2, <2>1, <2>2 DEF SetupDoes, SameCommand, SameHandle
    <2>7. RunnerIInv'
      BY <2>3, <2>4, <2>5 DEF RunnerIInv
    <2>8. QED
      BY <2>6, <2>7
  <1>3. CASE /\ svc' = CloseCtx(host[main].n)
             /\ table' = Store(table, host[main].gen, host[main].slot, FreeSlot)
             /\ host' = [host EXCEPT ![main] = [Idle EXCEPT !.op = "failed"]]
    <2>1. host' \in [{main} -> HostType] /\ host'[main].pc = "idle" /\ Failed
      BY <1>1, <1>3, HostValues DEF Failed
    <2>2. QED
      BY <1>1, <1>3, <2>1, FailKeeps DEF Opening
  <1>4. QED
    BY <1>2, <1>3, Zenon DEF OpenSetup

(* The thread starts on the context of its slot, or the context is released *)
(* again.                                                                   *)
LEMMA StartKeeps ==
    ASSUME RunnerIInv, OpenStart(main)
    PROVE  RunnerIInv' /\ (StartDoes \/ (FailDoes /\ Failed))
  <1>1. /\ host[main].pc = "start" /\ opened' = opened
        /\ host[main] \in HostType /\ host \in [{main} -> HostType]
    BY DEF RunnerIInv, Shape, OpenStart
  <1>2. CASE /\ svc' = [svc EXCEPT ![host[main].n] =
                   [@ EXCEPT !.st = "start", !.slot = host[main].slot,
                             !.gen = host[main].gen]]
             /\ table' = IF table.gen = host[main].gen
                           THEN [table EXCEPT !.slots[host[main].slot].thread =
                                                host[main].n]
                           ELSE table
             /\ host' \in {[host EXCEPT ![main].pc = "idle"],
                          [host EXCEPT ![main] =
                             [Idle EXCEPT !.op = "unanswered"]]}
    <2> DEFINE i == host[main].slot
               n == host[main].n
               s == [table.slots[i] EXCEPT !.thread = n]
               back == [host[main] EXCEPT !.pc = "idle"]
               none == [Idle EXCEPT !.op = "unanswered"]
               x == [svc[n] EXCEPT !.st = "start", !.slot = i,
                                   !.gen = host[main].gen]
    <2>1. /\ i \in Used /\ i \in Nat /\ host[main].gen = table.gen
          /\ table.slots[i] \in SlotType /\ table.slots[i].thread = 0
      BY <1>1, OpeningSlot DEF Opening
    <2>2. /\ table.slots[i].ctx = n /\ n \in 1 .. opened /\ svc[n].st = "none"
      BY <1>1 DEF RunnerIInv, HostInv
    <2>3. /\ n \in Services /\ n # 0 /\ n \in 0 .. MaxOpens
          /\ opened \in 0 .. MaxOpens /\ n <= opened
      BY <2>2 DEF RunnerIInv, Shape, Services
    <2>4. SlotOwned(i) /\ svc[n] \in ServiceType /\ svc[n].bad = FALSE
          /\ svc \in [Services -> ServiceType]
      BY <2>1, <2>3 DEF RunnerIInv, OwnedInv, Shape, ServiceType
    <2>5. svc[n].ctx = "open" /\ table.slots[i].state # "free"
      BY <2>2, <2>3, <2>4 DEF SlotOwned
    <2>6. table' = [table EXCEPT !.slots[i] = s]
      BY <1>2, <2>1
    <2>7. /\ s \in SlotType /\ s.thread = n /\ s.ctx = n
          /\ s.state = table.slots[i].state
      <3> DEFINE B == 0 .. MaxOpens
      <3>1. n \in B
        BY <2>3
      <3> HIDE DEF B, i, n
      <3>2. SlotType = [state : {"free", "running", "finished"},
                        result : {"ok", "error"}, ctx : B, thread : B]
        BY DEF SlotType, B
      <3>3. QED
        BY <2>1, <2>2, <3>1, <3>2
    <2>8. PICK me \in HostType :
            /\ me.pc = "idle"
            /\ \/ me.slot = i /\ me.n = n /\ me.op = host[main].op
               \/ me.op = "unanswered"
            /\ host' = [host EXCEPT ![main] = me]
      <3>1. /\ back \in HostType /\ back.pc = "idle" /\ back.slot = i
            /\ back.n = n /\ back.op = host[main].op
        BY <1>1 DEF HostType
      <3>2. none \in HostType /\ none.pc = "idle" /\ none.op = "unanswered"
        BY HostValues
      <3>3. \/ host' = [host EXCEPT ![main] = back]
            \/ host' = [host EXCEPT ![main] = none]
        BY <1>2
      <3> HIDE DEF back, none
      <3>4. QED
        BY <3>1, <3>2, <3>3
    <2>9. svc' = [svc EXCEPT ![n] = x]
      BY <1>2, <2>3, <2>4
    <2>10. /\ x \in ServiceType /\ x.st = "start" /\ x.slot = i
           /\ x.gen = host[main].gen /\ x.ctx = "open" /\ x.bad = FALSE
           /\ x.wild = svc[n].wild
      <3>1. host[main].gen \in Nat
        BY <1>1 DEF HostType
      <3>2. QED
        BY <2>1, <2>4, <2>5, <3>1 DEF ServiceType
    <2> HIDE DEF s, x
    <2>11. /\ table' \in TableType /\ table'.gen = table.gen
           /\ table'.cap = table.cap /\ table'.slots[i] = s
           /\ Len(table'.slots) = Len(table.slots)
           /\ \A j \in Used : j # i => table'.slots[j] = table.slots[j]
      BY <2>1, <2>6, <2>7, TableWrite DEF RunnerIInv
    <2>12. /\ svc' \in [Services -> ServiceType] /\ svc'[n] = x
           /\ \A m \in Services : m # n => svc'[m] = svc[m]
      BY <2>3, <2>4, <2>9, <2>10
    <2>13. Shape'
      BY <1>1, <2>3, <2>8, <2>11, <2>12 DEF Shape
    <2>14. OwnedInv'
      <3>1. \A m \in Services : svc[m].st \in Working => svc[m].slot # i
        BY <2>1, NobodyWorks
      <3>2. \A m \in Services :
               ~svc[m].bad /\ (m > opened => svc[m] = NoService)
        BY DEF RunnerIInv, OwnedInv
      <3>3. PICK j \in Used : j = i
        BY <2>1
      <3>4. ~(n > opened)
        BY <2>3
      <3>5. \A m \in Services :
              /\ \/ svc'[m].ctx = svc[m].ctx
                 \/ m = table.slots[j].ctx
                 \/ m > opened
              /\ svc'[m].st \in Working =>
                    \/ svc'[m].slot = j /\ s.thread = m
                    \/ /\ svc[m].st \in Working /\ svc'[m].slot = svc[m].slot
                       /\ svc[m].slot # j
              /\ ~svc'[m].bad
              /\ m > opened' => svc'[m] = NoService
        BY <1>1, <2>2, <2>7, <2>10, <2>12, <3>1, <3>2, <3>3, <3>4
      <3>6. /\ opened' \in 0 .. MaxOpens /\ opened <= opened'
            /\ s.thread \in {0, s.ctx} /\ s.state # "free"
            /\ s.ctx <= opened' /\ svc'[s.ctx].ctx = "open"
            /\ s.ctx = table.slots[j].ctx
        BY <1>1, <2>2, <2>3, <2>5, <2>7, <2>10, <2>12, <3>3
      <3>7. table' = [table EXCEPT !.slots[j] = s]
        BY <2>6, <3>3
      <3> HIDE DEF i, n
      <3>8. QED
        BY <2>7, <2>12, <3>5, <3>6, <3>7, OwnedWrite
    <2>15. HostInv'
      <3>1. host'[main].pc = "idle"
        BY <1>1, <2>8
      <3>2. QED
        BY <3>1 DEF HostInv, Opening
    <2>16. StartDoes
      <3>1. host'[main] = me /\ Used' = Used
        BY <1>1, <2>8, <2>11 DEF Used
      <3>2. SlotWritten(i)
        BY <2>11, <3>1 DEF SlotWritten
      <3>3. SameCommand \/ host'[main].op = "unanswered"
        BY <2>8, <3>1 DEF SameCommand, SameHandle
      <3> HIDE DEF i, n
      <3>4. QED
        BY <1>1, <2>1, <2>3, <2>7, <2>8, <2>10, <2>11, <2>12, <3>1, <3>2, <3>3
           DEF StartDoes, i, n
    <2>17. RunnerIInv'
      BY <2>13, <2>14, <2>15 DEF RunnerIInv
    <2>18. QED
      BY <2>16, <2>17
  <1>3. CASE /\ svc' = CloseCtx(host[main].n)
             /\ table' = Store(table, host[main].gen, host[main].slot, FreeSlot)
             /\ host' = [host EXCEPT ![main] = [Idle EXCEPT !.op = "failed"]]
    <2>1. host' \in [{main} -> HostType] /\ host'[main].pc = "idle" /\ Failed
      BY <1>1, <1>3, HostValues DEF Failed
    <2>2. QED
      BY <1>1, <1>3, <2>1, FailKeeps DEF Opening
  <1>4. QED
    BY <1>2, <1>3, Zenon DEF OpenStart

-----------------------------------------------------------------------------
(* The other commands and the service threads.                              *)

(* redp2p_runner_status, which leaves the table alone.                      *)
LEMMA StatusKeeps ==
    ASSUME RunnerIInv, Status(main)
    PROVE  RunnerIInv' /\ StatusDoes
  <1> DEFINE v == IF Slot(main).state = "running" THEN "running"
                                                 ELSE Slot(main).result
             a == [host[main] EXCEPT !.op = "status"]
             b == [a EXCEPT !.said = v]
  <1>1. /\ host[main].pc = "idle" /\ host[main].slot \in Used
        /\ host[main] \in HostType /\ host \in [{main} -> HostType]
        /\ table' = table /\ svc' = svc /\ opened' = opened
        /\ host' = [host EXCEPT ![main] = b]
    BY DEF RunnerIInv, Shape, Status, HasHandle
  <1>2. v \in {"running", "ok", "error"}
    <2>1. Slot(main) \in SlotType
      BY <1>1 DEF RunnerIInv, Shape, TableType, Used, Slot
    <2>2. Slot(main).result \in {"ok", "error"}
      BY <2>1 DEF SlotType
    <2>3. QED
      BY <2>2
  <1> HIDE DEF v
  <1>3. a \in HostType /\ a.pc = "idle" /\ a.slot = host[main].slot
        /\ a.n = host[main].n
    BY <1>1 DEF HostType
  <1> HIDE DEF a
  <1>4. b \in HostType /\ b.pc = "idle" /\ b.slot = a.slot /\ b.n = a.n
        /\ b.said = v
    BY <1>2, <1>3 DEF HostType
  <1> HIDE DEF b
  <1>5. host'[main] = b /\ host' \in [{main} -> HostType]
    BY <1>1, <1>4
  <1>6. OwnedInv'
    BY <1>1, OwnedKept DEF RunnerIInv, Shape
  <1>7. RunnerIInv'
    BY <1>1, <1>4, <1>5, <1>6 DEF RunnerIInv, Shape, HostInv, Opening
  <1>8. StatusDoes
    BY <1>1, <1>3, <1>4, <1>5 DEF StatusDoes, SameHandle, v
  <1>9. QED
    BY <1>7, <1>8

(* The stop request that redp2p_runner_stop and redp2p_runner_close begin   *)
(* with.                                                                    *)
LEMMA EndBeginKeeps ==
    ASSUME RunnerIInv, NEW op, EndBegin(main, op)
    PROVE  RunnerIInv' /\ EndBeginDoes(op)
  <1> DEFINE n == Slot(main).ctx
             asked == Slot(main).state = "running" /\ Slot(main).ctx # 0
             x == [svc[n] EXCEPT !.stop = TRUE]
             a == [host[main] EXCEPT !.pc = "join"]
             b == [a EXCEPT !.op = op]
  <1>1. /\ host[main].pc = "idle" /\ host[main].slot \in Used
        /\ op \in {"stop", "close"}
        /\ host[main] \in HostType /\ host \in [{main} -> HostType]
        /\ svc \in [Services -> ServiceType]
        /\ table' = table /\ opened' = opened
        /\ host' = [host EXCEPT ![main] = b]
    BY DEF RunnerIInv, Shape, EndBegin, HasHandle
  <1>2. /\ b \in HostType /\ b.pc = "join" /\ b.slot = host[main].slot
        /\ b.gen = host[main].gen /\ b.n = host[main].n /\ b.op = op
    <2>1. /\ a \in HostType /\ a.pc = "join" /\ a.slot = host[main].slot
          /\ a.gen = host[main].gen /\ a.n = host[main].n
      BY <1>1 DEF HostType
    <2> HIDE DEF a
    <2>2. QED
      BY <1>1, <2>1 DEF HostType
  <1> HIDE DEF b
  <1>3. /\ svc' \in [Services -> ServiceType]
        /\ \A m \in Services :
             /\ svc'[m].ctx = svc[m].ctx /\ svc'[m].bad = svc[m].bad
             /\ svc'[m].slot = svc[m].slot /\ svc'[m].st = svc[m].st
             /\ svc'[m].gen = svc[m].gen /\ svc'[m].ret = svc[m].ret
             /\ svc'[m].wild = svc[m].wild
             /\ m > opened => svc'[m] = svc[m]
    <2>1. CASE asked
      <3>1. /\ n \in Services /\ n <= opened /\ n \in Nat /\ opened \in Nat
        <4>1. Slot(main) \in SlotType /\ SlotOwned(host[main].slot)
          BY <1>1 DEF RunnerIInv, OwnedInv, Shape, TableType, Used, Slot
        <4>2. n <= opened
          BY <2>1, <4>1 DEF SlotOwned, Slot
        <4>3. QED
          BY <2>1, <4>1, <4>2 DEF SlotType, Services, RunnerIInv, Shape
      <3>2. svc' = [svc EXCEPT ![n] = x]
        BY <2>1 DEF EndBegin
      <3> HIDE DEF n
      <3>3. /\ x \in ServiceType /\ x.ctx = svc[n].ctx /\ x.bad = svc[n].bad
            /\ x.slot = svc[n].slot /\ x.st = svc[n].st
            /\ x.gen = svc[n].gen /\ x.ret = svc[n].ret
            /\ x.wild = svc[n].wild
        <4>1. svc[n] \in ServiceType
          BY <1>1, <3>1
        <4>2. QED
          BY <4>1 DEF ServiceType
      <3> HIDE DEF x
      <3>4. QED
        BY <1>1, <3>1, <3>2, <3>3
    <2>2. CASE ~asked
      BY <1>1, <2>2 DEF EndBegin
    <2>3. QED
      BY <2>1, <2>2
  <1>4. OwnedInv'
    BY <1>1, <1>3, OwnedKept
  <1>5. host'[main] = b /\ host' \in [{main} -> HostType]
    BY <1>1, <1>2
  <1>6. HostInv'
    BY <1>1, <1>2, <1>5 DEF HostInv, Opening, Used
  <1>7. EndBeginDoes(op)
    BY <1>1, <1>2, <1>3, <1>5 DEF EndBeginDoes, SameHandle, SameRun
  <1>8. QED
    BY <1>1, <1>3, <1>4, <1>5, <1>6, <1>7 DEF RunnerIInv, Shape

(* The end of redp2p_runner_stop and redp2p_runner_close: the thread has    *)
(* been joined, so nobody works in the slot.                                *)
LEMMA JoinedSlot ==
    ASSUME RunnerIInv, host[main].pc = "join", Joined(main)
    PROVE  /\ host[main].slot \in Used
           /\ table.slots[host[main].slot] \in SlotType
           /\ \A n \in Services :
                svc[n].st \in Working => svc[n].slot # host[main].slot
  <1>1. host[main].slot \in Used
    BY DEF RunnerIInv, HostInv
  <1>2. table.slots[host[main].slot] \in SlotType
    BY <1>1 DEF RunnerIInv, Shape, TableType, Used
  <1>3. ASSUME NEW n \in Services, svc[n].st \in Working,
               svc[n].slot = host[main].slot
        PROVE  FALSE
    <2>1. ThreadOwned(n) /\ n # 0
      BY DEF RunnerIInv, OwnedInv, Services
    <2>2. table.slots[host[main].slot].thread = n
      BY <1>3, <2>1 DEF ThreadOwned
    <2>3. svc[n].st = "done"
      BY <2>1, <2>2 DEF Joined, Slot
    <2>4. QED
      BY <1>3, <2>3 DEF Working
  <1>4. QED
    BY <1>1, <1>2, <1>3

(* A slot written at the end of a command: no thread works in it, and its   *)
(* context stays or is released.                                            *)
LEMMA EndKeeps ==
    ASSUME RunnerIInv, host[main].pc = "join", Joined(main),
           NEW s \in SlotType, s.thread = 0, s.state = "free" => s.ctx = 0,
           \/ s.ctx = table.slots[host[main].slot].ctx /\ svc' = svc
           \/ s.ctx = 0 /\ svc' = CloseCtx(table.slots[host[main].slot].ctx),
           table' = [table EXCEPT !.slots[host[main].slot] = s],
           opened' = opened,
           host' \in [{main} -> HostType], host'[main].pc = "idle"
    PROVE  /\ RunnerIInv' /\ host[main].slot \in Used
           /\ SlotWritten(host[main].slot) /\ table'.slots[host[main].slot] = s
           /\ \A m \in Services :
                /\ SameRun(m)
                /\ m # table.slots[host[main].slot].ctx => svc'[m] = svc[m]
  <1> PICK i : i = host[main].slot
    OBVIOUS
  <1> DEFINE n == table.slots[i].ctx
  <1>1. /\ i \in Used /\ table.slots[i] \in SlotType
        /\ table' = [table EXCEPT !.slots[i] = s]
        /\ \A m \in Services : svc[m].st \in Working => svc[m].slot # i
    BY JoinedSlot
  <1>2. /\ table' \in TableType /\ Len(table'.slots) = Len(table.slots)
        /\ table'.gen = table.gen /\ table'.cap = table.cap
        /\ table'.slots[i] = s
        /\ \A j \in Used : j # i => table'.slots[j] = table.slots[j]
    BY <1>1, TableWrite DEF RunnerIInv
  <1>3. /\ opened \in 0 .. MaxOpens /\ svc \in [Services -> ServiceType]
        /\ \A m \in Services :
             ~svc[m].bad /\ (m > opened => svc[m] = NoService)
        /\ n # 0 => n <= opened /\ svc[n].ctx = "open" /\ n \in Services
        /\ n \in Nat
    <2>1. SlotOwned(i)
      BY <1>1 DEF RunnerIInv, OwnedInv
    <2>2. n \in 0 .. MaxOpens
      BY <1>1 DEF SlotType
    <2>3. /\ opened \in 0 .. MaxOpens /\ svc \in [Services -> ServiceType]
          /\ \A m \in Services :
               ~svc[m].bad /\ (m > opened => svc[m] = NoService)
      BY DEF RunnerIInv, Shape, OwnedInv
    <2>4. n # 0 => n <= opened /\ svc[n].ctx = "open"
      BY <2>1 DEF SlotOwned
    <2> HIDE DEF n
    <2>5. n \in Nat /\ (n # 0 => n \in Services)
      BY <2>2 DEF Services
    <2>6. QED
      BY <2>3, <2>4, <2>5
  <1>4. /\ svc' \in [Services -> ServiceType]
        /\ \A m \in Services : /\ svc'[m].st = svc[m].st
                               /\ svc'[m].slot = svc[m].slot
                               /\ svc'[m].gen = svc[m].gen
                               /\ svc'[m].ret = svc[m].ret
                               /\ svc'[m].wild = svc[m].wild
                               /\ ~svc'[m].bad
                               /\ m # n => svc'[m] = svc[m]
                               /\ m > opened => svc'[m] = svc[m]
        /\ s.ctx # 0 => s.ctx = n /\ svc'[n].ctx = "open"
    <2>1. CASE svc' = svc /\ s.ctx = n
      BY <1>3, <2>1
    <2>2. CASE svc' = CloseCtx(n) /\ s.ctx = 0 /\ n # 0
      <3>1. /\ svc' \in [Services -> ServiceType] /\ ~svc'[n].bad
            /\ svc'[n].st = svc[n].st /\ svc'[n].slot = svc[n].slot
            /\ svc'[n].gen = svc[n].gen /\ svc'[n].ret = svc[n].ret
            /\ svc'[n].wild = svc[n].wild
            /\ \A m \in Services : m # n => svc'[m] = svc[m]
        BY <1>1, <2>2, ContextFreed
      <3> HIDE DEF n
      <3>0. n \in Nat /\ opened \in Nat /\ n <= opened
        BY <1>3, <2>2
      <3>2. \A m \in Services : m > opened => m # n
        BY <3>0 DEF Services
      <3>3. QED
        BY <1>3, <2>2, <3>1, <3>2
    <2>3. CASE svc' = CloseCtx(n) /\ s.ctx = 0 /\ n = 0
      BY <1>3, <2>3 DEF CloseCtx
    <2>4. QED
      BY <2>1, <2>2, <2>3
  <1>5. OwnedInv'
    <2>1. \A m \in Services :
              /\ \/ svc'[m].ctx = svc[m].ctx
                 \/ m = table.slots[i].ctx
                 \/ m > opened
              /\ svc'[m].st \in Working =>
                    \/ svc'[m].slot = i /\ s.thread = m
                    \/ /\ svc[m].st \in Working /\ svc'[m].slot = svc[m].slot
                       /\ svc[m].slot # i
              /\ ~svc'[m].bad
              /\ m > opened' => svc'[m] = NoService
      BY <1>1, <1>3, <1>4
    <2>2. /\ opened' \in 0 .. MaxOpens /\ opened <= opened'
          /\ s.thread \in {0, s.ctx}
          /\ s.ctx # 0 => /\ s.ctx <= opened' /\ svc'[s.ctx].ctx = "open"
                          /\ s.ctx = table.slots[i].ctx
      BY <1>3, <1>4
    <2> HIDE DEF n
    <2>3. QED
      BY <1>1, <1>4, <2>1, <2>2, OwnedWrite
  <1>6. Shape'
    BY <1>2, <1>3, <1>4 DEF Shape
  <1>7. RunnerIInv'
    BY <1>5, <1>6 DEF RunnerIInv, HostInv, Opening
  <1>8. SlotWritten(i)
    BY <1>2 DEF SlotWritten, Used
  <1>9. QED
    BY <1>1, <1>2, <1>4, <1>7, <1>8 DEF SameRun

(* The end of redp2p_runner_stop: the context stays in the slot.            *)
LEMMA StopEndKeeps ==
    ASSUME RunnerIInv, StopEnd(main)
    PROVE  RunnerIInv' /\ StopDoes
  <1> DEFINE r == table.slots[host[main].slot]
             s == [r EXCEPT !.thread = 0, !.state = "finished"]
             me == [host[main] EXCEPT !.pc = "idle"]
  <1>1. /\ host[main].pc = "join" /\ host[main].op = "stop" /\ Joined(main)
        /\ host[main] \in HostType /\ host \in [{main} -> HostType]
        /\ svc' = svc /\ opened' = opened
        /\ host' = [host EXCEPT ![main] = me]
        /\ table' = [table EXCEPT !.slots[host[main].slot] = s]
    BY DEF RunnerIInv, Shape, StopEnd
  <1>2. r \in SlotType
    BY <1>1, JoinedSlot
  <1> HIDE DEF r
  <1>3. s \in SlotType /\ s.thread = 0 /\ s.state = "finished" /\ s.ctx = r.ctx
    <2> DEFINE B == 0 .. MaxOpens
    <2>1. 0 \in B
      OBVIOUS
    <2> HIDE DEF B
    <2>2. SlotType = [state : {"free", "running", "finished"},
                      result : {"ok", "error"}, ctx : B, thread : B]
      BY DEF SlotType, B
    <2>3. QED
      BY <1>2, <2>1, <2>2
  <1>4. me \in HostType /\ me.pc = "idle" /\ me.slot = host[main].slot
        /\ me.n = host[main].n
    BY <1>1 DEF HostType
  <1> HIDE DEF s, me
  <1>5. /\ host' \in [{main} -> HostType] /\ host'[main].pc = "idle"
        /\ SameHandle
    BY <1>1, <1>4 DEF SameHandle
  <1>6. /\ RunnerIInv' /\ host[main].slot \in Used
        /\ SlotWritten(host[main].slot) /\ table'.slots[host[main].slot] = s
    BY <1>1, <1>3, <1>5, EndKeeps DEF r
  <1>7. StopDoes
    BY <1>1, <1>3, <1>5, <1>6 DEF StopDoes, r
  <1>8. QED
    BY <1>6, <1>7

(* The end of redp2p_runner_close: the context is released.                 *)
LEMMA CloseEndKeeps ==
    ASSUME RunnerIInv, CloseEnd(main)
    PROVE  RunnerIInv' /\ CloseDoes
  <1> DEFINE r == table.slots[host[main].slot]
             a == [host[main] EXCEPT !.pc = "idle"]
             b == [a EXCEPT !.op = "closed"]
  <1>1. /\ host[main].pc = "join" /\ host[main].op = "close" /\ Joined(main)
        /\ host[main] \in HostType /\ host \in [{main} -> HostType]
        /\ svc' = CloseCtx(r.ctx) /\ opened' = opened
        /\ host' = [host EXCEPT ![main] = b]
        /\ table' = [table EXCEPT !.slots[host[main].slot] = Released(r)]
    BY DEF RunnerIInv, Shape, CloseEnd, Slot
  <1>2. r \in SlotType
    BY <1>1, JoinedSlot
  <1> HIDE DEF r
  <1>3. /\ Released(r) \in SlotType /\ Released(r).thread = 0
        /\ Released(r).state = "free" /\ Released(r).ctx = 0
    BY <1>2, SlotValues
  <1>4. b \in HostType /\ b.pc = "idle" /\ b.slot = host[main].slot
        /\ b.n = host[main].n
    <2>1. a \in HostType /\ a.pc = "idle" /\ a.slot = host[main].slot
          /\ a.n = host[main].n
      BY <1>1 DEF HostType
    <2> HIDE DEF a
    <2>2. QED
      BY <2>1 DEF HostType
  <1> HIDE DEF b
  <1>5. /\ host' \in [{main} -> HostType] /\ host'[main].pc = "idle"
        /\ SameHandle
    BY <1>1, <1>4 DEF SameHandle
  <1> DEFINE s == Released(r)
  <1>6. s \in SlotType /\ s.thread = 0 /\ s.state = "free" /\ s.ctx = 0
        /\ table' = [table EXCEPT !.slots[host[main].slot] = s]
    BY <1>1, <1>3
  <1> HIDE DEF s
  <1>7. /\ RunnerIInv' /\ host[main].slot \in Used
        /\ SlotWritten(host[main].slot) /\ table'.slots[host[main].slot] = s
        /\ \A m \in Services :
             /\ SameRun(m)
             /\ m # table.slots[host[main].slot].ctx => svc'[m] = svc[m]
    BY <1>1, <1>5, <1>6, EndKeeps DEF r
  <1>8. r.ctx # 0 => r.ctx \in Services /\ svc'[r.ctx].ctx = "freed"
    BY <1>1, <1>7, ContextFreed DEF r
  <1>9. CloseDoes
    BY <1>1, <1>5, <1>6, <1>7, <1>8 DEF CloseDoes, r
  <1>10. QED
    BY <1>7, <1>9

(* What a thread's step writes into its record.                             *)
Later == {"run", "result", "state", "done"}
Marked(x, v, w) == [[x EXCEPT !.st = v] EXCEPT !.wild = w]

(* It changes where the thread is and its mark.                             *)
LEMMA ServiceFields ==
    ASSUME NEW x \in ServiceType, NEW v \in Later, NEW w \in BOOLEAN
    PROVE  LET y == Marked(x, v, w)
           IN  /\ y \in ServiceType /\ y.st = v /\ y.wild = w
               /\ y.slot = x.slot /\ y.gen = x.gen /\ y.ret = x.ret
               /\ y.stop = x.stop /\ y.ctx = x.ctx /\ y.bad = x.bad
  <1> DEFINE a == [x EXCEPT !.st = v]
  <1>1. /\ a \in ServiceType /\ a.st = v /\ a.slot = x.slot
        /\ a.gen = x.gen /\ a.ret = x.ret /\ a.stop = x.stop
        /\ a.ctx = x.ctx /\ a.bad = x.bad
    BY DEF ServiceType, Later
  <1> HIDE DEF a
  <1> DEFINE y == [a EXCEPT !.wild = w]
  <1>2. /\ y \in ServiceType /\ y.st = a.st /\ y.wild = w
        /\ y.slot = a.slot /\ y.gen = a.gen /\ y.ret = a.ret
        /\ y.stop = a.stop /\ y.ctx = a.ctx /\ y.bad = a.bad
    BY <1>1 DEF ServiceType
  <1> HIDE DEF y
  <1>3. Marked(x, v, w) = y
    BY DEF Marked, y, a
  <1>4. QED
    BY <1>1, <1>2, <1>3

(* The mark of a thread is a Boolean.                                       *)
LEMMA WildType ==
    ASSUME RunnerIInv, NEW n \in Services
    PROVE  Wild(n) \in BOOLEAN
  <1>1. svc[n].wild \in BOOLEAN
    BY DEF RunnerIInv, Shape, ServiceType
  <1>2. QED
    BY <1>1 DEF Wild

(* A service thread: its operation returns, then its result and its state   *)
(* are stored through its pointer, into its slot or, when the table has     *)
(* moved, nowhere.                                                          *)
LEMMA ThreadKeeps ==
    ASSUME RunnerIInv, NEW n \in Services, Thread(n)
    PROVE  RunnerIInv' /\ ThreadDoes(n)
  <1> PICK i : i = svc[n].slot
    OBVIOUS
  <1> DEFINE r == table.slots[i]
  <1>1. /\ svc \in [Services -> ServiceType] /\ svc[n] \in ServiceType
        /\ host' = host /\ opened' = opened /\ host \in [{main} -> HostType]
        /\ opened \in 0 .. MaxOpens
    BY DEF RunnerIInv, Shape, Thread, Begin, Return, StoreResult, StoreState
  <1>2. /\ svc[n].st \in Working /\ i \in Used /\ i \in Nat
        /\ r.thread = n /\ r \in SlotType /\ r.ctx = n
    <2>1. svc[n].st \in Working
      BY DEF Thread, Begin, Return, StoreResult, StoreState, Working
    <2>2. i \in Used /\ r.thread = n /\ n # 0
      BY <2>1 DEF RunnerIInv, OwnedInv, ThreadOwned, Services
    <2>3. SlotOwned(i) /\ r \in SlotType
      BY <2>2 DEF RunnerIInv, OwnedInv, Shape, TableType, Used
    <2>4. QED
      BY <2>1, <2>2, <2>3 DEF SlotOwned, Used
  <1>3. /\ r.ctx <= opened /\ svc[n].ctx = "open" /\ r.state # "free"
        /\ n <= opened /\ n \in Nat /\ n # 0
    <2>1. SlotOwned(i) /\ n # 0 /\ n \in Nat
      BY <1>2 DEF RunnerIInv, OwnedInv, Services
    <2>2. QED
      BY <1>2, <2>1 DEF SlotOwned
  <1>4. /\ svc' \in [Services -> ServiceType]
        /\ \A m \in Services :
             /\ svc'[m].ctx = svc[m].ctx /\ svc'[m].bad = svc[m].bad
             /\ svc'[m].slot = svc[m].slot
             /\ svc'[m].st \in Working => svc[m].st \in Working
             /\ svc'[m].gen = svc[m].gen
             /\ m # n => svc'[m] = svc[m]
        /\ svc'[n].wild = Wild(n)
    <2>1. ASSUME NEW v \in Later,
                 svc' = [svc EXCEPT ![n].st = v, ![n].wild = Wild(n)]
          PROVE  <1>4!:
      <3> PICK w \in BOOLEAN : w = Wild(n)
        BY WildType, Zenon
      <3> DEFINE x == Marked(svc[n], v, w)
      <3>1. svc' = [svc EXCEPT ![n] = x]
        BY <1>1, <2>1 DEF Marked
      <3>2. /\ x \in ServiceType /\ x.ctx = svc[n].ctx /\ x.bad = svc[n].bad
            /\ x.slot = svc[n].slot /\ x.gen = svc[n].gen /\ x.ret = svc[n].ret
            /\ x.wild = w
        BY <1>1, ServiceFields
      <3> HIDE DEF x
      <3>3. /\ svc' \in [Services -> ServiceType] /\ svc'[n] = x
            /\ \A m \in Services : m # n => svc'[m] = svc[m]
        BY <1>1, <3>1, <3>2
      <3>4. QED
        BY <1>2, <3>2, <3>3
    <2>2. CASE Return(n)
      <3>1. PICK w \in {"ok", "error"} :
              svc' = [svc EXCEPT ![n].st = "result", ![n].wild = Wild(n),
                                 ![n].ret = w]
        BY <2>2, Zenon DEF Return
      <3> DEFINE y == Marked(svc[n], "result", Wild(n))
                 x == [y EXCEPT !.ret = w]
      <3>2. svc' = [svc EXCEPT ![n] = x]
        BY <1>1, <3>1 DEF Marked
      <3>3. /\ y \in ServiceType /\ y.ctx = svc[n].ctx /\ y.bad = svc[n].bad
            /\ y.slot = svc[n].slot /\ y.gen = svc[n].gen /\ y.wild = Wild(n)
        BY <1>1, WildType, ServiceFields DEF Later
      <3> HIDE DEF y
      <3>4. /\ x \in ServiceType /\ x.ctx = svc[n].ctx /\ x.bad = svc[n].bad
            /\ x.slot = svc[n].slot /\ x.gen = svc[n].gen /\ x.wild = Wild(n)
        BY <3>3 DEF ServiceType
      <3> HIDE DEF x
      <3>5. /\ svc' \in [Services -> ServiceType] /\ svc'[n] = x
            /\ \A m \in Services : m # n => svc'[m] = svc[m]
        BY <1>1, <3>2, <3>4
      <3>6. QED
        BY <1>2, <3>4, <3>5
    <2>3. CASE Begin(n)
      BY <2>1, <2>3 DEF Begin, Later
    <2>4. CASE StoreResult(n)
      BY <2>1, <2>4 DEF StoreResult, Later
    <2>5. CASE StoreState(n)
      BY <2>1, <2>5 DEF StoreState, Later
    <2>6. QED
      BY <2>2, <2>3, <2>4, <2>5 DEF Thread
  <1>5. \/ table' = table
        \/ \E s \in SlotType :
             /\ table' = [table EXCEPT !.slots[i] = s]
             /\ s.ctx = r.ctx /\ s.thread = r.thread /\ s.state # "free"
    <2> DEFINE first == [r EXCEPT !.result = svc[n].ret]
               last == [r EXCEPT !.state = "finished"]
    <2>1. /\ first \in SlotType /\ first.ctx = r.ctx
          /\ first.thread = r.thread /\ first.state = r.state
      <3>1. svc[n].ret \in {"ok", "error"}
        BY <1>1 DEF ServiceType
      <3> DEFINE B == 0 .. MaxOpens
      <3> HIDE DEF B, r
      <3>2. SlotType = [state : {"free", "running", "finished"},
                        result : {"ok", "error"}, ctx : B, thread : B]
        BY DEF SlotType, B
      <3>3. QED
        BY <1>2, <3>1, <3>2
    <2>2. /\ last \in SlotType /\ last.ctx = r.ctx
          /\ last.thread = r.thread /\ last.state = "finished"
      BY <1>2, SlotFields
    <2>3. CASE Begin(n) \/ Return(n)
      BY <2>3 DEF Begin, Return
    <2>4. CASE StoreResult(n)
      <3>1. table' = table \/ table' = [table EXCEPT !.slots[i] = first]
        BY <2>4 DEF StoreResult, Store, StoredFirst, SlotOf
      <3> HIDE DEF first
      <3>2. QED
        BY <1>3, <2>1, <3>1
    <2>5. CASE StoreState(n)
      <3>1. table' = table \/ table' = [table EXCEPT !.slots[i] = last]
        BY <2>5 DEF StoreState, Store, StoredLast, SlotOf
      <3> HIDE DEF last
      <3>2. QED
        BY <2>2, <3>1
    <2>6. QED
      BY <2>3, <2>4, <2>5 DEF Thread
  <1>6. ASSUME table' = table
        PROVE  RunnerIInv'
    <2>1. OwnedInv'
      BY <1>1, <1>3, <1>4, <1>6, OwnedKept
    <2>2. HostInv'
      <3>1. Used' = Used
        BY <1>6 DEF Used
      <3>2. \A m \in Services : svc[m].st = "none" => svc'[m].st = "none"
        BY <1>2, <1>4 DEF Working
      <3>3. 1 .. opened \subseteq Services
        BY <1>1 DEF Services
      <3>4. QED
        BY <1>1, <1>6, <3>1, <3>2, <3>3 DEF RunnerIInv, HostInv, Opening
    <2>3. QED
      BY <1>1, <1>4, <1>6, <2>1, <2>2 DEF RunnerIInv, Shape
  <1>7. ASSUME NEW s \in SlotType, table' = [table EXCEPT !.slots[i] = s],
               s.ctx = r.ctx, s.thread = r.thread, s.state # "free"
        PROVE  RunnerIInv'
    <2>1. /\ table' \in TableType /\ table'.gen = table.gen
          /\ Len(table'.slots) = Len(table.slots) /\ table'.slots[i] = s
          /\ \A j \in Used : j # i => table'.slots[j] = table.slots[j]
      BY <1>2, <1>7, TableWrite DEF RunnerIInv
    <2>2. OwnedInv'
      <3>1. \A m \in Services :
              /\ \/ svc'[m].ctx = svc[m].ctx
                 \/ m = table.slots[i].ctx
                 \/ m > opened
              /\ svc'[m].st \in Working =>
                    \/ svc'[m].slot = i /\ s.thread = m
                    \/ /\ svc[m].st \in Working /\ svc'[m].slot = svc[m].slot
                       /\ svc[m].slot # i
              /\ ~svc'[m].bad
              /\ m > opened' => svc'[m] = NoService
        <4>1. \A m \in Services :
                ~svc[m].bad /\ (m > opened => svc[m] = NoService)
                /\ ThreadOwned(m)
          BY DEF RunnerIInv, OwnedInv
        <4>2. \A m \in Services : m > opened => m # n
          BY <1>1, <1>3 DEF Services
        <4>3. QED
          BY <1>1, <1>2, <1>4, <1>7, <4>1, <4>2 DEF ThreadOwned
      <3>2. /\ opened' \in 0 .. MaxOpens /\ opened <= opened'
            /\ s.thread \in {0, s.ctx}
            /\ s.ctx <= opened' /\ svc'[s.ctx].ctx = "open"
            /\ s.ctx = table.slots[i].ctx
        BY <1>1, <1>2, <1>3, <1>4, <1>7
      <3>3. /\ i \in Used /\ svc' \in [Services -> ServiceType]
            /\ s.state = "free" => s.ctx = 0
        BY <1>2, <1>4, <1>7
      <3>4. table' = [table EXCEPT !.slots[i] = s]
        BY <1>7
      <3> HIDE DEF r
      <3>5. QED
        BY <3>1, <3>2, <3>3, <3>4, OwnedWrite
    <2>3. HostInv'
      <3>1. Used' = Used
        BY <2>1 DEF Used
      <3>2. \A j \in Used : /\ table'.slots[j].ctx = table.slots[j].ctx
                            /\ table'.slots[j].thread = table.slots[j].thread
        BY <1>7, <2>1
      <3>3. \A m \in Services : svc[m].st = "none" => svc'[m].st = "none"
        BY <1>2, <1>4 DEF Working
      <3>4. 1 .. opened \subseteq Services
        BY <1>1 DEF Services
      <3>5. QED
        BY <1>1, <2>1, <3>1, <3>2, <3>3, <3>4 DEF RunnerIInv, HostInv, Opening
    <2>4. QED
      BY <1>1, <1>4, <2>1, <2>2, <2>3 DEF RunnerIInv, Shape
  <1>8. RunnerIInv'
    BY <1>5, <1>6, <1>7
  <1>9. ThreadDoes(n)
    <2> DEFINE first == [r EXCEPT !.result = svc[n].ret]
               last == [r EXCEPT !.state = "finished"]
    <2>1. /\ first \in SlotType /\ first.ctx = r.ctx
          /\ first.thread = r.thread /\ first.state = r.state
          /\ first.result = svc[n].ret
          /\ last \in SlotType /\ last.ctx = r.ctx
          /\ last.thread = r.thread /\ last.state = "finished"
          /\ last.result = r.result
      <3>1. svc[n].ret \in {"ok", "error"}
        BY <1>1 DEF ServiceType
      <3> DEFINE B == 0 .. MaxOpens
      <3> HIDE DEF B, r
      <3>2. SlotType = [state : {"free", "running", "finished"},
                        result : {"ok", "error"}, ctx : B, thread : B]
        BY DEF SlotType, B
      <3>3. QED
        BY <1>2, <3>1, <3>2
    <2>2. ASSUME table' = table
          PROVE  SlotWritten(i) /\ table'.slots[i] = r
      BY <2>2 DEF SlotWritten, Used
    <2>3. ASSUME NEW s \in SlotType, table' = [table EXCEPT !.slots[i] = s]
          PROVE  SlotWritten(i) /\ table'.slots[i] = s
      <3>1. /\ table'.gen = table.gen /\ table'.cap = table.cap
            /\ Len(table'.slots) = Len(table.slots) /\ table'.slots[i] = s
            /\ \A j \in Used : j # i => table'.slots[j] = table.slots[j]
        BY <1>2, <2>3, TableWrite DEF RunnerIInv
      <3>2. QED
        BY <3>1 DEF SlotWritten, Used
    <2>4. svc'[n].gen = svc[n].gen /\ svc'[n].wild = Wild(n)
      BY <1>4
    <2>5. CASE Return(n)
      <3>1. SlotWritten(i) /\ table'.slots[i] = r
        BY <2>2, <2>5 DEF Return
      <3>2. svc[n].st = "run" /\ svc'[n].st = "result"
        BY <1>1, <2>5 DEF Return
      <3>3. QED
        BY <1>1, <1>2, <1>4, <2>4, <3>1, <3>2 DEF ThreadDoes
    <2>6. CASE Begin(n)
      <3>1. SlotWritten(i) /\ table'.slots[i] = r
        BY <2>2, <2>6 DEF Begin
      <3>2. svc[n].st = "start" /\ svc'[n].st = "run"
        BY <1>1, <2>6 DEF Begin
      <3>3. QED
        BY <1>1, <1>2, <1>4, <2>4, <3>1, <3>2 DEF ThreadDoes
    <2>7. CASE StoreResult(n)
      <3>1. /\ svc[n].st = "result" /\ svc'[n].st = "state"
            /\ svc'[n].ret = svc[n].ret
        BY <1>1, <2>7 DEF StoreResult
      <3>2. table' = IF table.gen = svc[n].gen
                       THEN [table EXCEPT !.slots[i] = first] ELSE table
        BY <2>7 DEF StoreResult, Store, StoredFirst, SlotOf
      <3> HIDE DEF first
      <3>3. /\ SlotWritten(i)
            /\ table'.slots[i] = IF table.gen = svc[n].gen THEN first ELSE r
        BY <2>1, <2>2, <2>3, <3>2
      <3>4. QED
        BY <1>1, <1>2, <1>4, <2>1, <2>4, <3>1, <3>3 DEF ThreadDoes
    <2>8. CASE StoreState(n)
      <3>1. /\ svc[n].st = "state" /\ svc'[n].st = "done"
            /\ svc'[n].ret = svc[n].ret
        BY <1>1, <2>8 DEF StoreState
      <3>2. table' = IF table.gen = svc[n].gen
                       THEN [table EXCEPT !.slots[i] = last] ELSE table
        BY <2>8 DEF StoreState, Store, StoredLast, SlotOf
      <3> HIDE DEF last
      <3>3. /\ SlotWritten(i)
            /\ table'.slots[i] = IF table.gen = svc[n].gen THEN last ELSE r
        BY <2>1, <2>2, <2>3, <3>2
      <3>4. QED
        BY <1>1, <1>2, <1>4, <2>1, <2>4, <3>1, <3>3 DEF ThreadDoes
    <2>9. QED
      BY <2>5, <2>6, <2>7, <2>8 DEF Thread
  <1>10. QED
    BY <1>8, <1>9

(* What a step of the whole specification does to the runner: a command of  *)
(* main, a step of a service thread, or nothing.                            *)
LEMMA RunnerStep ==
    ASSUME [Next]_vars
    PROVE  \/ Command(main)
           \/ \E n \in Services : Thread(n)
           \/ UNCHANGED runnerVars
  <1>1. CASE EmbeddedStep
    BY <1>1, CliAssumption DEF EmbeddedStep, RunnerNext
  <1>2. CASE MainStep
    BY <1>2 DEF MainStep, Open, Opened, PidWrite, InstallHandlers, SeeSignal,
       CloseStopped, Interrupted, AskStatus, Answered, PidRemove, LastClose,
       Finish, Command, Request
  <1>3. CASE CommandStep
    BY <1>3 DEF CommandStep, Command
  <1>4. CASE Signal \/ Down
    BY <1>4 DEF Signal, Down
  <1>5. ASSUME NEW n \in Services, ServiceStep(n)
        PROVE  Thread(n)
    BY <1>5 DEF ServiceStep
  <1>6. CASE UNCHANGED vars
    BY <1>6 DEF vars
  <1>7. QED
    BY <1>1, <1>2, <1>3, <1>4, <1>5, <1>6 DEF Next

(* Ownership is inductive.                                                  *)
LEMMA RunnerIInvNext == RunnerIInv /\ [Next]_vars => RunnerIInv'
  <1> SUFFICES ASSUME RunnerIInv, [Next]_vars PROVE RunnerIInv'
    OBVIOUS
  <1>1. CASE Command(main)
    BY <1>1, RefusedKeeps, AllocKeeps, ClearKeeps, ContextKeeps, SetupKeeps,
       StartKeeps, StatusKeeps, EndBeginKeeps, StopEndKeeps, CloseEndKeeps DEF Command
  <1>2. CASE \E n \in Services : Thread(n)
    BY <1>2, ThreadKeeps
  <1>3. CASE UNCHANGED runnerVars
    BY <1>3 DEF runnerVars, RunnerIInv, Shape, OwnedInv, SlotOwned,
       ThreadOwned, HostInv, Used
  <1>4. QED
    BY <1>1, <1>2, <1>3, RunnerStep

-----------------------------------------------------------------------------
(* What redp2p_runner_status reports from.                                  *)

(* While the table has its first allocation, no pointer into it is stale:   *)
(* the slot of a thread that works says "running", the slot of one that has *)
(* ended says "finished".  Only an array that was full and not empty is     *)
(* enlarged.                                                                *)
StatusInv ==
    /\ Len(table.slots) <= table.cap
    /\ table.cap = 0 \/ table.cap >= InitialCap
    /\ host[main].pc \in {"setup", "start"} =>
          table.slots[host[main].slot].state = "running"
    /\ table.cap <= InitialCap =>
          /\ \A n \in Services : svc[n].st \in Working =>
                /\ svc[n].gen = table.gen
                /\ table.slots[svc[n].slot].state = "running"
          /\ \A i \in Used : \A n \in Services :
                /\ table.slots[i].thread = n
                /\ svc[n].st = "done"
                => table.slots[i].state = "finished"

(* A step that writes slot i and nothing else of the table: what it has to  *)
(* see to.                                                                  *)
LEMMA StatusWrite ==
    ASSUME RunnerIInv, StatusInv, NEW i \in Used, SlotWritten(i),
           \A n \in Services :
              /\ svc'[n].st \in Working =>
                    \/ /\ svc'[n].slot = i /\ svc'[n].gen = table.gen
                       /\ table'.slots[i].state = "running"
                    \/ /\ svc[n].st \in Working /\ svc'[n].slot = svc[n].slot
                       /\ svc'[n].gen = svc[n].gen /\ svc[n].slot # i
              /\ svc'[n].st = "done" =>
                    /\ svc[n].st = "done" \/ n = table.slots[i].thread
                    /\ table'.slots[i].thread = n =>
                          table'.slots[i].state = "finished",
           host'[main].pc \in {"setup", "start"} =>
              table'.slots[host'[main].slot].state = "running"
    PROVE  StatusInv'
  <1>1. /\ Used' = Used /\ table'.gen = table.gen /\ table'.cap = table.cap
        /\ Len(table'.slots) = Len(table.slots)
        /\ \A j \in Used : j # i => table'.slots[j] = table.slots[j]
    BY DEF SlotWritten
  <1>2. ASSUME table.cap <= InitialCap, NEW n \in Services,
               svc'[n].st \in Working
        PROVE  /\ svc'[n].gen = table'.gen
               /\ table'.slots[svc'[n].slot].state = "running"
    <2>1. CASE svc[n].st \in Working /\ svc[n].slot # i
               /\ svc'[n].slot = svc[n].slot /\ svc'[n].gen = svc[n].gen
      <3>1. svc[n].slot \in Used
        BY <2>1 DEF RunnerIInv, OwnedInv, ThreadOwned
      <3>2. QED
        BY <1>1, <1>2, <2>1, <3>1 DEF StatusInv
    <2>2. QED
      BY <1>1, <1>2, <2>1
  <1>3. ASSUME table.cap <= InitialCap, NEW j \in Used, NEW n \in Services,
               table'.slots[j].thread = n, svc'[n].st = "done"
        PROVE  table'.slots[j].state = "finished"
    <2>1. CASE j = i
      BY <1>3, <2>1
    <2>2. CASE j # i
      <3>1. table'.slots[j] = table.slots[j] /\ n # 0
        BY <1>1, <2>2 DEF Services
      <3>2. n # table.slots[i].thread
        <4>1. SlotOwned(i) /\ SlotOwned(j)
          BY DEF RunnerIInv, OwnedInv
        <4>2. QED
          BY <1>3, <2>2, <3>1, <4>1 DEF SlotOwned, RunnerIInv, OwnedInv
      <3>3. svc[n].st = "done"
        BY <1>3, <3>2
      <3>4. QED
        BY <1>3, <3>1, <3>3 DEF StatusInv
    <2>3. QED
      BY <2>1, <2>2
  <1>4. QED
    BY <1>1, <1>2, <1>3 DEF StatusInv

(* A step that leaves the table and the life of the threads alone.          *)
LEMMA StatusKept ==
    ASSUME RunnerIInv, StatusInv, table' = table,
           \A n \in Services : SameRun(n),
           host'[main].pc \in {"setup", "start"} =>
              /\ host[main].pc \in {"setup", "start"}
              /\ host'[main].slot = host[main].slot
    PROVE  StatusInv'
  BY DEF StatusInv, SameRun, Used

(* The thread of slot i, if it has one, has ended or has not begun.         *)
LEMMA StatusEnd ==
    ASSUME RunnerIInv, StatusInv, NEW i \in Used, SlotWritten(i),
           \A n \in Services : svc[n].st \in Working => svc[n].slot # i,
           \A n \in Services : SameRun(n),
           table'.slots[i].thread = 0,
           host'[main].pc \notin {"setup", "start"}
    PROVE  StatusInv'
  <1>1. \A n \in Services : n # 0
    BY DEF Services
  <1>2. QED
    BY <1>1, StatusWrite DEF SameRun

(* Every command of a host.                                                 *)
LEMMA StatusCommand ==
    ASSUME RunnerIInv, StatusInv, Command(main)
    PROVE  StatusInv'
  <1>1. CASE OpenAlloc(main)
    <2>1. AllocDoes
      BY <1>1, AllocKeeps
    <2>2. PICK i \in Used' :
            /\ host'[main].pc = "clear"
            /\ table'.slots[i].ctx = 0 /\ table'.slots[i].thread = 0
            /\ Used' = Used \cup {i}
            /\ i \in Used => table.slots[i].thread = 0
            /\ \A j \in Used : j # i => table'.slots[j] = table.slots[j]
            /\ svc' = svc
            /\ \/ /\ table'.gen = table.gen /\ table'.cap = table.cap
                  /\ Len(table'.slots) = Len(table.slots)
               \/ /\ Len(table'.slots) = Len(table.slots) + 1
                  /\ \/ Grows
                     \/ /\ Len(table.slots) < table.cap
                        /\ table'.gen = table.gen /\ table'.cap = table.cap
      BY <2>1 DEF AllocDoes
    <2>3. /\ table.cap \in Nat /\ Len(table.slots) \in Nat
          /\ Used = 1 .. Len(table.slots)
          /\ table.cap = 0 \/ table.cap >= InitialCap
          /\ Len(table.slots) <= table.cap
      BY DEF RunnerIInv, Shape, TableType, StatusInv, Used
    <2>4. /\ Len(table'.slots) <= table'.cap
          /\ table'.cap = 0 \/ table'.cap >= InitialCap
          /\ table'.cap <= InitialCap =>
                \/ Used = {}
                \/ table'.gen = table.gen /\ table'.cap = table.cap
      BY <2>2, <2>3 DEF Grows
    <2>5. \A n \in Services : svc[n].st \in Working =>
             /\ svc[n].slot \in Used /\ table.slots[svc[n].slot].thread = n
      BY DEF RunnerIInv, OwnedInv, ThreadOwned
    <2>6. ASSUME table'.cap <= InitialCap, NEW n \in Services,
                 svc[n].st \in Working
          PROVE  /\ svc[n].gen = table'.gen
                 /\ table'.slots[svc[n].slot].state = "running"
      <3>1. table'.gen = table.gen /\ table.cap <= InitialCap
        BY <2>4, <2>5, <2>6
      <3>2. svc[n].slot \in Used /\ svc[n].slot # i /\ n # 0
        BY <2>2, <2>5, <2>6 DEF Services
      <3>3. QED
        BY <2>2, <2>6, <3>1, <3>2 DEF StatusInv
    <2>7. ASSUME table'.cap <= InitialCap, NEW j \in Used', NEW n \in Services,
                 table'.slots[j].thread = n, svc[n].st = "done"
          PROVE  table'.slots[j].state = "finished"
      <3>1. j # i /\ j \in Used
        BY <2>2, <2>7 DEF Services
      <3>2. table.cap <= InitialCap
        BY <2>4, <2>7, <3>1
      <3>3. QED
        BY <2>2, <2>7, <3>1, <3>2 DEF StatusInv
    <2>8. QED
      BY <2>2, <2>4, <2>6, <2>7 DEF StatusInv
  <1>2. ASSUME FailDoes, host'[main].pc \in {"idle", "context"}
        PROVE  StatusInv'
    <2> PICK i : i = host[main].slot
      OBVIOUS
    <2>1. /\ i \in Used /\ SlotWritten(i) /\ table'.slots[i] = FreeSlot
          /\ \A m \in Services : SameRun(m)
      BY <1>2 DEF FailDoes
    <2>2. table.slots[i].thread = 0
      BY <1>2, OpeningSlot DEF FailDoes
    <2>3. \A m \in Services : svc[m].st \in Working => svc[m].slot # i
      BY <2>1, <2>2, NobodyWorks
    <2>4. QED
      BY <1>2, <2>1, <2>3, SlotValues, StatusEnd
  <1>3. CASE OpenClear(main)
    BY <1>2, <1>3, ClearKeeps
  <1>4. CASE OpenContext(main)
    <2>1. CASE ContextDoes
      <3> PICK i : i = host[main].slot
        OBVIOUS
      <3>1. /\ i \in Used /\ SlotWritten(i) /\ table'.slots[i].state = "running"
            /\ table'.slots[i].thread = 0 /\ host'[main].slot = i
            /\ \A m \in Services :
                 m # opened + 1 => svc'[m] = svc[m]
            /\ svc'[opened + 1].st = "none"
        BY <2>1 DEF ContextDoes
      <3>2. table.slots[i].thread = 0
        BY <2>1, OpeningSlot DEF ContextDoes, Opening
      <3>3. \A m \in Services : /\ svc[m].st \in Working => svc[m].slot # i
                                /\ m # 0
        BY <3>1, <3>2, NobodyWorks DEF Services
      <3>4. QED
        BY <3>1, <3>3, StatusWrite DEF Working
    <2>2. CASE FailDoes /\ Failed
      BY <1>2, <2>2 DEF Failed
    <2>3. QED
      BY <1>4, <2>1, <2>2, ContextKeeps
  <1>5. CASE OpenSetup(main)
    <2>1. CASE SetupDoes
      BY <2>1, StatusKept DEF SetupDoes, SameRun, SameCommand, SameHandle
    <2>2. CASE FailDoes /\ Failed
      BY <1>2, <2>2 DEF Failed
    <2>3. QED
      BY <1>5, <2>1, <2>2, SetupKeeps
  <1>6. CASE OpenStart(main)
    <2>1. CASE StartDoes
      <3> PICK i, n : i = host[main].slot /\ n = host[main].n
        OBVIOUS
      <3>1. /\ i \in Used /\ SlotWritten(i) /\ n \in Services
            /\ table'.slots[i].thread = n
            /\ table'.slots[i].state = table.slots[i].state
            /\ svc'[n].st = "start" /\ svc'[n].slot = i
            /\ svc'[n].gen = table.gen
            /\ \A m \in Services : m # n => svc'[m] = svc[m]
            /\ host[main].pc = "start" /\ host'[main].pc = "idle"
        BY <2>1 DEF StartDoes
      <3>2. table.slots[i].thread = 0 /\ table.slots[i].state = "running"
        BY <3>1, OpeningSlot DEF Opening, StatusInv
      <3>3. \A m \in Services : svc[m].st \in Working => svc[m].slot # i
        BY <3>1, <3>2, NobodyWorks
      <3>4. QED
        BY <3>1, <3>2, <3>3, StatusWrite
    <2>2. CASE FailDoes /\ Failed
      BY <1>2, <2>2 DEF Failed
    <2>3. QED
      BY <1>6, <2>1, <2>2, StartKeeps
  <1>7. CASE Status(main)
    <2>1. StatusDoes
      BY <1>7, StatusKeeps
    <2>2. QED
      BY <2>1, StatusKept DEF StatusDoes, SameRun
  <1>8. ASSUME NEW op, EndBegin(main, op)
        PROVE  StatusInv'
    <2>1. EndBeginDoes(op)
      BY <1>8, EndBeginKeeps
    <2>2. QED
      BY <2>1, StatusKept DEF EndBeginDoes
  <1>9. CASE StopEnd(main)
    <2> PICK i : i = host[main].slot
      OBVIOUS
    <2>1. /\ i \in Used /\ SlotWritten(i) /\ table'.slots[i].thread = 0
          /\ svc' = svc /\ host'[main].pc = "idle"
          /\ host[main].pc = "join" /\ Joined(main)
      BY <1>9, StopEndKeeps DEF StopDoes
    <2>2. QED
      BY <2>1, JoinedSlot, StatusEnd DEF SameRun
  <1>10. CASE CloseEnd(main)
    <2> PICK i : i = host[main].slot
      OBVIOUS
    <2>1. /\ i \in Used /\ SlotWritten(i) /\ table'.slots[i].thread = 0
          /\ \A m \in Services : SameRun(m)
          /\ host'[main].pc = "idle"
          /\ host[main].pc = "join" /\ Joined(main)
      BY <1>10, CloseEndKeeps DEF CloseDoes
    <2>2. QED
      BY <2>1, JoinedSlot, StatusEnd
  <1>11. CASE OpenRefused(main)
    <2>1. RefusedDoes
      BY <1>11, RefusedKeeps
    <2>2. QED
      BY <2>1, StatusKept DEF RefusedDoes, Failed, SameRun
  <1>12. QED
    BY <1>1, <1>3, <1>4, <1>5, <1>6, <1>7, <1>8, <1>9, <1>10, <1>11
       DEF Command

(* A thread's own stores, through a pointer that is still good.             *)
LEMMA StatusThread ==
    ASSUME RunnerIInv, StatusInv, NEW n \in Services, Thread(n)
    PROVE  StatusInv'
  <1> PICK i : i = svc[n].slot
    OBVIOUS
  <1>1. /\ RunnerIInv' /\ ThreadDoes(n)
    BY ThreadKeeps
  <1>2. /\ i \in Used /\ SlotWritten(i) /\ host' = host
        /\ \A m \in Services : m # n => svc'[m] = svc[m]
        /\ svc'[n].slot = i /\ svc'[n].gen = svc[n].gen
        /\ table'.slots[i].thread = n /\ table.slots[i].thread = n
        /\ svc[n].st \in Working /\ n # 0
        /\ svc'[n].st \in Working =>
              table'.slots[i].state = table.slots[i].state
        /\ svc'[n].st \notin Working /\ svc[n].gen = table.gen =>
              table'.slots[i].state = "finished"
    BY <1>1 DEF ThreadDoes, Working, Services
  <1>3. host[main].pc \in {"setup", "start"} =>
           host[main].slot # i /\ host[main].slot \in Used
    BY <1>2, OpeningSlot DEF Opening
  <1>4. ASSUME NEW m \in Services, m # n
        PROVE  /\ svc'[m] = svc[m]
               /\ svc[m].st \in Working => svc[m].slot # i
    BY <1>2, <1>4 DEF RunnerIInv, OwnedInv, ThreadOwned
  <1>5. CASE table.cap <= InitialCap
    <2>1. svc[n].gen = table.gen /\ table.slots[i].state = "running"
      BY <1>2, <1>5 DEF StatusInv
    <2>2. host'[main].pc \in {"setup", "start"} =>
             table'.slots[host'[main].slot].state = "running"
      BY <1>2, <1>3 DEF SlotWritten, StatusInv
    <2>3. QED
      BY <1>2, <1>4, <2>1, <2>2, StatusWrite DEF Working
  <1>6. CASE ~(table.cap <= InitialCap)
    BY <1>2, <1>3, <1>6 DEF SlotWritten, StatusInv
  <1>7. QED
    BY <1>5, <1>6

(* The table is empty at first.                                             *)
LEMMA StatusInvInit == Init => StatusInv
  <1> SUFFICES ASSUME Init PROVE StatusInv
    OBVIOUS
  <1>1. /\ table = [gen |-> 0, cap |-> 0, slots |-> <<>>]
        /\ host = [h \in {main} |-> Idle]
        /\ svc = [n \in Services |-> NoService]
    BY DEF Init, RunnerInit
  <1>2. Used = {} /\ table.cap = 0 /\ Len(table.slots) = 0
    BY <1>1 DEF Used
  <1>3. \A n \in Services : svc[n].st = "none"
    BY <1>1 DEF NoService
  <1>4. host[main].pc = "idle"
    BY <1>1 DEF Idle
  <1>5. QED
    BY <1>2, <1>3, <1>4 DEF StatusInv, Working

(* Every step of the program or of the host keeps the slots truthful.       *)
LEMMA StatusInvNext == RunnerIInv /\ StatusInv /\ [Next]_vars => StatusInv'
  <1> SUFFICES ASSUME RunnerIInv, StatusInv, [Next]_vars PROVE StatusInv'
    OBVIOUS
  <1>1. CASE UNCHANGED runnerVars
    BY <1>1 DEF runnerVars, StatusInv, Used
  <1>2. QED
    BY <1>1, StatusCommand, StatusThread, RunnerStep

(* As long as the table has not outgrown its first allocation (eight slots  *)
(* in the code), whatever the commands and the ends of the services: the    *)
(* slot a handle leads to says "running" while its thread runs and          *)
(* "finished" once it has ended.  With the next allocation realloc may move *)
(* the slots away from the pointers the threads hold.                       *)
THEOREM StatusesTrue == Spec => [](table.cap <= InitialCap => StatusTrue)
  <1>1. RunnerIInv /\ StatusInv => (table.cap <= InitialCap => StatusTrue)
    <2> SUFFICES ASSUME RunnerIInv, StatusInv, table.cap <= InitialCap,
                        NEW i \in Used, NEW n \in Services,
                        table.slots[i].ctx = n, table.slots[i].thread = n
                 PROVE  /\ svc[n].st = "done" =>
                              table.slots[i].state = "finished"
                        /\ svc[n].st \in {"start", "run"} =>
                              table.slots[i].state = "running"
      BY DEF StatusTrue
    <2>1. ASSUME svc[n].st \in {"start", "run"}
          PROVE  table.slots[i].state = "running"
      <3>1. /\ svc[n].slot \in Used /\ table.slots[svc[n].slot].thread = n
            /\ n # 0 /\ table.slots[svc[n].slot].state = "running"
        BY <2>1 DEF RunnerIInv, OwnedInv, ThreadOwned, StatusInv, Working,
           Services
      <3>2. SlotOwned(svc[n].slot)
        BY <3>1 DEF RunnerIInv, OwnedInv
      <3>3. table.slots[svc[n].slot].ctx = n
        BY <3>1, <3>2 DEF SlotOwned
      <3>4. svc[n].slot = i
        BY <3>1, <3>3 DEF RunnerIInv, OwnedInv
      <3>5. QED
        BY <3>1, <3>4
    <2>2. QED
      BY <2>1 DEF StatusInv
  <1>2. QED
    BY <1>1, RunnerIInvInit, RunnerIInvNext, StatusInvInit, StatusInvNext, PTL
       DEF Spec

(* No thread has gone through a stale pointer while the table has its first *)
(* allocation.                                                              *)
WildInv == table.cap <= InitialCap => \A n \in Services : ~svc[n].wild

(* No command marks a thread, and none makes the table smaller.             *)
LEMMA WildCommand ==
    ASSUME RunnerIInv, StatusInv, Command(main)
    PROVE  /\ table'.cap <= InitialCap => table.cap <= InitialCap
           /\ \A n \in Services : svc'[n].wild = svc[n].wild
  <1>1. CASE OpenAlloc(main)
    <2>1. /\ svc' = svc
          /\ Grows \/ table'.cap = table.cap
      BY <1>1, AllocKeeps DEF AllocDoes
    <2>2. table.cap \in Nat
      BY DEF RunnerIInv, Shape, TableType
    <2>3. QED
      BY <2>1, <2>2 DEF Grows
  <1>2. ASSUME FailDoes
        PROVE  /\ table'.cap = table.cap
               /\ \A n \in Services : svc'[n].wild = svc[n].wild
    BY <1>2 DEF FailDoes, SlotWritten, SameRun
  <1>3. CASE OpenClear(main)
    BY <1>2, <1>3, ClearKeeps
  <1>4. CASE OpenContext(main)
    <2>1. CASE ContextDoes
      BY <2>1 DEF ContextDoes, SlotWritten
    <2>2. QED
      BY <1>2, <1>4, <2>1, ContextKeeps
  <1>5. CASE OpenSetup(main)
    BY <1>2, <1>5, SetupKeeps DEF SetupDoes
  <1>6. CASE OpenStart(main)
    <2>1. CASE StartDoes
      BY <2>1 DEF StartDoes, SlotWritten
    <2>2. QED
      BY <1>2, <1>6, <2>1, StartKeeps
  <1>7. CASE OpenRefused(main) \/ Status(main)
    BY <1>7, RefusedKeeps, StatusKeeps DEF RefusedDoes, StatusDoes
  <1>8. ASSUME NEW op, EndBegin(main, op)
        PROVE  /\ table'.cap = table.cap
               /\ \A n \in Services : svc'[n].wild = svc[n].wild
    BY <1>8, EndBeginKeeps DEF EndBeginDoes, SameRun
  <1>9. CASE StopEnd(main)
    BY <1>9, StopEndKeeps DEF StopDoes, SlotWritten
  <1>10. CASE CloseEnd(main)
    BY <1>10, CloseEndKeeps DEF CloseDoes, SlotWritten, SameRun
  <1>11. QED
    BY <1>1, <1>3, <1>4, <1>5, <1>6, <1>7, <1>8, <1>9, <1>10 DEF Command

(* A thread at work holds a pointer of the present array.                   *)
LEMMA WildThread ==
    ASSUME RunnerIInv, StatusInv, WildInv, NEW n \in Services, Thread(n)
    PROVE  WildInv'
  <1>1. /\ table'.cap = table.cap
        /\ \A m \in Services : m # n => svc'[m] = svc[m]
        /\ svc'[n].wild = Wild(n) /\ svc[n].st \in Working
    BY ThreadKeeps DEF ThreadDoes, SlotWritten, Working
  <1>2. table.cap <= InitialCap => svc[n].gen = table.gen /\ ~svc[n].wild
    BY <1>1 DEF StatusInv, WildInv
  <1>3. table.cap <= InitialCap => ~Wild(n)
    BY <1>2, Zenon DEF Wild
  <1>4. ASSUME table'.cap <= InitialCap, NEW m \in Services
        PROVE  ~svc'[m].wild
    <2>1. table.cap <= InitialCap
      BY <1>1, <1>4
    <2>2. CASE m = n
      BY <1>1, <1>3, <2>1, <2>2, Zenon
    <2>3. CASE m # n
      <3>1. svc'[m] = svc[m]
        BY <1>1, <2>3
      <3>2. QED
        BY <2>1, <3>1, Zenon DEF WildInv
    <2>4. QED
      BY <2>2, <2>3
  <1>5. QED
    BY <1>4, Zenon DEF WildInv

(* So no step marks a thread.                                               *)
LEMMA WildInvNext ==
    RunnerIInv /\ StatusInv /\ WildInv /\ [Next]_vars => WildInv'
  <1> SUFFICES ASSUME RunnerIInv, StatusInv, WildInv, [Next]_vars
               PROVE  WildInv'
    OBVIOUS
  <1>1. CASE UNCHANGED runnerVars
    BY <1>1 DEF runnerVars, WildInv
  <1>2. CASE Command(main)
    BY <1>2, WildCommand, Zenon DEF WildInv
  <1>3. QED
    BY <1>1, <1>2, WildThread, RunnerStep

(* As long as the table has not outgrown its first allocation (eight slots  *)
(* in the code), whatever the commands and the ends of the services: no     *)
(* service thread works on a context redp2p_close has freed or through a    *)
(* slot pointer realloc has made stale, and no context is freed twice       *)
(* (redp2p_runner_close joins the thread first and leaves NULL in the slot, *)
(* and failed opens release only their own).  With the next allocation the  *)
(* pointer of redp2p_runner_thread may lead to freed memory, from which it  *)
(* takes the operation, the context and the index host.                     *)
THEOREM ContextsOwned == Spec => [](table.cap <= InitialCap => ContextOwned)
  <1>1. RunnerIInv /\ WildInv => (table.cap <= InitialCap => ContextOwned)
    <2> SUFFICES ASSUME RunnerIInv, WildInv, table.cap <= InitialCap,
                        NEW n \in Services
                 PROVE  /\ svc[n].st \in {"start", "run", "result"} =>
                              svc[n].ctx = "open"
                        /\ ~svc[n].bad /\ ~svc[n].wild
      BY DEF ContextOwned
    <2>1. ~svc[n].bad /\ ThreadOwned(n) /\ n # 0
      BY DEF RunnerIInv, OwnedInv, Services
    <2>2. ~svc[n].wild
      BY DEF WildInv
    <2>3. CASE svc[n].st \in Working
      <3>1. /\ svc[n].slot \in Used
            /\ table.slots[svc[n].slot].thread = n
            /\ SlotOwned(svc[n].slot)
        BY <2>1, <2>3 DEF RunnerIInv, OwnedInv, ThreadOwned
      <3>2. QED
        BY <2>1, <2>2, <3>1 DEF SlotOwned
    <2>4. QED
      BY <2>1, <2>2, <2>3 DEF Working
  <1>2. Init => WildInv
    <2>1. Init => \A n \in Services : svc[n] = NoService
      BY DEF Init, RunnerInit
    <2>2. QED
      BY <2>1 DEF WildInv, NoService
  <1>3. QED
    BY <1>1, <1>2, RunnerIInvInit, RunnerIInvNext, StatusInvInit,
       StatusInvNext, WildInvNext, PTL DEF Spec

-----------------------------------------------------------------------------
(* The exit of the program.                                                 *)

Clean ==
    \A n \in Services : /\ svc[n].st \in {"none", "done"}
                        /\ svc[n].ctx \in {"none", "freed"}

(* The service of the program is in main's slot, its thread started: the    *)
(* slot says "running" until the thread has stored its result and its end.  *)
Live ==
    LET i == host[main].slot
    IN  /\ opened = 1 /\ i \in Used
        /\ table.slots[i].thread = 1
        /\ svc[1].st # "none" /\ svc[1].slot = i /\ svc[1].gen = table.gen
        /\ svc[1].st \in {"state", "done"} => table.slots[i].result = svc[1].ret
        /\ svc[1].st = "done" <=> table.slots[i].state # "running"

(* It has been stopped and joined.                                          *)
Stopped ==
    LET i == host[main].slot
    IN  /\ opened = 1 /\ i \in Used /\ table.slots[i].thread = 0
        /\ table.slots[i].ctx = 1 /\ svc[1].st = "done"

(* Its context has been released.                                           *)
Closed ==
    LET i == host[main].slot
    IN  /\ i \in Used /\ table.slots[i].thread = 0 /\ table.slots[i].ctx = 0
        /\ Clean

OpeningOK ==
    \/ /\ host[main].pc \in {"clear", "context"} /\ host[main].op = "open"
       /\ opened = 0
    \/ /\ host[main].pc \in {"setup", "start"} /\ host[main].op = "open"
       /\ opened = 1
    \/ Ready /\ host[main].op = "failed" /\ Clean
    \/ Ready /\ host[main].op = "unanswered"
    \/ Ready /\ host[main].op = "open" /\ Live

AskedOK ==
    host[main].said # "running" =>
        svc[1].st = "done" /\ host[main].said = svc[1].ret

(* Where main is, and what it has of the runner there.                      *)
PcInv ==
    /\ pc \in {"open", "opening", "pid", "install", "loop", "asked",
               "stopping", "closing", "reset", "close", "last", "exit"}
    /\ pc = "open" => Ready /\ opened = 0
    /\ pc = "opening" => OpeningOK
    /\ pc \in {"pid", "install", "loop", "asked"} => Ready /\ Live
    /\ pc = "asked" => AskedOK
    /\ pc = "stopping" =>
          \/ host[main].pc = "join" /\ host[main].op = "stop" /\ Live
          \/ Ready /\ (Live \/ Stopped)
    /\ pc = "closing" =>
          \/ /\ host[main].pc = "join" /\ host[main].op = "close"
             /\ Live \/ Stopped
          \/ Ready /\ (Live \/ Stopped \/ Closed)
    /\ pc \in {"reset", "close"} => Ready /\ (Live \/ Stopped \/ Closed)
    /\ pc = "last" =>
          \/ /\ host[main].pc = "join" /\ host[main].op = "close"
             /\ Live \/ Stopped \/ Closed
          \/ Ready /\ (Closed \/ lost)

(* What main knows of the result, of the PID path and of its exit status.   *)
ResultInv ==
    /\ pc \notin {"reset", "close", "last", "exit"} => result = "unset"
    /\ result # "unset" /\ wait = 0 =>
          1 \in Services /\ svc[1].st = "done" /\ result = svc[1].ret

PathInv == pc \in {"open", "opening", "close", "last"} => path \in {"absent", "stale"}

ExitInv ==
    /\ code # "none" => pc = "exit"
    /\ ByItself => path \in {"absent", "stale"} /\ (~lost => Clean)
    /\ ByItself /\ wait = 0 /\ result # "unset" =>
          (code = "success" <=> result = "ok")

CliInv ==
    /\ program \in {"cli", "embedded"}
    /\ program = "embedded" => pc = "open" /\ code = "none"
    /\ program = "cli" => PcInv /\ ResultInv /\ PathInv /\ ExitInv

(* Before the first context there is nothing to leave behind.               *)
LEMMA NothingOpened ==
    ASSUME RunnerIInv, opened = 0
    PROVE  Clean
  <1>1. \A n \in Services : svc[n] = NoService
    BY DEF RunnerIInv, OwnedInv, Services
  <1>2. QED
    BY <1>1 DEF Clean, NoService

(* The only service is the first.                                           *)
LEMMA OneService ==
    ASSUME RunnerIInv, opened = 1
    PROVE  /\ 1 \in Services
           /\ \A n \in Services :
                n # 1 => svc[n].st = "none" /\ svc[n].ctx = "none"
  <1>1. 1 \in Services
    BY DEF RunnerIInv, Shape, Services
  <1>2. \A n \in Services : n # 1 => svc[n] = NoService
    BY DEF RunnerIInv, OwnedInv, Services
  <1>3. QED
    BY <1>1, <1>2 DEF NoService

(* A step that leaves table, handle and threads alone leaves these facts.   *)
LEMMA CliKept ==
    ASSUME table' = table, opened' = opened, SameHandle,
           \A m \in Services : SameRun(m) /\ svc'[m].ctx = svc[m].ctx,
           opened = 1 => 1 \in Services
    PROVE  /\ Live => Live'
           /\ Stopped => Stopped'
           /\ Closed => Closed'
           /\ Clean => Clean'
  <1>1. Used' = Used
    BY DEF Used
  <1>2. Clean => Clean'
    BY DEF Clean, SameRun
  <1>3. QED
    BY <1>1, <1>2 DEF Live, Stopped, Closed, SameRun, SameHandle

(* main's first close finds the context in the slot, a second one does not. *)
LEMMA CloseReleases ==
    ASSUME RunnerIInv, CloseDoes, Live \/ Stopped \/ Closed
    PROVE  Closed'
  <1> PICK i : i = host[main].slot
    OBVIOUS
  <1> DEFINE n == table.slots[i].ctx
  <1>1. /\ i \in Used /\ Used' = Used /\ host'[main].slot = i
        /\ table'.slots[i].thread = 0 /\ table'.slots[i].ctx = 0
        /\ \A m \in Services : SameRun(m) /\ (m # n => svc'[m] = svc[m])
        /\ n # 0 => n \in Services /\ svc'[n].ctx = "freed"
        /\ Joined(main)
    BY DEF CloseDoes, SlotWritten, SameHandle
  <1>2. CASE Live
    <2>1. /\ table.slots[i].thread = 1 /\ opened = 1 /\ svc[1].st = "done"
      BY <1>1, <1>2 DEF Live, Joined, Slot
    <2>2. SlotOwned(i)
      BY <1>1 DEF RunnerIInv, OwnedInv
    <2>3. n = 1
      BY <2>1, <2>2 DEF SlotOwned
    <2>4. Clean'
      BY <1>1, <2>1, <2>3, OneService DEF Clean, SameRun
    <2>5. QED
      BY <1>1, <2>4 DEF Closed
  <1>3. CASE Stopped
    <2>1. n = 1 /\ opened = 1 /\ svc[1].st = "done"
      BY <1>3 DEF Stopped
    <2>2. Clean'
      BY <1>1, <2>1, OneService DEF Clean, SameRun
    <2>3. QED
      BY <1>1, <2>2 DEF Closed
  <1>4. CASE Closed
    <2>1. n = 0 /\ Clean
      BY <1>4 DEF Closed
    <2>2. \A m \in Services : m # 0
      BY DEF Services
    <2>3. Clean'
      BY <1>1, <2>1, <2>2 DEF Clean
    <2>4. QED
      BY <1>1, <2>3 DEF Closed
  <1>5. QED
    BY <1>2, <1>3, <1>4

(* A failed open leaves nothing behind.                                     *)
LEMMA FailClean ==
    ASSUME RunnerIInv, FailDoes, opened \in {0, 1},
           host[main].pc \in {"clear", "context"} => opened = 0
    PROVE  Clean'
  <1> DEFINE n == table.slots[host[main].slot].ctx
  <1>1. /\ \A m \in Services : SameRun(m) /\ (m # n => svc'[m] = svc[m])
        /\ n # 0 => n \in Services /\ svc'[n].ctx = "freed"
        /\ host[main].pc \in Opening
    BY DEF FailDoes
  <1>2. CASE opened = 0
    <2>1. n = 0
      <3>1. host[main].slot \in Used /\ SlotOwned(host[main].slot)
        BY <1>1, OpeningSlot DEF RunnerIInv, OwnedInv
      <3>2. n \in Nat
        BY <1>1, OpeningSlot DEF SlotType
      <3>3. QED
        BY <1>2, <3>1, <3>2 DEF SlotOwned
    <2>2. Clean /\ \A m \in Services : m # 0
      BY <1>2, NothingOpened DEF Services
    <2>3. QED
      BY <1>1, <2>1, <2>2 DEF Clean
  <1>3. CASE opened = 1
    <2>1. n = 1 /\ svc[1].st = "none"
      BY <1>1, <1>3 DEF RunnerIInv, HostInv, Opening
    <2>2. QED
      BY <1>1, <1>3, <2>1, OneService DEF Clean, SameRun
  <1>4. QED
    BY <1>2, <1>3

(* Steps outside the runner.                                                *)
LEMMA RunnerSame ==
    ASSUME UNCHANGED runnerVars
    PROVE  /\ Live' <=> Live
           /\ Stopped' <=> Stopped
           /\ Closed' <=> Closed
           /\ Clean' <=> Clean
           /\ Ready' <=> Ready
           /\ OpeningOK' <=> OpeningOK
           /\ AskedOK' <=> AskedOK
           /\ host' = host /\ opened' = opened /\ svc' = svc
  <1>1. /\ table' = table /\ host' = host /\ svc' = svc /\ opened' = opened
    BY DEF runnerVars
  <1>2. Used' = Used /\ (Clean' <=> Clean) /\ (Ready' <=> Ready)
    BY <1>1 DEF Used, Clean, Ready
  <1>3. Live' <=> Live
    BY <1>1, <1>2 DEF Live
  <1>4. /\ Stopped' <=> Stopped
        /\ Closed' <=> Closed
    BY <1>1, <1>2 DEF Stopped, Closed
  <1>5. OpeningOK' <=> OpeningOK
    BY <1>1, <1>2, <1>3 DEF OpeningOK
  <1>6. AskedOK' <=> AskedOK
    BY <1>1 DEF AskedOK
  <1>7. QED
    BY <1>1, <1>2, <1>3, <1>4, <1>5, <1>6

(* main's steps that call no runner command.                                *)
LEMMA MainQuiet ==
    ASSUME RunnerIInv, CliInv, program = "cli",
           \/ Opened \/ PidWrite \/ InstallHandlers \/ Interrupted
           \/ Answered \/ PidRemove \/ Finish
    PROVE  CliInv'
  <1>1. PcInv /\ ResultInv /\ PathInv /\ ExitInv
    BY DEF CliInv
  <1>2. UNCHANGED runnerVars /\ program' = program
    BY DEF Opened, PidWrite, InstallHandlers, Interrupted, Answered,
       PidRemove, Finish
  <1>3. /\ Live' <=> Live
        /\ Stopped' <=> Stopped
        /\ Closed' <=> Closed
        /\ Clean' <=> Clean
        /\ Ready' <=> Ready
        /\ OpeningOK' <=> OpeningOK
        /\ AskedOK' <=> AskedOK
        /\ host' = host /\ opened' = opened /\ svc' = svc
    BY <1>2, RunnerSame
  <1>4. SUFFICES PcInv' /\ ResultInv' /\ PathInv' /\ ExitInv'
    BY <1>2 DEF CliInv
  <1>5. CASE Opened
    <2>1. /\ pc = "opening" /\ Ready
          /\ path' = path /\ wait' = wait /\ result' = result
          /\ \/ /\ pc' = "exit" /\ code' = "failure"
                /\ host[main].op = "failed" \/ lost'
             \/ /\ host[main].op = "open" /\ pc' = "pid" /\ code' = code
                /\ lost' = lost
      BY <1>5, Zenon DEF Opened, Exit
    <2>2. /\ OpeningOK /\ result = "unset" /\ path \in {"absent", "stale"}
          /\ code = "none"
      BY <1>1, <2>1 DEF PcInv, ResultInv, PathInv, ExitInv
    <2>3. CASE pc' = "exit" /\ code' = "failure"
      <3>1. ~lost' => Clean
        BY <2>1, <2>2, <2>3 DEF OpeningOK, Ready
      <3>2. QED
        BY <1>3, <2>1, <2>2, <2>3, <3>1 DEF PcInv, ResultInv, PathInv, ExitInv
    <2>4. CASE host[main].op = "open" /\ pc' = "pid" /\ code' = code
      <3>1. Live
        BY <2>1, <2>2, <2>4 DEF OpeningOK, Ready
      <3>2. QED
        BY <1>3, <2>1, <2>2, <2>4, <3>1 DEF PcInv, ResultInv, PathInv, ExitInv,
           ByItself
    <2>5. QED
      BY <2>1, <2>3, <2>4
  <1>6. CASE PidWrite \/ InstallHandlers
    <2>1. /\ wait' = wait /\ result' = result /\ code' = code
          /\ \/ pc = "pid" /\ pc' = "install"
             \/ pc = "install" /\ pc' = "loop"
      BY <1>6 DEF PidWrite, InstallHandlers, At
    <2>2. Ready /\ Live /\ result = "unset" /\ code = "none"
      BY <1>1, <2>1 DEF PcInv, ResultInv, ExitInv
    <2>3. QED
      BY <1>3, <2>1, <2>2 DEF PcInv, ResultInv, PathInv, ExitInv, ByItself
  <1>7. CASE Interrupted
    <2>1. /\ result' = result /\ code' = code /\ wait' = 2
          /\ pc = "closing" /\ pc' = "reset" /\ Ready
      BY <1>7 DEF Interrupted, At
    <2>2. (Live \/ Stopped \/ Closed) /\ code = "none"
      BY <1>1, <2>1 DEF PcInv, ExitInv, Ready
    <2>3. QED
      BY <1>3, <2>1, <2>2 DEF PcInv, ResultInv, PathInv, ExitInv, ByItself
  <1>8. CASE Answered
    <2>1. /\ pc = "asked" /\ path' = path /\ code' = code
          /\ \/ pc' = "loop" /\ wait' = wait /\ result' = result
             \/ /\ pc' = "reset" /\ wait' = 0 /\ host[main].said # "running"
                /\ result' = host[main].said
             \/ pc' = "reset" /\ wait' = 1 /\ result' = result
      BY <1>8 DEF Answered
    <2>2. /\ Ready /\ Live /\ AskedOK /\ result = "unset" /\ code = "none"
      BY <1>1, <2>1 DEF PcInv, ResultInv, ExitInv
    <2>3. 1 \in Services
      BY <2>2, OneService DEF Live
    <2>4. ResultInv'
      BY <1>3, <2>1, <2>2, <2>3 DEF ResultInv, AskedOK
    <2>5. QED
      BY <1>3, <2>1, <2>2, <2>4 DEF PcInv, PathInv, ExitInv, ByItself
  <1>9. CASE PidRemove
    <2>1. /\ result' = result /\ code' = code /\ wait' = wait
          /\ pc = "reset" /\ pc' = "close" /\ path' = "absent"
      BY <1>9 DEF PidRemove, At
    <2>2. Ready /\ (Live \/ Stopped \/ Closed) /\ code = "none"
      BY <1>1, <2>1 DEF PcInv, ExitInv
    <2>3. QED
      BY <1>1, <1>3, <2>1, <2>2 DEF PcInv, ResultInv, PathInv, ExitInv, ByItself
  <1>10. CASE Finish
    <2>1. /\ pc = "last" /\ Ready /\ pc' = "exit"
          /\ code' \in ExitCodes
          /\ path' = path /\ wait' = wait /\ result' = result
          /\ lost' = lost
      BY <1>10 DEF Finish, Exit
    <2>2. (Closed \/ lost) /\ path \in {"absent", "stale"}
      BY <1>1, <2>1 DEF PcInv, PathInv, Ready
    <2>3. ~lost => Clean
      BY <2>2 DEF Closed
    <2>4. wait = 0 /\ result # "unset" =>
             (code' = "success" <=> result = "ok")
      BY <2>1 DEF ExitCodes
    <2>5. ExitInv'
      BY <1>3, <2>1, <2>2, <2>3, <2>4 DEF ExitInv
    <2>6. QED
      BY <1>1, <1>3, <2>1, <2>5 DEF PcInv, ResultInv, PathInv
  <1>11. QED
    BY <1>5, <1>6, <1>7, <1>8, <1>9, <1>10

(* main's steps that call a runner command.                                 *)
LEMMA MainCalls ==
    ASSUME RunnerIInv, CliInv, program = "cli",
           Open \/ SeeSignal \/ CloseStopped \/ AskStatus \/ LastClose
    PROVE  CliInv'
  <1>1. PcInv /\ ResultInv /\ PathInv /\ ExitInv
    BY DEF CliInv
  <1>2. /\ program' = program /\ path' = path /\ wait' = wait
        /\ result' = result /\ code' = code
    BY DEF Open, SeeSignal, CloseStopped, AskStatus, LastClose
  <1>3. SUFFICES PcInv' /\ ResultInv' /\ PathInv' /\ ExitInv'
    BY <1>2 DEF CliInv
  <1>4. CASE Open
    <2>1. /\ pc = "open" /\ pc' = "opening"
          /\ OpenRefused(main) \/ OpenAlloc(main)
      BY <1>4 DEF Open, At
    <2>2. Ready /\ opened = 0 /\ result = "unset" /\ code = "none"
          /\ path \in {"absent", "stale"}
      BY <1>1, <2>1 DEF PcInv, ResultInv, PathInv, ExitInv
    <2>3. OpeningOK'
      <3>1. CASE OpenAlloc(main)
        <4>1. /\ host'[main].pc = "clear" /\ host'[main].op = "open"
              /\ opened' = opened
          BY <3>1, AllocKeeps DEF AllocDoes
        <4>2. QED
          BY <2>2, <4>1 DEF OpeningOK
      <3>2. CASE OpenRefused(main)
        <4>1. svc' = svc /\ Failed
          BY <3>2, RefusedKeeps DEF RefusedDoes
        <4>2. Clean'
          BY <2>2, <4>1, NothingOpened DEF Clean
        <4>3. QED
          BY <4>1, <4>2 DEF OpeningOK, Failed, Ready
      <3>3. QED
        BY <2>1, <3>1, <3>2
    <2>4. QED
      BY <1>2, <2>1, <2>2, <2>3 DEF PcInv, ResultInv, PathInv, ExitInv, ByItself
  <1>5. ASSUME NEW op, EndBegin(main, op)
        PROVE  /\ host'[main].pc = "join" /\ host'[main].op = op
               /\ Live => Live'
               /\ Stopped => Stopped'
               /\ Closed => Closed'
               /\ \A m \in Services : SameRun(m)
    <2>1. EndBeginDoes(op)
      BY <1>5, EndBeginKeeps
    <2>2. opened = 1 => 1 \in Services
      BY OneService
    <2>3. QED
      BY <2>1, <2>2, CliKept DEF EndBeginDoes
  <1>6. CASE SeeSignal
    <2>1. pc = "loop" /\ pc' = "stopping" /\ Ready /\ Request("stop")
      BY <1>6 DEF SeeSignal, At
    <2>2. Live /\ result = "unset" /\ code = "none"
      BY <1>1, <2>1 DEF PcInv, ResultInv, ExitInv
    <2>3. \/ host'[main].pc = "join" /\ host'[main].op = "stop" /\ Live'
          \/ Ready' /\ Live'
      BY <1>5, <2>1, <2>2, RunnerSame DEF Request
    <2>4. QED
      BY <1>2, <2>1, <2>2, <2>3 DEF PcInv, ResultInv, PathInv, ExitInv, ByItself
  <1>7. CASE CloseStopped
    <2>1. pc = "stopping" /\ pc' = "closing" /\ Ready /\ Request("close")
      BY <1>7 DEF CloseStopped, At
    <2>2. (Live \/ Stopped) /\ result = "unset" /\ code = "none"
      BY <1>1, <2>1 DEF PcInv, ResultInv, ExitInv, Ready
    <2>3. /\ \/ host'[main].pc = "join" /\ host'[main].op = "close"
             \/ Ready'
          /\ Live' \/ Stopped'
      BY <1>5, <2>1, <2>2, RunnerSame DEF Request
    <2>4. QED
      BY <1>2, <2>1, <2>2, <2>3 DEF PcInv, ResultInv, PathInv, ExitInv, ByItself
  <1>8. CASE LastClose
    <2>1. /\ pc = "close" /\ pc' = "last" /\ Ready
          /\ \/ EndBegin(main, "close")
             \/ UNCHANGED runnerVars /\ lost'
      BY <1>8 DEF LastClose, At
    <2>2. /\ Live \/ Stopped \/ Closed
          /\ code = "none" /\ path \in {"absent", "stale"}
      BY <1>1, <2>1 DEF PcInv, ExitInv, PathInv
    <2>3. /\ \/ /\ host'[main].pc = "join" /\ host'[main].op = "close"
                /\ Live' \/ Stopped' \/ Closed'
             \/ Ready' /\ lost'
          /\ \A m \in Services : svc'[m].st = svc[m].st /\ svc'[m].ret = svc[m].ret
      <3>1. CASE EndBegin(main, "close")
        BY <1>5, <2>2, <3>1 DEF SameRun
      <3>2. CASE UNCHANGED runnerVars /\ lost'
        BY <2>1, <3>2, RunnerSame
      <3>3. QED
        BY <2>1, <3>1, <3>2
    <2>4. ResultInv'
      BY <1>1, <1>2, <2>1, <2>3 DEF ResultInv
    <2>5. QED
      BY <1>2, <2>1, <2>2, <2>3, <2>4 DEF PcInv, PathInv, ExitInv, ByItself
  <1>9. CASE AskStatus
    <2>1. pc = "loop" /\ pc' = "asked" /\ Status(main)
      BY <1>9 DEF AskStatus, At
    <2>2. Live /\ result = "unset" /\ code = "none"
      BY <1>1, <2>1 DEF PcInv, ResultInv, ExitInv
    <2>3. StatusDoes
      BY <2>1, StatusKeeps
    <2>4. Live' /\ Ready'
      <3>1. opened = 1 => 1 \in Services
        BY OneService
      <3>2. QED
        BY <2>2, <2>3, <3>1, CliKept DEF StatusDoes, SameRun, Ready
    <2>5. AskedOK'
      <3>1. /\ table.slots[host[main].slot].state # "running" =>
                  svc[1].st = "done"
            /\ svc[1].st = "done" =>
                  table.slots[host[main].slot].result = svc[1].ret
        BY <2>2 DEF Live
      <3>2. QED
        BY <2>3, <3>1 DEF StatusDoes, AskedOK, Slot
    <2>6. QED
      BY <1>2, <2>1, <2>2, <2>4, <2>5
         DEF PcInv, ResultInv, PathInv, ExitInv, ByItself
  <1>10. QED
    BY <1>4, <1>6, <1>7, <1>8, <1>9

(* The steps inside a runner command main has called.                       *)
LEMMA MainCommand ==
    ASSUME RunnerIInv, StatusInv, CliInv, program = "cli", CommandStep
    PROVE  CliInv'
  <1>1. PcInv /\ ResultInv /\ PathInv /\ ExitInv
    BY DEF CliInv
  <1>2. /\ program' = program /\ pc' = pc /\ path' = path /\ wait' = wait
        /\ result' = result /\ code' = code /\ pc # "exit" /\ code = "none"
        /\ lost' = lost
    BY <1>1 DEF CommandStep, cliVars, Alive, ExitInv
  <1>3. SUFFICES PcInv' /\ ResultInv'
    BY <1>1, <1>2 DEF CliInv, PathInv, ExitInv, ByItself
  <1>4. ASSUME host[main].pc \in Opening
        PROVE  /\ pc = "opening" /\ host[main].op = "open" /\ result = "unset"
               /\ host[main].pc \in {"clear", "context"} => opened = 0
               /\ host[main].pc \in {"setup", "start"} => opened = 1
    BY <1>1, <1>2, <1>4 DEF PcInv, ResultInv, OpeningOK, Opening, Ready
  <1>5. ASSUME pc = "opening", result = "unset", OpeningOK'
        PROVE  PcInv' /\ ResultInv'
    BY <1>2, <1>5 DEF PcInv, ResultInv
  <1>6. ASSUME FailDoes, Failed
        PROVE  PcInv' /\ ResultInv'
    <2>1. host[main].pc \in Opening
      BY <1>6 DEF FailDoes
    <2>2. Clean'
      BY <1>4, <1>6, <2>1, FailClean DEF Opening
    <2>3. OpeningOK'
      BY <1>6, <2>2 DEF OpeningOK, Failed, Ready
    <2>4. QED
      BY <1>4, <1>5, <2>1, <2>3
  <1>7. CASE OpenClear(main)
    <2>1. /\ host[main].pc = "clear" /\ host'[main].pc = "context"
          /\ host'[main].op = host[main].op /\ opened' = opened
      BY <1>7, ClearKeeps DEF OpenClear, SameCommand
    <2>2. OpeningOK'
      BY <1>4, <2>1 DEF OpeningOK, Opening
    <2>3. QED
      BY <1>4, <1>5, <2>1, <2>2 DEF Opening
  <1>8. CASE OpenContext(main)
    <2>1. CASE ContextDoes
      <3>1. /\ host[main].pc = "context" /\ host'[main].pc = "setup"
            /\ host'[main].op = host[main].op /\ opened' = opened + 1
        BY <2>1 DEF ContextDoes
      <3>2. OpeningOK'
        BY <1>4, <3>1 DEF OpeningOK, Opening
      <3>3. QED
        BY <1>4, <1>5, <3>1, <3>2 DEF Opening
    <2>2. QED
      BY <1>6, <1>8, <2>1, ContextKeeps
  <1>9. CASE OpenSetup(main)
    <2>1. CASE SetupDoes
      <3>1. /\ host[main].pc = "setup" /\ host'[main].pc = "start"
            /\ host'[main].op = host[main].op /\ opened' = opened
        BY <2>1 DEF SetupDoes, SameCommand
      <3>2. OpeningOK'
        BY <1>4, <3>1 DEF OpeningOK, Opening
      <3>3. QED
        BY <1>4, <1>5, <3>1, <3>2 DEF Opening
    <2>2. QED
      BY <1>6, <1>9, <2>1, SetupKeeps
  <1>10. CASE OpenStart(main)
    <2>1. CASE StartDoes
      <3> PICK i, n : i = host[main].slot /\ n = host[main].n
        OBVIOUS
      <3>1. /\ host[main].pc = "start" /\ host'[main].pc = "idle"
            /\ opened' = opened /\ i \in Used /\ Used' = Used
            /\ \/ host'[main].op = host[main].op /\ host'[main].slot = i
               \/ host'[main].op = "unanswered"
            /\ table'.gen = table.gen
            /\ table'.slots[i].thread = n
            /\ table'.slots[i].state = table.slots[i].state
            /\ svc'[n].st = "start" /\ svc'[n].slot = i
            /\ svc'[n].gen = table.gen
        BY <2>1 DEF StartDoes, SameCommand, SameHandle, SlotWritten
      <3>2. opened = 1 /\ host[main].op = "open" /\ pc = "opening"
            /\ result = "unset"
        BY <1>4, <3>1 DEF Opening
      <3>3. n = 1
        BY <3>1, <3>2 DEF RunnerIInv, HostInv
      <3>4. table.slots[i].state = "running"
        BY <3>1 DEF StatusInv
      <3>5. ASSUME host'[main].op = host[main].op, host'[main].slot = i
            PROVE  OpeningOK'
        <4>1. Live'
          BY <3>1, <3>2, <3>3, <3>4, <3>5 DEF Live
        <4>2. QED
          BY <3>1, <3>2, <3>5, <4>1 DEF OpeningOK, Ready
      <3>6. OpeningOK'
        BY <3>1, <3>5 DEF OpeningOK, Ready
      <3>7. QED
        BY <1>5, <3>2, <3>6
    <2>2. QED
      BY <1>6, <1>10, <2>1, StartKeeps
  <1>11. CASE StopEnd(main)
    <2> PICK i : i = host[main].slot
      OBVIOUS
    <2>1. /\ host[main].pc = "join" /\ host[main].op = "stop" /\ Joined(main)
          /\ i \in Used /\ Used' = Used /\ table'.slots[i].thread = 0
          /\ table'.slots[i].ctx = table.slots[i].ctx
          /\ svc' = svc /\ opened' = opened
          /\ host'[main].pc = "idle" /\ host'[main].slot = i
      BY <1>11, StopEndKeeps DEF StopDoes, SlotWritten, SameHandle
    <2>2. pc = "stopping" /\ Live /\ result = "unset"
      BY <1>1, <1>2, <2>1 DEF PcInv, ResultInv, OpeningOK, Ready
    <2>3. /\ opened = 1 /\ table.slots[i].thread = 1
      BY <2>2 DEF Live
    <2>4. svc[1].st = "done"
      BY <2>1, <2>3 DEF Joined, Slot
    <2>5. SlotOwned(i)
      BY <2>1 DEF RunnerIInv, OwnedInv
    <2>6. table.slots[i].ctx = 1
      BY <2>3, <2>5 DEF SlotOwned
    <2>7. Stopped' /\ Ready'
      BY <2>1, <2>3, <2>4, <2>6 DEF Stopped, Ready
    <2>8. QED
      BY <1>2, <2>2, <2>7 DEF PcInv, ResultInv
  <1>12. CASE CloseEnd(main)
    <2>1. /\ CloseDoes /\ host[main].pc = "join" /\ host[main].op = "close"
          /\ host'[main].pc = "idle"
          /\ \A m \in Services : SameRun(m)
      BY <1>12, CloseEndKeeps DEF CloseDoes
    <2>2. /\ pc \in {"closing", "last"}
          /\ Live \/ Stopped \/ Closed
      BY <1>1, <1>2, <2>1 DEF PcInv, OpeningOK, Ready
    <2>3. Closed' /\ Ready'
      BY <2>1, <2>2, CloseReleases DEF Ready
    <2>4. ResultInv'
      BY <1>1, <1>2, <2>1 DEF ResultInv, SameRun
    <2>5. QED
      BY <1>2, <2>2, <2>3, <2>4 DEF PcInv
  <1>13. QED
    BY <1>7, <1>8, <1>9, <1>10, <1>11, <1>12 DEF CommandStep

(* The service thread returns and stores while main is anywhere between the *)
(* open and the join.                                                       *)
LEMMA MainThread ==
    ASSUME RunnerIInv, CliInv, program = "cli",
           NEW n \in Services, ServiceStep(n)
    PROVE  CliInv'
  <1>1. PcInv /\ ResultInv /\ PathInv /\ ExitInv
    BY DEF CliInv
  <1>2. /\ program' = program /\ pc' = pc /\ path' = path /\ wait' = wait
        /\ result' = result /\ code' = code /\ pc # "exit" /\ code = "none"
        /\ Thread(n) /\ lost' = lost
    BY <1>1 DEF ServiceStep, cliVars, Alive, ExitInv
  <1>3. SUFFICES PcInv' /\ ResultInv'
    BY <1>1, <1>2 DEF CliInv, PathInv, ExitInv, ByItself
  <1>4. ThreadDoes(n)
    BY <1>2, ThreadKeeps
  <1>5. svc[n].st \in Working /\ host' = host /\ opened' = opened
    BY <1>4 DEF ThreadDoes, Working
  <1>6. ~Clean
    BY <1>5 DEF Clean, Working
  <1>7. ASSUME Live PROVE n = 1 /\ Live'
    <2> PICK i : i = host[main].slot
      OBVIOUS
    <2>1. n = 1
      BY <1>5, <1>7, OneService DEF Live, Working
    <2>2. /\ i \in Used /\ svc[1].slot = i /\ svc[1].gen = table.gen
          /\ opened = 1
          /\ svc[1].st \in {"state", "done"} =>
                table.slots[i].result = svc[1].ret
          /\ svc[1].st = "done" <=> table.slots[i].state # "running"
      BY <1>7 DEF Live
    <2>3. /\ Used' = Used /\ table'.gen = table.gen
          /\ svc'[1].slot = i /\ svc'[1].gen = svc[1].gen
          /\ table'.slots[i].thread = 1
          /\ \/ /\ svc[1].st = "start" /\ svc'[1].st = "run"
                /\ table'.slots[i] = table.slots[i]
             \/ /\ svc[1].st = "run" /\ svc'[1].st = "result"
                /\ table'.slots[i] = table.slots[i]
             \/ /\ svc[1].st = "result" /\ svc'[1].st = "state"
                /\ svc'[1].ret = svc[1].ret
                /\ table'.slots[i].state = table.slots[i].state
                /\ svc[1].gen = table.gen => table'.slots[i].result = svc[1].ret
             \/ /\ svc[1].st = "state" /\ svc'[1].st = "done"
                /\ svc'[1].ret = svc[1].ret
                /\ table'.slots[i].result = table.slots[i].result
                /\ svc[1].gen = table.gen => table'.slots[i].state = "finished"
      BY <1>4, <2>1, <2>2 DEF ThreadDoes, SlotWritten
    <2>4. Live'
      BY <1>5, <2>2, <2>3 DEF Live
    <2>5. QED
      BY <2>1, <2>4
  <1>8. opened # 0
    BY <1>6, NothingOpened
  <1>9. ~Closed
    BY <1>6 DEF Closed
  <1>10. ~Stopped
    BY <1>5, OneService DEF Stopped, Working
  <1>11. ASSUME host[main].pc \in {"setup", "start"}, opened = 1
         PROVE  FALSE
    <2>1. host[main].n = 1 /\ svc[1].st = "none"
      BY <1>11 DEF RunnerIInv, HostInv
    <2>2. QED
      BY <1>5, <1>11, <2>1, OneService DEF Working
  <1>12. PcInv'
    <2>1. Ready' <=> Ready
      BY <1>5 DEF Ready
    <2>2. pc = "asked" => AskedOK'
      <3>1. pc = "asked" => AskedOK /\ Live
        BY <1>1 DEF PcInv
      <3>2. pc = "asked" => n = 1
        BY <1>7, <3>1
      <3>3. QED
        BY <1>5, <3>1, <3>2 DEF AskedOK, Working
    <2>3. pc = "opening" => OpeningOK'
      <3>1. pc = "opening" =>
               /\ Ready
               /\ \/ host[main].op = "unanswered"
                  \/ host[main].op = "open" /\ Live
        BY <1>1, <1>6, <1>8, <1>11 DEF PcInv, OpeningOK
      <3>2. QED
        BY <1>5, <1>7, <2>1, <3>1 DEF OpeningOK
    <2>4. QED
      BY <1>1, <1>2, <1>5, <1>7, <1>8, <1>9, <1>10, <2>1, <2>2, <2>3 DEF PcInv
  <1>13. ResultInv'
    <2>1. ASSUME result # "unset", wait = 0
          PROVE  1 \in Services /\ svc'[1] = svc[1]
      <3>1. 1 \in Services /\ svc[1].st = "done"
        BY <1>1, <2>1 DEF ResultInv
      <3>2. n # 1
        BY <1>5, <3>1 DEF Working
      <3>3. QED
        BY <1>4, <3>1, <3>2 DEF ThreadDoes
    <2>2. QED
      BY <1>1, <1>2, <2>1 DEF ResultInv
  <1>14. QED
    BY <1>12, <1>13

(* Signals and --down, at any point.                                        *)
LEMMA MainSignalled ==
    ASSUME CliInv, program = "cli", Signal \/ Down
    PROVE  CliInv'
  <1>1. PcInv /\ ResultInv /\ PathInv /\ ExitInv
    BY DEF CliInv
  <1>2. /\ UNCHANGED runnerVars /\ program' = program /\ wait' = wait
        /\ result' = result /\ lost' = lost
        /\ path' = path \/ path' = "absent"
        /\ \/ pc' = pc /\ code' = code
           \/ pc # "exit" /\ pc' = "exit" /\ code' = "killed"
    BY DEF Signal, Down, Signalled, Alive, Exit
  <1>3. /\ Live' <=> Live
        /\ Stopped' <=> Stopped
        /\ Closed' <=> Closed
        /\ Clean' <=> Clean
        /\ Ready' <=> Ready
        /\ OpeningOK' <=> OpeningOK
        /\ AskedOK' <=> AskedOK
        /\ host' = host /\ opened' = opened /\ svc' = svc
    BY <1>2, RunnerSame
  <1>4. CASE pc' = pc /\ code' = code
    BY <1>1, <1>2, <1>3, <1>4
       DEF CliInv, PcInv, ResultInv, PathInv, ExitInv, ByItself
  <1>5. CASE pc' = "exit" /\ code' = "killed"
    BY <1>1, <1>2, <1>3, <1>5
       DEF CliInv, PcInv, ResultInv, PathInv, ExitInv, ByItself
  <1>6. QED
    BY <1>2, <1>4, <1>5

(* The start of the program.                                                *)
LEMMA CliInvInit == Init => CliInv
  <1> SUFFICES ASSUME Init PROVE CliInv
    OBVIOUS
  <1>1. /\ host = [h \in {main} |-> Idle] /\ opened = 0
    BY DEF Init, RunnerInit
  <1>2. host[main].pc = "idle"
    BY <1>1 DEF Idle
  <1>3. QED
    BY <1>1, <1>2 DEF Init, CliInv, PcInv, ResultInv, PathInv, ExitInv,
       ByItself, Ready

(* Every step of main, of the service, of a signal, of --down.              *)
LEMMA CliInvNext ==
    RunnerIInv /\ StatusInv /\ CliInv /\ [Next]_vars => CliInv'
  <1> SUFFICES ASSUME RunnerIInv, StatusInv, CliInv, [Next]_vars
               PROVE  CliInv'
    OBVIOUS
  <1>1. CASE UNCHANGED vars
    <2>1. /\ UNCHANGED runnerVars /\ program' = program /\ pc' = pc
          /\ path' = path /\ wait' = wait /\ result' = result /\ code' = code
          /\ lost' = lost
      BY <1>1 DEF vars, cliVars
    <2>2. /\ Live' <=> Live
          /\ Stopped' <=> Stopped
          /\ Closed' <=> Closed
          /\ Clean' <=> Clean
          /\ Ready' <=> Ready
          /\ OpeningOK' <=> OpeningOK
          /\ AskedOK' <=> AskedOK
          /\ host' = host /\ opened' = opened /\ svc' = svc
      BY <2>1, RunnerSame
    <2>3. QED
      BY <2>1, <2>2 DEF CliInv, PcInv, ResultInv, PathInv, ExitInv, ByItself
  <1>2. CASE program = "embedded" /\ Next
    <2>1. pc = "open" /\ code = "none"
      BY <1>2 DEF CliInv
    <2>2. EmbeddedStep
      BY <1>2, <2>1 DEF Next, MainStep, Open, Opened, PidWrite,
         InstallHandlers, SeeSignal, CloseStopped, Interrupted, AskStatus,
         Answered, PidRemove, LastClose, Finish, At, Alive, CommandStep,
         Signal, Down, ServiceStep
    <2>3. program' = program /\ pc' = pc /\ code' = code
      BY <2>2 DEF EmbeddedStep, cliVars
    <2>4. QED
      BY <1>2, <2>1, <2>3 DEF CliInv
  <1>3. CASE program = "cli" /\ Next
    <2>1. \/ MainStep \/ CommandStep \/ Signal \/ Down
          \/ \E n \in Services : ServiceStep(n)
      BY <1>3 DEF Next, EmbeddedStep
    <2>2. CASE MainStep
      BY <1>3, <2>2, MainQuiet, MainCalls DEF MainStep
    <2>3. QED
      BY <1>3, <2>1, <2>2, MainCommand, MainSignalled, MainThread
  <1>4. QED
    BY <1>1, <1>2, <1>3 DEF CliInv

(* Whenever the program ends by itself - a failed open, a service that      *)
(* ended, a signal during any step of cli_runner_wait, stop and close       *)
(* requests of that wait that could not be built - its PID path is gone;    *)
(* and unless it could not read the answer to its open or make its last     *)
(* close, no thread is left and the context is released once (the exit      *)
(* paths of main).                                                          *)
THEOREM ExitsClean == Spec => []CleanExit
  <1>1. CliInv => CleanExit
    BY DEF CliInv, ExitInv, CleanExit, Clean, ByItself
  <1>2. QED
    BY <1>1, RunnerIInvInit, RunnerIInvNext, StatusInvInit, StatusInvNext,
       CliInvInit, CliInvNext, PTL DEF Spec

(* The exit status of a program that was told its service had finished is   *)
(* the service's: the result main read from the slot while the thread wrote *)
(* result and state is the one the operation returned.                      *)
THEOREM ExitsTell == Spec => []ExitTells
  <1>1. CliInv => ExitTells
    <2> SUFFICES ASSUME CliInv, ByItself, wait = 0, result # "unset"
                 PROVE  \E n \in Services :
                          /\ svc[n].st = "done"
                          /\ code = "success" <=> svc[n].ret = "ok"
      BY DEF ExitTells
    <2>1. program = "cli" /\ code # "none"
      BY DEF CliInv, ByItself
    <2>2. /\ 1 \in Services /\ svc[1].st = "done" /\ result = svc[1].ret
          /\ code = "success" <=> result = "ok"
      BY <2>1 DEF CliInv, ResultInv, ExitInv
    <2>3. QED
      BY <2>2
  <1>2. QED
    BY <1>1, RunnerIInvInit, RunnerIInvNext, StatusInvInit, StatusInvNext,
       CliInvInit, CliInvNext, PTL DEF Spec
=============================================================================
