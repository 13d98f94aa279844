----------------------------- MODULE IndexLoop -----------------------------
(***************************************************************************)
(* The event loop of redp2p_serve_index: the connection table, one         *)
(* accept and one reverse pass over the readable connections per           *)
(* iteration, the request timeout, the idle prune and the stop flag.       *)
(*                                                                         *)
(* What a request does to the tables is in module Index; here a request    *)
(* only says whether its handler evicts expired publisher records          *)
(* (register, heartbeat and deregister do, the other operations do not).   *)
(* Time is relative: ages saturate just past the limit they are compared   *)
(* with, so every behaviour of the clock is finite state.                  *)
(***************************************************************************)
EXTENDS Integers, Sequences, FiniteSets

CONSTANTS
    Clients,        \* client sockets
    MaxConns,       \* REDP2P_MAX_CONNECTIONS
    HttpTimeout,    \* REDP2P_HTTP_TIMEOUT_S, in ticks
    PruneInterval,  \* ctx->prune_interval_s, in ticks
    Expiring        \* what may reach its TTL: of "record" and "call"

ASSUME LoopAssumption ==
    /\ MaxConns \in Nat \ {0}
    /\ HttpTimeout \in Nat /\ PruneInterval \in Nat
    /\ Expiring \subseteq {"record", "call"}

VARIABLES
    pc,          \* where the loop is
    cursor,      \* i of redp2p_index_process_connections
    conns,       \* ctx->conns: [client, read, age], age = now - ts
    backlog,     \* connections the kernel completed, not yet accepted
    sock,        \* each client's socket: "none", "backlog", "open", "closed"
    avail,       \* what the next read of that socket returns
    readable,    \* runtime->readable_fds after select
    listening,   \* is the listener in readable_fds?
    sincePrune,  \* now - runtime->last_prune
    stale,       \* the publisher table holds an expired record
    staleCall,   \* the pending table holds an expired call
    stopReq,     \* ctx->stop_requested
    handled      \* history: connections this pass looked at

net == <<backlog, sock, avail>>
store == <<sincePrune, stale, staleCall>>
vars == <<pc, cursor, conns, backlog, sock, avail, readable, listening,
          sincePrune, stale, staleCall, stopReq, handled>>

\* Nothing; part of a request; its end; or what ends the connection with no
\* dispatch: EOF, a read error, a request the parser rejects.
Input == {"none", "part", "full", "end"}
Sockets == {"none", "backlog", "open", "closed"}
Conn == [client : Clients, read : BOOLEAN, age : 0 .. HttpTimeout + 1]

Older(n, limit) == IF n > limit THEN n ELSE n + 1

\* Mutant: the table shrinks without moving the last entry.
ConnRemoveNoMove(s, i) == SubSeq(s, 1, Len(s) - 1)

\* redp2p_index_conn_remove: the last entry takes the place of entry i.
ConnRemove(s, i) ==
    [j \in 1 .. Len(s) - 1 |-> IF j = i THEN s[Len(s)] ELSE s[j]]

InTable(c) == \E i \in DOMAIN conns : conns[i].client = c

-----------------------------------------------------------------------------
Init ==
    /\ pc = "prepare" /\ cursor = 0
    /\ conns = << >> /\ backlog = << >>
    /\ sock = [c \in Clients |-> "none"]
    /\ avail = [c \in Clients |-> "none"]
    /\ readable = {} /\ listening = FALSE
    /\ sincePrune = 0 /\ stale = FALSE /\ staleCall = FALSE
    /\ stopReq = FALSE /\ handled = {}

(***************************************************************************)
(* The environment: clients, time, and the thread that asks for a stop.    *)
(***************************************************************************)
Connect(c) ==
    /\ sock[c] = "none" /\ pc # "stopped"
    /\ sock' = [sock EXCEPT ![c] = "backlog"]
    /\ backlog' = Append(backlog, c)
    /\ UNCHANGED <<pc, cursor, conns, avail, readable, listening, store, stopReq,
                   handled>>

Send(c, what) ==
    /\ sock[c] \in {"backlog", "open"}
    /\ avail[c] = "none"
    /\ avail' = [avail EXCEPT ![c] = what]
    /\ UNCHANGED <<pc, cursor, conns, backlog, sock, readable, listening,
                   store, stopReq, handled>>

\* A client whose connection the server closed may connect again.
Reopen(c) ==
    /\ sock[c] = "closed"
    /\ sock' = [sock EXCEPT ![c] = "none"]
    /\ UNCHANGED <<pc, cursor, conns, backlog, avail, readable, listening,
                   store, stopReq, handled>>

\* A tick of the clock; a record or a call may reach its TTL on it.
Tick(expired) ==
    /\ conns' = [i \in DOMAIN conns |->
                    [conns[i] EXCEPT !.age = Older(@, HttpTimeout)]]
    /\ sincePrune' = Older(sincePrune, PruneInterval)
    /\ stale' = (stale \/ "record" \in expired)
    /\ staleCall' = (staleCall \/ "call" \in expired)
    /\ UNCHANGED <<pc, cursor, net, readable, listening, stopReq, handled>>

\* redp2p_stop, from another thread or a signal handler.
RequestStop ==
    /\ pc # "stopped"
    /\ stopReq' = TRUE
    /\ UNCHANGED <<pc, cursor, conns, net, readable, listening, store,
                   handled>>

-----------------------------------------------------------------------------
(***************************************************************************)
(* The loop.                                                               *)
(***************************************************************************)

\* Mutant: the loop drains its connections before it honours a stop.
LeaveWhenDrained ==
    /\ pc = "prepare" /\ stopReq /\ conns = << >>
    /\ pc' = "stopped"
    /\ backlog' = << >>
    /\ sock' = [c \in Clients |->
                  IF sock[c] = "backlog" THEN "closed" ELSE sock[c]]
    /\ stopReq' = FALSE
    /\ UNCHANGED <<cursor, conns, avail, readable, listening, store, handled>>

\* The stop test at the top of the loop, or after a select that the stop
\* signal interrupted; then redp2p_index_runtime_cleanup.
Leave ==
    /\ pc \in {"prepare", "select"} /\ stopReq
    /\ pc' = "stopped"
    /\ conns' = << >> /\ backlog' = << >>
    /\ sock' = [c \in Clients |->
                  IF InTable(c) \/ sock[c] = "backlog" THEN "closed"
                  ELSE sock[c]]
    /\ avail' = [c \in Clients |-> "none"]
    /\ stopReq' = FALSE
    /\ UNCHANGED <<cursor, readable, listening, store, handled>>

\* Mutant: expired calls are left to the handlers.
PrepareNoEvict ==
    /\ pc = "prepare" /\ ~stopReq
    /\ pc' = "select"
    /\ UNCHANGED <<cursor, conns, net, readable, listening, store, stopReq,
                   handled>>

\* redp2p_index_prepare_fdset: expired calls go on every iteration.
Prepare ==
    /\ pc = "prepare" /\ ~stopReq
    /\ staleCall' = FALSE
    /\ pc' = "select"
    /\ UNCHANGED <<cursor, conns, net, readable, listening, sincePrune, stale,
                   stopReq, handled>>

ReadyNow == {c \in Clients : InTable(c) /\ avail[c] # "none"}

\* Mutant: the listener is watched only while the table has room.
SelectReadyWithRoom ==
    /\ pc = "select"
    /\ (backlog # << >> /\ Len(conns) < MaxConns) \/ ReadyNow # {}
    /\ listening' = (backlog # << >> /\ Len(conns) < MaxConns)
    /\ readable' = ReadyNow
    /\ pc' = "accept"
    /\ UNCHANGED <<cursor, conns, net, store, stopReq, handled>>

\* select reports descriptors, at most one second later.
SelectReady ==
    /\ pc = "select"
    /\ backlog # << >> \/ ReadyNow # {}
    /\ listening' = (backlog # << >>)
    /\ readable' = ReadyNow
    /\ pc' = "accept"
    /\ UNCHANGED <<cursor, conns, net, store, stopReq, handled>>

\* Mutant: last_prune is advanced by every idle select, due or not.
SelectIdleResets ==
    /\ pc = "select"
    /\ backlog = << >> /\ ReadyNow = {}
    /\ stale' = (stale /\ sincePrune < PruneInterval)
    /\ sincePrune' = 0
    /\ pc' = "prepare"
    /\ UNCHANGED <<cursor, conns, net, readable, listening, staleCall,
                   stopReq, handled>>

\* select times out: the only place the periodic prune is done.
SelectIdle ==
    /\ pc = "select"
    /\ backlog = << >> /\ ReadyNow = {}
    /\ IF sincePrune >= PruneInterval
         THEN stale' = FALSE /\ sincePrune' = 0
         ELSE UNCHANGED <<stale, sincePrune>>
    /\ pc' = "prepare"
    /\ UNCHANGED <<cursor, conns, net, readable, listening, staleCall,
                   stopReq, handled>>

\* redp2p_index_conn_add finds a place.
Room == Len(conns) < MaxConns

\* Mutant: an iteration that accepts does not read.
AcceptOnly ==
    /\ pc = "accept"
    /\ listening
    /\ backlog' = Tail(backlog)
    /\ IF Room
         THEN /\ conns' = Append(conns, [client |-> Head(backlog),
                                        read |-> FALSE, age |-> 0])
              /\ sock' = [sock EXCEPT ![Head(backlog)] = "open"]
         ELSE /\ sock' = [sock EXCEPT ![Head(backlog)] = "closed"]
              /\ UNCHANGED conns
    /\ pc' = "prepare"
    /\ readable' = {} /\ listening' = FALSE
    /\ UNCHANGED <<cursor, avail, store, stopReq, handled>>

\* redp2p_index_accept_connection: at most one per iteration.  accept may
\* fail (no descriptor is left) and leave the connection in the backlog; a
\* full table, or no memory for a larger one, closes the newcomer.
Accept ==
    /\ pc = "accept"
    /\ \/ UNCHANGED <<conns, backlog, sock, avail>>
       \/ /\ listening /\ Room
          /\ conns' = Append(conns, [client |-> Head(backlog),
                                     read |-> FALSE, age |-> 0])
          /\ sock' = [sock EXCEPT ![Head(backlog)] = "open"]
          /\ backlog' = Tail(backlog)
          /\ UNCHANGED avail
       \/ /\ listening
          /\ sock' = [sock EXCEPT ![Head(backlog)] = "closed"]
          /\ avail' = [avail EXCEPT ![Head(backlog)] = "none"]
          /\ backlog' = Tail(backlog)
          /\ UNCHANGED conns
    /\ cursor' = Len(conns')
    /\ pc' = "process"
    /\ UNCHANGED <<readable, handled, listening, store, stopReq>>

\* The pass ends below the first entry.
PassDone ==
    /\ pc = "process" /\ cursor = 0
    /\ pc' = "prepare"
    /\ readable' = {} /\ listening' = FALSE /\ handled' = {}
    /\ UNCHANGED <<cursor, conns, net, store, stopReq>>

Entry == conns[cursor]

\* Mutant: the index moves once for the removal and once for the loop.
LookSkips ==
    /\ pc = "process" /\ cursor > 0
    /\ handled' = handled \cup {Entry.client}
    /\ cursor' = IF cursor > 1 /\ avail[Entry.client] \in {"full", "end"}
                   THEN cursor - 2 ELSE cursor - 1
    /\ UNCHANGED <<pc, backlog, readable, listening, sincePrune, staleCall,
                   stopReq>>

\* What every turn of the pass does.
Look ==
    /\ pc = "process" /\ cursor > 0
    /\ handled' = handled \cup {Entry.client}
    /\ cursor' = cursor - 1
    /\ UNCHANGED <<pc, backlog, readable, listening, sincePrune, staleCall,
                   stopReq>>

CloseEntry ==
    /\ conns' = ConnRemove(conns, cursor)
    /\ sock' = [sock EXCEPT ![Entry.client] = "closed"]
    /\ avail' = [avail EXCEPT ![Entry.client] = "none"]

\* A request that began and is older than the timeout.
DropTimedOut ==
    /\ Look
    /\ Entry.read /\ Entry.age > HttpTimeout
    /\ CloseEntry
    /\ UNCHANGED stale

Live == ~(Entry.read /\ Entry.age > HttpTimeout)

SkipQuiet ==
    /\ Look /\ Live
    /\ Entry.client \notin readable
    /\ UNCHANGED <<conns, sock, avail, stale>>

\* One read.  An incomplete request waits for more; anything else ends the
\* connection: EOF, an HTTP error, or a dispatched request.
ReadPart ==
    /\ Look /\ Live
    /\ Entry.client \in readable
    /\ avail[Entry.client] = "part"
    /\ avail' = [avail EXCEPT ![Entry.client] = "none"]
    /\ conns' = [conns EXCEPT ![cursor].read = TRUE]
    /\ UNCHANGED <<sock, stale>>

ReadEnd(evicts) ==
    /\ Look /\ Live
    /\ Entry.client \in readable
    /\ avail[Entry.client] \in {"full", "end"}
    /\ stale' = (stale /\ ~(avail[Entry.client] = "full" /\ evicts))
    /\ CloseEntry

Loop ==
    \/ Leave \/ Prepare \/ SelectReady \/ SelectIdle \/ Accept \/ PassDone
    \/ DropTimedOut \/ SkipQuiet \/ ReadPart
    \/ \E evicts \in BOOLEAN : ReadEnd(evicts)

Environment ==
    \/ \E c \in Clients :
          Connect(c) \/ Reopen(c) \/ \E what \in Input \ {"none"} : Send(c, what)
    \/ RequestStop

Ticks == \E expired \in SUBSET Expiring : Tick(expired)

Next == Loop \/ Environment \/ Ticks

\* The thread that serves keeps running, time passes, and accept does not
\* fail for ever.
Spec ==
    /\ Init /\ [][Next]_vars
    /\ WF_vars(Loop) /\ WF_vars(Ticks)
    /\ SF_vars(Accept /\ backlog' # backlog)

-----------------------------------------------------------------------------
(***************************************************************************)
(* Properties.                                                             *)
(***************************************************************************)

\* Types; the table never outgrows REDP2P_MAX_CONNECTIONS.
TypeOK ==
    /\ pc \in {"prepare", "select", "accept", "process", "stopped"}
    /\ conns \in Seq(Conn) /\ Len(conns) <= MaxConns
    /\ cursor \in 0 .. MaxConns
    /\ backlog \in Seq(Clients)
    /\ sock \in [Clients -> Sockets] /\ avail \in [Clients -> Input]
    /\ readable \subseteq Clients /\ handled \subseteq Clients
    /\ listening \in BOOLEAN /\ stopReq \in BOOLEAN
    /\ sincePrune \in 0 .. PruneInterval + 1
    /\ stale \in BOOLEAN /\ staleCall \in BOOLEAN

\* Descriptor ownership: an open server socket is in exactly one table entry,
\* a table entry holds an open socket, so none leaks and none is closed twice
\* by swap removal, refusal of a full table, timeout or cleanup.
SocketsOwned ==
    /\ \A c \in Clients : sock[c] = "open" <=> InTable(c)
    /\ \A i, j \in DOMAIN conns : conns[i].client = conns[j].client => i = j
    /\ \A c \in Clients :
          sock[c] = "backlog" <=> \E i \in DOMAIN backlog : backlog[i] = c

\* The reverse pass with swap removal misses nobody and visits nobody twice:
\* entries still below the cursor have not been looked at, and every readable
\* connection was looked at or is still below the cursor.
PassExact ==
    pc = "process" =>
        LET ahead == {conns[i].client : i \in 1 .. cursor}
        IN  /\ cursor <= Len(conns)
            /\ ahead \cap handled = {}
            /\ readable \subseteq ahead \cup handled

RequestServed ==
    \A c \in Clients :
        (sock[c] = "open" /\ avail[c] = "full") ~> (sock[c] = "closed")

AcceptServed ==
    \A c \in Clients : (sock[c] = "backlog") ~> (sock[c] \in {"open", "closed"})

\* Nobody waits for ever, whatever the other clients do: a connection the
\* kernel completed is accepted or refused even when idle connections hold
\* every place of the table, and a complete request on an accepted connection
\* is answered or its connection closed.
Served == RequestServed /\ AcceptServed

\* redp2p_stop ends the loop, under any load and with any
\* connections open.
Stops == stopReq ~> (pc = "stopped")

CallsExpire == staleCall ~> (~staleCall \/ pc = "stopped")

QuietPruned ==
    <>[](pc # "stopped" /\ backlog = << >> /\ ReadyNow = {}) => []<>(~stale)

\* What has expired is removed without any request about it: a call under any
\* load, although nobody polls or calls; a publisher record, which only a
\* select that times out prunes, on a server that stays quiet.
Expires == CallsExpire /\ QuietPruned
=============================================================================
