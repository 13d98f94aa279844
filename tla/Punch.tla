------------------------------- MODULE Punch -------------------------------
(***************************************************************************)
(* Hole punching between a consumer and a publisher, and the life of the   *)
(* two session entries it creates (src/src/libredp2p.c, establish_peer,    *)
(* punch_select, process_punch_calls, receive_peer and the maintenance of  *)
(* both loops).                                                            *)
(*                                                                         *)
(* A call k of the consumer has a socket and a session token of its own;   *)
(* both are written k.  The publisher has one socket for all of its        *)
(* sessions; its address is the number of its current incarnation.  Both   *)
(* programs have one thread: while one of them punches it does nothing     *)
(* else, and takes every datagram that reaches the socket it punches with. *)
(*                                                                         *)
(* Abstracted: the candidates of a peer are its one address, the sweep is  *)
(* more rounds of the same ping, the two identifiers of a packet appear as *)
(* the kind of packet they make ("gnop" is a PONG with the identifiers the *)
(* other way round), stream segments and keepalives arrive at once or not  *)
(* at all, and time is in the order of steps.  The PUNCH_SERVER note that  *)
(* follows a new session is ignored by every receiver and left out.        *)
(* Punch packets may be late, overtake each other, or stay in flight for   *)
(* ever, which is how they are lost: nothing obliges a delivery.           *)
(***************************************************************************)
EXTENDS Naturals, Sequences, SequencesExt

CONSTANTS
    Calls,         \* the consumer's attempts, each with its socket and token
    MaxRounds,     \* pings sent by one redp2p_punch_select
    MaxRestarts    \* restarts of the publisher

ASSUME PunchAssumption ==
    /\ Calls \subseteq Nat
    /\ MaxRounds \in Nat \ {0}
    /\ MaxRestarts \in Nat

VARIABLES
    proto,     \* "tcp" or "udp", the same on both sides
    con,       \* con[k]: the consumer's side of call k
    pings,     \* pings sent by the attempt the consumer is punching
    pending,   \* calls stored by the index for this publisher
    epoch,     \* the publisher's incarnation, its current address
    todo,      \* calls of the poll reply the publisher is working through
    rounds,    \* pings sent for Head(todo)
    srv,       \* the publisher's active sessions
    net,       \* datagrams in flight
    tried      \* history: calls some incarnation has begun to punch

vars == <<proto, con, pings, pending, epoch, todo, rounds, srv, net, tried>>

conVars == <<con, pings>>
pubVars == <<epoch, todo, rounds, srv, tried>>

Epochs == 1 .. MaxRestarts + 1

(* A punch packet between socket "call" of the consumer and address "epoch" *)
(* of the publisher, with the token "tok".                                  *)
Datagram == [dir : {"toPub", "toCon"}, call : Calls, epoch : Epochs,
             kind : {"ping", "pong", "gnop"}, tok : Calls]

ToPub(k, e, kind, t) ==
    [dir |-> "toPub", call |-> k, epoch |-> e, kind |-> kind, tok |-> t]
ToCon(k, e, kind, t) ==
    [dir |-> "toCon", call |-> k, epoch |-> e, kind |-> kind, tok |-> t]

-----------------------------------------------------------------------------
(* A call not made yet.  The address it will ping is the one found by the   *)
(* lookup the consumer makes when it starts, which is never repeated.       *)
NoCall == [st |-> "idle", peer |-> 1, fresh |-> FALSE]

Init ==
    /\ proto \in {"tcp", "udp"}
    /\ con = [k \in Calls |-> NoCall]
    /\ pings = 0
    /\ pending = <<>>
    /\ epoch = 1
    /\ todo = <<>>
    /\ rounds = 0
    /\ srv = {}
    /\ net = {}
    /\ tried = {}

Punching(k) == con[k].st = "punching"
ConsumerBusy == \E k \in Calls : Punching(k)
PublisherBusy == todo # <<>>

Down == [st |-> "down", peer |-> 1, fresh |-> FALSE]

(* Mutant: the token is not compared. *)
AnswersAnyToken(d, t) == d.kind \in {"ping", "pong"}

(* redp2p_punch_wait_response: a packet is the answer waited for when its   *)
(* identifiers are those of a PING to us or of a PONG to our PING, and its  *)
(* token is the one of this punch.                                          *)
Answers(d, t) == d.kind \in {"ping", "pong"} /\ d.tok = t

-----------------------------------------------------------------------------
(* The consumer.  A connection is accepted, or a datagram of an unknown     *)
(* client read, between two turns of the loop.                              *)
LocalClient(k) == ~ConsumerBusy /\ con[k].st = "idle"

(* redp2p_send_punch_req_cands: the index may keep the call although its    *)
(* answer is lost.                                                          *)
PunchReq(k, answered) ==
    \E kept \in BOOLEAN :
        /\ answered => kept
        /\ pending' = IF kept THEN Append(pending, k) ELSE pending

(* redp2p_consumer_establish_peer as far as the punch; without an answer of *)
(* the index the attempt ends.                                              *)
Establish(k) ==
    /\ LocalClient(k)
    /\ \E answered \in BOOLEAN :
         /\ PunchReq(k, answered)
         /\ con' = [con EXCEPT ![k] =
                      IF answered THEN [@ EXCEPT !.st = "punching"] ELSE Down]
    /\ pings' = 0
    /\ UNCHANGED <<proto, pubVars, net>>

(* One round of redp2p_punch_select.                                        *)
ConsumerPing(k) ==
    /\ Punching(k)
    /\ pings < MaxRounds
    /\ pings' = pings + 1
    /\ net' = net \union {ToPub(k, 1, "ping", k)}
    /\ UNCHANGED <<proto, con, pending, pubVars>>

(* The session of an established path (redp2p_consumer_tcp_session_init,    *)
(* redp2p_consumer_udp_session_init).                                       *)
NewSession(e) == [st |-> "up", peer |-> e, fresh |-> TRUE]

(* redp2p_consumer_session_insert: without memory the session is closed.    *)
Inserted(session) == {session, Down}

(* The source of the answer becomes the peer, whatever address was pinged;  *)
(* a PING is answered with a PONG.  Everything else is dropped.             *)
ConsumerWait(k, d) ==
    /\ Punching(k)
    /\ pings > 0
    /\ d \in net /\ d.dir = "toCon" /\ d.call = k
    /\ IF Answers(d, k)
         THEN /\ \E s \in Inserted(NewSession(d.epoch)) :
                    con' = [con EXCEPT ![k] = s]
              /\ net' = (net \ {d}) \union
                        (IF d.kind = "ping"
                           THEN {ToPub(k, d.epoch, "pong", k)} ELSE {})
         ELSE con' = con /\ net' = net \ {d}
    /\ UNCHANGED <<proto, pings, pending, pubVars>>

ConsumerGiveUp(k) ==
    /\ Punching(k)
    /\ pings = MaxRounds
    /\ con' = [con EXCEPT ![k] = Down]
    /\ UNCHANGED <<proto, pings, pending, pubVars, net>>

(* redp2p_consumer_peer_receive: punch packets are ignored, anything else   *)
(* from the peer's address shows that the peer lives.                       *)
ConsumerReceive(k, d) ==
    /\ ~ConsumerBusy
    /\ con[k].st = "up"
    /\ d \in net /\ d.dir = "toCon" /\ d.call = k
    /\ net' = net \ {d}
    /\ UNCHANGED <<proto, conVars, pending, pubVars>>

(* A keepalive of a datagram session or a segment of a stream reaches the   *)
(* consumer's loop.                                                         *)
ConsumerHears(k) ==
    /\ ~ConsumerBusy /\ ~PublisherBusy
    /\ con[k].st = "up"
    /\ con[k].peer = epoch
    /\ \E s \in srv : s.addr = k
    /\ con' = [con EXCEPT ![k].fresh = TRUE]
    /\ UNCHANGED <<proto, pings, pending, pubVars, net>>

(* redp2p_consumer_udp_receive for a client that has a session: its         *)
(* datagram is sent on and counts as activity of the session.  Applications *)
(* may go on sending for ever.                                              *)
ConsumerLocal(k) ==
    /\ ~ConsumerBusy
    /\ proto = "udp"
    /\ con[k].st = "up"
    /\ con' = [con EXCEPT ![k].fresh = TRUE]
    /\ UNCHANGED <<proto, pings, pending, pubVars, net>>

(* Mutant: datagram sessions are not maintained. *)
ConsumerMaintainTcp(k) ==
    /\ ~ConsumerBusy
    /\ con[k].st = "up"
    /\ proto = "tcp"
    /\ con' = [con EXCEPT ![k] = IF @.fresh THEN [@ EXCEPT !.fresh = FALSE]
                                            ELSE Down]
    /\ UNCHANGED <<proto, pings, pending, pubVars, net>>

(* redp2p_consumer_session_maintain: one disconnect interval after the last *)
(* activity the session is closed.                                          *)
ConsumerMaintain(k) ==
    /\ ~ConsumerBusy
    /\ con[k].st = "up"
    /\ con' = [con EXCEPT ![k] = IF @.fresh THEN [@ EXCEPT !.fresh = FALSE]
                                            ELSE Down]
    /\ UNCHANGED <<proto, pings, pending, pubVars, net>>

ConsumerCloses(k) ==
    /\ ~ConsumerBusy
    /\ con[k].st = "up"
    /\ con' = [con EXCEPT ![k] = Down]
    /\ UNCHANGED <<proto, pings, pending, pubVars, net>>

(* The stream of a TCP session ended or failed on the consumer's side.      *)
ConsumerEnds(k) == proto = "tcp" /\ ConsumerCloses(k)

(* redp2p_consumer_fdset_build closes a session whose descriptor does not   *)
(* fit in the set.                                                          *)
ConsumerUnselectable(k) == ConsumerCloses(k)

(* A stop is honoured between two turns: every session is closed and no     *)
(* call is made any more.                                                   *)
ConsumerStop ==
    /\ ~ConsumerBusy
    /\ con' = [k \in Calls |-> Down]
    /\ UNCHANGED <<proto, pings, pending, pubVars, net>>

-----------------------------------------------------------------------------
(* The publisher.  redp2p_publisher_punch_poll takes every stored call; a   *)
(* reply that is lost after the index consumed the calls is a timeout, and  *)
(* the publisher goes on without them.                                      *)
Poll ==
    /\ ~PublisherBusy
    /\ pending # <<>>
    /\ pending' = <<>>
    /\ todo' = pending
    /\ UNCHANGED <<proto, conVars, epoch, rounds, srv, net, tried>>

PollLost ==
    /\ ~PublisherBusy
    /\ pending # <<>>
    /\ pending' = <<>>
    /\ UNCHANGED <<proto, conVars, pubVars, net>>

PublisherPing ==
    /\ PublisherBusy
    /\ rounds < MaxRounds
    /\ rounds' = rounds + 1
    /\ tried' = tried \union {Head(todo)}
    /\ net' = net \union {ToCon(Head(todo), epoch, "ping", Head(todo))}
    /\ UNCHANGED <<proto, conVars, pending, epoch, todo, srv>>

(* Mutant: the first failure ends the loop. *)
RestOfPollNone(ok) == IF ok THEN Tail(todo) ELSE <<>>

(* What the loop of redp2p_publisher_process_punch_calls goes on with after *)
(* the call at its head: a failure is not fatal to the others.  The returns *)
(* for a malformed call and the skip of a malformed token are not taken:    *)
(* the index stores only calls whose fields passed the same tests.          *)
RestOfPoll(ok) == Tail(todo)

(* redp2p_publisher_session_find: a stream session by address and token, a  *)
(* datagram session by address alone.                                       *)
Sessions(k, t) == {s \in srv : s.addr = k /\ (proto = "tcp" => s.tok = t)}

(* redp2p_publisher_session_insert, which fails without memory.             *)
SessionInsert(s) == {srv, srv \union {s}}

(* redp2p_publisher_open_session: nothing to do for a known peer, else the  *)
(* backend has to accept, or there is no session either.                    *)
OpenSession(k, t) ==
    IF Sessions(k, t) # {}
      THEN {srv}
      ELSE SessionInsert([addr |-> k, tok |-> t, fresh |-> TRUE])

PublisherWait(d) ==
    /\ PublisherBusy
    /\ rounds > 0
    /\ d \in net /\ d.dir = "toPub" /\ d.epoch = epoch
    /\ IF Answers(d, Head(todo))
         THEN /\ srv' \in OpenSession(d.call, Head(todo))
              /\ net' = (net \ {d}) \union
                        (IF d.kind = "ping"
                           THEN {ToCon(d.call, epoch, "pong", Head(todo))}
                           ELSE {})
              /\ todo' = RestOfPoll(TRUE)
              /\ rounds' = 0
         ELSE net' = net \ {d} /\ UNCHANGED <<srv, todo, rounds>>
    /\ UNCHANGED <<proto, conVars, pending, epoch, tried>>

PublisherGiveUp ==
    /\ PublisherBusy
    /\ rounds = MaxRounds
    /\ todo' = RestOfPoll(FALSE)
    /\ rounds' = 0
    /\ UNCHANGED <<proto, conVars, pending, epoch, srv, net, tried>>

(* Mutant: the identifiers are put the right way round. *)
PongOfLoopAccepted(d) == ToCon(d.call, epoch, "pong", d.tok)

(* redp2p_publisher_receive_peer.  A PING of a peer without a session is    *)
(* answered with the identifiers as they came, swapped back by the sender:  *)
(* the pinger takes no such PONG for an answer.                             *)
PongOfLoop(d) == ToCon(d.call, epoch, "gnop", d.tok)

PublisherReceive(d) ==
    /\ ~PublisherBusy
    /\ d \in net /\ d.dir = "toPub" /\ d.epoch = epoch
    /\ LET found == IF proto = "tcp" THEN {} ELSE Sessions(d.call, d.tok)
       IN  net' = (net \ {d}) \union
                  (IF found = {} /\ d.kind = "ping" THEN {PongOfLoop(d)} ELSE {})
    /\ UNCHANGED <<proto, conVars, pending, pubVars>>

(* A keepalive or a segment of the consumer finds its session; one that     *)
(* arrives during a punch is dropped by the punch.                          *)
PublisherHears(k) ==
    /\ ~ConsumerBusy /\ ~PublisherBusy
    /\ con[k].st = "up"
    /\ con[k].peer = epoch
    /\ LET found == Sessions(k, k)
       IN  srv' = (srv \ found) \union {[s EXCEPT !.fresh = TRUE] : s \in found}
    /\ UNCHANGED <<proto, conVars, pending, epoch, todo, rounds, net, tried>>

(* redp2p_publisher_process_backends for a datagram session: the backend's  *)
(* datagram is sent on and counts as activity of the session.               *)
PublisherLocal(s) ==
    /\ ~PublisherBusy
    /\ proto = "udp"
    /\ s \in srv
    /\ srv' = (srv \ {s}) \union {[s EXCEPT !.fresh = TRUE]}
    /\ UNCHANGED <<proto, conVars, pending, epoch, todo, rounds, net, tried>>

PublisherMaintain(s) ==
    /\ ~PublisherBusy
    /\ s \in srv
    /\ srv' = (srv \ {s}) \union
              (IF s.fresh THEN {[s EXCEPT !.fresh = FALSE]} ELSE {})
    /\ UNCHANGED <<proto, conVars, pending, epoch, todo, rounds, net, tried>>

PublisherCloses(s) ==
    /\ ~PublisherBusy
    /\ s \in srv
    /\ srv' = srv \ {s}
    /\ UNCHANGED <<proto, conVars, pending, epoch, todo, rounds, net, tried>>

(* The stream of a TCP session ended or failed on the publisher's side.     *)
PublisherEnds(s) == proto = "tcp" /\ PublisherCloses(s)

(* redp2p_publisher_build_fdset does as the consumer's.                     *)
PublisherUnselectable(s) == PublisherCloses(s)

(* The publisher is killed and started again, on another socket.            *)
Restart ==
    /\ epoch < MaxRestarts + 1
    /\ epoch' = epoch + 1
    /\ todo' = <<>>
    /\ rounds' = 0
    /\ srv' = {}
    /\ UNCHANGED <<proto, conVars, pending, net, tried>>

-----------------------------------------------------------------------------
ConsumerStep(k) ==
    \/ Establish(k) \/ ConsumerPing(k) \/ ConsumerGiveUp(k)
    \/ ConsumerHears(k) \/ ConsumerLocal(k) \/ ConsumerMaintain(k)
    \/ ConsumerEnds(k) \/ ConsumerUnselectable(k)
    \/ \E d \in net : ConsumerWait(k, d) \/ ConsumerReceive(k, d)

PublisherStep ==
    \/ Poll \/ PollLost \/ PublisherPing \/ PublisherGiveUp \/ Restart
    \/ \E d \in net : PublisherWait(d) \/ PublisherReceive(d)
    \/ \E k \in Calls : PublisherHears(k)
    \/ \E s \in srv : \/ PublisherLocal(s) \/ PublisherMaintain(s)
                      \/ PublisherEnds(s) \/ PublisherUnselectable(s)

Next ==
    \/ \E k \in Calls : ConsumerStep(k)
    \/ ConsumerStop
    \/ PublisherStep

(* Both loops go on: a punch sends its rounds and ends, and every session   *)
(* is maintained once per second, which the steps of redp2p_now_s drive.    *)
Fairness ==
    /\ \A k \in Calls : /\ WF_vars(ConsumerPing(k) \/ ConsumerGiveUp(k))
                        /\ WF_vars(ConsumerMaintain(k))
                        /\ WF_vars(\E s \in srv : s.addr = k /\ PublisherMaintain(s))
    /\ WF_vars(PublisherPing \/ PublisherGiveUp)

Spec == Init /\ [][Next]_vars /\ Fairness

-----------------------------------------------------------------------------
(* The types of the variables.                                              *)
TypeOK ==
    /\ proto \in {"tcp", "udp"}
    /\ con \in [Calls -> [st : {"idle", "punching", "up", "down"},
                          peer : Epochs, fresh : BOOLEAN]]
    /\ pings \in 0 .. MaxRounds
    /\ pending \in Seq(Calls)
    /\ epoch \in Epochs
    /\ todo \in Seq(Calls)
    /\ rounds \in 0 .. MaxRounds
    /\ srv \subseteq [addr : Calls, tok : Calls, fresh : BOOLEAN]
    /\ net \subseteq Datagram
    /\ tried \subseteq Calls

(* Sessions are never crossed: the publisher's session for a peer address   *)
(* carries the token of the call made from that address, whichever calls    *)
(* were punched one after the other on the publisher's single socket, and   *)
(* there is one session at most per address (redp2p_publisher_open_session  *)
(* after redp2p_punch_select).                                              *)
NotCrossed ==
    \A s \in srv : s.tok = s.addr /\ \A o \in srv : o.addr = s.addr => o = s

(* A consumer believes in a direct path only when a publisher has begun to  *)
(* punch for that very call: an answer given by a publisher's event loop,   *)
(* which opens no session, is not taken for one.                            *)
UpOnlyIfTried == \A k \in Calls : con[k].st = "up" => k \in tried

(* Every call of a poll reply is tried, whatever happens to those before it *)
(* (the continue statements of redp2p_publisher_process_punch_calls),       *)
(* unless the publisher is restarted.                                       *)
CallsTried ==
    \A k \in Calls, e \in Epochs :
        (epoch = e /\ Contains(todo, k)) ~> (k \in tried \/ epoch # e)

Served(k) == con[k].peer = epoch /\ \E s \in srv : s.addr = k
HasSession(k) == \E s \in srv : s.addr = k

(* A session that only one side holds ends: the consumer's when the         *)
(* publisher gave up, failed to reach its backend or was restarted, the     *)
(* publisher's when the consumer gave up or left without a word - unless    *)
(* the application on the side that holds it keeps sending datagrams, each  *)
(* of which restarts the disconnect interval (redp2p_consumer_udp_receive,  *)
(* redp2p_publisher_process_backends).  Streams have no such exception.     *)
OneSidedEnds ==
    \A k \in Calls :
        /\ \/ []<>(con[k].st # "up" \/ Served(k))
           \/ []<><<ConsumerLocal(k)>>_vars
        /\ \/ []<>(con[k].st # "down" \/ ~HasSession(k))
           \/ []<><<\E s \in srv : s.addr = k /\ PublisherLocal(s)>>_vars
=============================================================================
