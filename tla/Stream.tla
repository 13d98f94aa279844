------------------------------- MODULE Stream -------------------------------
(***************************************************************************)
(* One TCP tunnel session between a consumer (the initiator) and a         *)
(* publisher (the responder): the HELLO handshake, bytes through KCP, the  *)
(* CLOSE exchange that travels beside KCP, RESET and the silence timeout.  *)
(*                                                                         *)
(* The datagrams in flight are one per direction and kind: a newer one of  *)
(* the same kind replaces it, any may be lost, kinds overtake each other,  *)
(* and resending delivers the same datagram again.  The resend timers are  *)
(* due or not due at every turn of the loop, and DISCONNECT_S seconds of   *)
(* silence may have passed at any time.                                    *)
(*                                                                         *)
(* KCP is external: it numbers segments, delivers them in order, once, and *)
(* counts a segment as waiting until the peer acknowledged it.             *)
(***************************************************************************)
EXTENDS Integers

CONSTANTS
    Consumer, Publisher,
    Writers,      \* ends whose application writes
    MaxData,      \* bound: chunks each of them writes
    MaxWaitSend,  \* REDP2P_STREAM_MAX_WAIT_SEND, in chunks
    MaxLoss       \* bound: datagrams lost

Ends == {Consumer, Publisher}

ASSUME StreamAssumption ==
    /\ Consumer # Publisher /\ Writers \subseteq Ends
    /\ MaxData \in Nat /\ MaxLoss \in Nat /\ MaxWaitSend \in Nat \ {0}

VARIABLES
    state,    \* each end's session: "none", "active", "done" or "broken" off
    ready,    \* st->ready
    eof,      \* st->local_eof
    acked,    \* st->close_acked
    remote,   \* st->remote_close: the local socket was shut for writing
    sent,     \* chunks given to ikcp_send
    una,      \* how many of them the peer acknowledged
    written,  \* chunks received, all of them written to the local socket
    net,      \* net[x][kind]: the datagram of that kind on its way to x
    lost      \* datagrams lost so far

flags == <<ready, eof, acked, remote>>
data == <<sent, una, written>>
vars == <<state, ready, eof, acked, remote, sent, una, written, net,
          lost>>

Peer(x) == IF x = Consumer THEN Publisher ELSE Consumer
Active(x) == state[x] = "active"

Ended == {"done", "broken"}
Control == {"hello", "close", "close_ack", "reset"}
Kinds == Control \cup {"kcp"}
Nothing == [push |-> 0, una |-> -1]
Datagram == [push : 0 .. MaxData, una : -1 .. MaxData]

\* A control datagram carries nothing; "hello" is HELLO towards the publisher
\* and HELLO_ACK towards the consumer.
Signal == [push |-> 0, una |-> 0]

\* redp2p_stream_send_control
Put(n, x, kind) == [n EXCEPT ![x][kind] = Signal]

\* ikcp_waitsnd
WaitSnd(x) == sent[x] - una[x]

\* Mutant: a stream is done although its own CLOSE was never acknowledged.
IsDoneUnacked(x) == eof[x] /\ remote[x] /\ WaitSnd(x) = 0

\* redp2p_stream_is_done
IsDone(x) == eof[x] /\ acked[x] /\ remote[x] /\ WaitSnd(x) = 0

\* redp2p_stream_can_send_data
CanSendData(x) == ready[x] /\ ~eof[x] /\ WaitSnd(x) < MaxWaitSend

-----------------------------------------------------------------------------
\* The consumer's session exists; the publisher may still be punching.
Init ==
    /\ state = [x \in Ends |-> IF x = Consumer THEN "active" ELSE "none"]
    /\ ready = [x \in Ends |-> FALSE] /\ eof = [x \in Ends |-> FALSE]
    /\ acked = [x \in Ends |-> FALSE] /\ remote = [x \in Ends |-> FALSE]
    /\ sent = [x \in Ends |-> 0] /\ una = [x \in Ends |-> 0]
    /\ written = [x \in Ends |-> 0]
    /\ net = [x \in Ends |-> [kind \in Kinds |-> Nothing]]
    /\ lost = 0

\* redp2p_publisher_open_session
Open ==
    /\ state[Publisher] = "none"
    /\ state' = [state EXCEPT ![Publisher] = "active"]
    /\ UNCHANGED <<flags, data, net, lost>>

\* redp2p_stream_pump_tcp: a chunk, or the end of the local input.
PumpChunk(x) ==
    /\ Active(x) /\ CanSendData(x)
    /\ x \in Writers /\ sent[x] < MaxData
    /\ sent' = [sent EXCEPT ![x] = @ + 1]
    /\ UNCHANGED <<state, flags, una, written, net, lost>>

PumpEof(x) ==
    /\ Active(x) /\ CanSendData(x)
    /\ eof' = [eof EXCEPT ![x] = TRUE]
    /\ UNCHANGED <<state, ready, acked, remote, data, net, lost>>

-----------------------------------------------------------------------------
(***************************************************************************)
(* redp2p_stream_tick and the tests that follow it.                        *)
(***************************************************************************)

\* ikcp_update: the first segment still waiting, and what has arrived.
KcpSegment(x) ==
    [push |-> IF WaitSnd(x) > 0 THEN una[x] + 1 ELSE 0, una |-> written[x]]

\* Mutant: CLOSE waits for the peer to close first.
CloseDueSecond(x) ==
    ready[x] /\ eof[x] /\ ~acked[x] /\ WaitSnd(x) = 0 /\ remote[x]

\* Mutant: CLOSE does not wait for the acknowledgement of the data.
CloseDueAnyWaiting(x) == ready[x] /\ eof[x] /\ ~acked[x]

CloseDue(x) == ready[x] /\ eof[x] /\ ~acked[x] /\ WaitSnd(x) = 0

\* What the turn sends: due names the timers that have run out.  Keepalives
\* are not shown: they only keep the peer's silence timeout from running out.
Tick(x, due) ==
    LET y == Peer(x)
    IN  [net EXCEPT ![y] = [kind \in Kinds |->
            CASE kind = "hello" /\ kind \in due /\ x = Consumer /\ ~ready[x]
                    -> Signal
              [] kind = "kcp" /\ kind \in due /\ ready[x] -> KcpSegment(x)
              [] kind = "close" /\ kind \in due /\ CloseDue(x) -> Signal
              [] OTHER -> net[y][kind]]]

\* redp2p_publisher_maintain_sessions, redp2p_consumer_session_maintain
Maintain(x, due) ==
    /\ Active(x)
    /\ net' = Tick(x, due)
    /\ state' = [state EXCEPT ![x] = IF IsDone(x) THEN "done" ELSE @]
    /\ UNCHANGED <<flags, data, lost>>

\* Mutant: a session still in its handshake never times out.
ExpireReadyOnly(x, due) ==
    /\ Active(x) /\ ready[x] /\ ~IsDone(x)
    /\ net' = Tick(x, due)
    /\ state' = [state EXCEPT ![x] = "broken"]
    /\ UNCHANGED <<flags, data, lost>>

\* The same turn when last_rx is too old: closed, and nothing sent about it.
Expire(x, due) ==
    /\ Active(x) /\ ~IsDone(x)
    /\ net' = Tick(x, due)
    /\ state' = [state EXCEPT ![x] = "broken"]
    /\ UNCHANGED <<flags, data, lost>>

\* A local socket, KCP or UDP failure, or a requested stop:
\* redp2p_stream_fail, then the session is closed.
Fail(x) ==
    /\ Active(x)
    /\ net' = IF ready[x] THEN Put(net, Peer(x), "reset") ELSE net
    /\ state' = [state EXCEPT ![x] = "broken"]
    /\ UNCHANGED <<flags, data, lost>>

\* The process dies.
Crash(x) ==
    /\ Active(x)
    /\ state' = [state EXCEPT ![x] = "broken"]
    /\ UNCHANGED <<flags, data, net, lost>>

-----------------------------------------------------------------------------
(***************************************************************************)
(* redp2p_stream_process_packet, one disjunct per kind of datagram.  An    *)
(* end without a session ignores what it receives.                         *)
(***************************************************************************)
Take(x, kind) == [net EXCEPT ![x][kind] = Nothing]

Ignore(x, kind) ==
    /\ ~Active(x) \/ (kind # "hello" /\ ~ready[x])
    /\ net' = Take(x, kind)
    /\ UNCHANGED <<state, flags, data>>

ReceiveHello(x) ==
    /\ Active(x)
    /\ ready' = [ready EXCEPT ![x] = TRUE]
    /\ net' = IF x = Publisher THEN Put(Take(x, "hello"), Consumer, "hello")
                               ELSE Take(x, "hello")
    /\ UNCHANGED <<state, eof, acked, remote, data>>

\* ikcp_input, then redp2p_stream_drain writes what is in order.
ReceiveKcp(x) ==
    LET d == net[x]["kcp"]
    IN  /\ Active(x) /\ ready[x]
        /\ una' = [una EXCEPT ![x] = IF d.una > @ THEN d.una ELSE @]
        /\ written' = [written EXCEPT ![x] =
                          IF d.push = @ + 1 THEN d.push ELSE @]
        /\ net' = Take(x, "kcp")
        /\ UNCHANGED <<state, flags, sent>>

ReceiveClose(x) ==
    /\ Active(x) /\ ready[x]
    /\ remote' = [remote EXCEPT ![x] = TRUE]
    /\ net' = Put(Take(x, "close"), Peer(x), "close_ack")
    /\ UNCHANGED <<state, ready, eof, acked, data>>

ReceiveCloseAck(x) ==
    /\ Active(x) /\ ready[x]
    /\ acked' = [acked EXCEPT ![x] = TRUE]
    /\ net' = Take(x, "close_ack")
    /\ UNCHANGED <<state, ready, eof, remote, data>>

ReceiveReset(x) ==
    /\ Active(x) /\ ready[x]
    /\ state' = [state EXCEPT ![x] = "broken"]
    /\ net' = Take(x, "reset")
    /\ UNCHANGED <<flags, data>>

Deliver(x, kind) ==
    /\ net[x][kind] # Nothing
    /\ UNCHANGED lost
    /\ \/ Ignore(x, kind)
       \/ kind = "hello" /\ ReceiveHello(x)
       \/ kind = "kcp" /\ ReceiveKcp(x)
       \/ kind = "close" /\ ReceiveClose(x)
       \/ kind = "close_ack" /\ ReceiveCloseAck(x)
       \/ kind = "reset" /\ ReceiveReset(x)

Lose(x, kind) ==
    /\ net[x][kind] # Nothing
    /\ lost < MaxLoss
    /\ lost' = lost + 1
    /\ net' = Take(x, kind)
    /\ UNCHANGED <<state, flags, data>>

\* The timers that may have run out together; a turn with two of them due
\* is two turns.
Timers == {"hello", "kcp", "close"}
Turns == {{}, Timers} \cup {{t} : t \in Timers}

Next ==
    \/ Open
    \/ \E x \in Ends :
          \/ PumpChunk(x) \/ PumpEof(x) \/ Fail(x) \/ Crash(x)
          \/ \E due \in Turns : Maintain(x, due) \/ Expire(x, due)
          \/ \E kind \in Kinds : Deliver(x, kind) \/ Lose(x, kind)

\* The peer has no session: its datagrams end, and silence begins.
Silent(x) == ~Active(Peer(x))

(***************************************************************************)
(* Both loops keep turning with every timer running out again and again;   *)
(* what is sent again and again arrives, a RESET is sent once and need not;*)
(* real silence is noticed.                                                *)
(***************************************************************************)
Fairness ==
    \A x \in Ends :
        /\ WF_vars(Maintain(x, Timers))
        /\ WF_vars(Silent(x) /\ Expire(x, Timers))
        /\ \A kind \in Kinds \ {"reset"} : WF_vars(Deliver(x, kind))

Spec == Init /\ [][Next]_vars /\ Fairness

-----------------------------------------------------------------------------
(***************************************************************************)
(* Properties.                                                             *)
(***************************************************************************)

\* Types; what is acknowledged was written by the peer, what was written was
\* sent, and no more waits than redp2p_stream_can_send_data allows.
TypeOK ==
    /\ state \in [Ends -> {"none", "active"} \cup Ended]
    /\ ready \in [Ends -> BOOLEAN] /\ eof \in [Ends -> BOOLEAN]
    /\ acked \in [Ends -> BOOLEAN] /\ remote \in [Ends -> BOOLEAN]
    /\ sent \in [Ends -> 0 .. MaxData] /\ una \in [Ends -> 0 .. MaxData]
    /\ written \in [Ends -> 0 .. MaxData]
    /\ net \in [Ends -> [Kinds -> Datagram]]
    /\ \A x \in Ends : WaitSnd(x) <= MaxWaitSend

\* An orderly end of input is never early: when the local socket is shut for
\* writing because of a CLOSE, everything the remote application wrote before
\* its end of input has been written to it, although CLOSE is not ordered
\* with the KCP datagrams.
NoTruncation ==
    \A x \in Ends :
        remote[x] => /\ eof[Peer(x)]
                     /\ written[x] = sent[Peer(x)]

\* A session that ends as done leaves nothing behind: both applications have
\* everything, and both have seen the end of it, so it does not matter that
\* the last CLOSE_ACK may be lost and the peer has to time out.
DoneComplete ==
    \A x \in Ends :
        state[x] = "done" =>
            /\ remote[x] /\ remote[Peer(x)]
            /\ written[x] = sent[Peer(x)]
            /\ written[Peer(x)] = sent[x]

MustEnd ==
    \/ eof[Consumer] /\ eof[Publisher]
    \/ \E x \in Ends : state[x] \in Ended

\* Sessions end together: when both applications have ended their output, or
\* one side has ended in any way, with or without a RESET that arrives
\* (redp2p_stream_fail, the silence limit of the maintenance), no session is
\* left in the end.
BothEnd == MustEnd ~> \A x \in Ends : ~Active(x)
=============================================================================
