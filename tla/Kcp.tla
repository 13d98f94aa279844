-------------------------------- MODULE Kcp ---------------------------------
(***************************************************************************)
(* The retransmission protocol under a TCP tunnel session: the KCP control *)
(* blocks of the two ends (stream mode, congestion window on), the network *)
(* between them, and the calls redp2p makes of them: ikcp_send from        *)
(* redp2p_stream_pump_tcp, ikcp_update from redp2p_stream_tick, ikcp_input *)
(* followed by redp2p_stream_drain from redp2p_stream_process_packet.      *)
(*                                                                         *)
(* Bytes are their positions in the stream, a segment's data an interval   *)
(* of positions.  A segment's resend timer has run out or not at every     *)
(* flush.  A UDP datagram that packs several segments is taken apart: its  *)
(* segments arrive one by one, next to each other or not.  Sequence        *)
(* numbers do not wrap: 2^32 segments are more than 5 terabytes.           *)
(*                                                                         *)
(* redp2p_stream_drain empties rcv_queue after every datagram, so it is    *)
(* empty between steps, the window told to the peer is always rcv_wnd, and *)
(* the zero-window probes never start: neither is part of the state.       *)
(***************************************************************************)
EXTENDS Integers, Sequences, FiniteSets

CONSTANTS
    Consumer, Publisher,
    Writers,    \* ends whose application writes
    Mss,        \* bytes a segment holds
    SndWnd,     \* REDP2P_STREAM_SEND_WINDOW
    RcvWnd,     \* REDP2P_STREAM_RECV_WINDOW
    FastResend, \* REDP2P_STREAM_KCP_FAST_RESEND
    MaxBytes,   \* bound: bytes each writer writes
    MaxChunk,   \* bound: bytes of one read of the local socket
    MaxFaults   \* bound: datagrams lost or duplicated

Ends == {Consumer, Publisher}

ASSUME KcpAssumption ==
    /\ Consumer # Publisher /\ Writers \subseteq Ends
    /\ Mss \in Nat \ {0} /\ SndWnd \in Nat \ {0} /\ FastResend \in Nat
    /\ RcvWnd \in Nat /\ SndWnd <= RcvWnd
    /\ MaxBytes \in Nat /\ MaxChunk \in Nat /\ MaxFaults \in Nat

VARIABLES
    sent,      \* bytes given to ikcp_send
    snd_queue, \* segments not numbered yet
    snd_buf,   \* numbered segments the peer has not acknowledged
    snd_una, snd_nxt,
    cwnd, ssthresh,
    rcv_nxt,
    rcv_buf,   \* segments received ahead of a missing one
    acklist,   \* numbers to acknowledge at the next flush
    written,   \* data written to the local socket, one interval a write
    net,       \* datagrams on their way
    faults     \* datagrams lost or duplicated so far

sender == <<snd_queue, snd_buf, snd_una, snd_nxt>>
window == <<cwnd, ssthresh>>
receiver == <<rcv_nxt, rcv_buf, acklist, written>>
vars == <<sent, sender, window, receiver, net, faults>>

Peer(x) == IF x = Consumer THEN Publisher ELSE Consumer

\* ikcp_create and the settings of redp2p_stream_init
Init ==
    /\ sent = [x \in Ends |-> 0]
    /\ snd_queue = [x \in Ends |-> <<>>]
    /\ snd_buf = [x \in Ends |-> {}]
    /\ snd_una = [x \in Ends |-> 0]
    /\ snd_nxt = [x \in Ends |-> 0]
    /\ cwnd = [x \in Ends |-> 0]
    /\ ssthresh = [x \in Ends |-> 2]
    /\ rcv_nxt = [x \in Ends |-> 0]
    /\ rcv_buf = [x \in Ends |-> {}]
    /\ acklist = [x \in Ends |-> {}]
    /\ written = [x \in Ends |-> <<>>]
    /\ net = {}
    /\ faults = 0

Least(a, b) == IF a <= b THEN a ELSE b
Most(a, b) == IF a >= b THEN a ELSE b

-----------------------------------------------------------------------------
\* The positions first .. last cut into segments of at most Mss bytes.
Fragments(first, last) ==
    [i \in 1 .. (last - first + Mss) \div Mss |->
        [from |-> first + (i - 1) * Mss,
         to   |-> Least(first + i * Mss - 1, last)]]

\* Mutant: the bytes that fill up a segment are not taken off the rest.
QueuedTwice(q, first, last) ==
    IF q # <<>> /\ q[Len(q)].to - q[Len(q)].from + 1 < Mss
    THEN LET end == Least(q[Len(q)].from + Mss - 1, last)
         IN  [q EXCEPT ![Len(q)].to = end] \o Fragments(first, last)
    ELSE q \o Fragments(first, last)

\* ikcp_send in stream mode: the last queued segment is filled up first.
Queued(q, first, last) ==
    IF q # <<>> /\ q[Len(q)].to - q[Len(q)].from + 1 < Mss
    THEN LET end == Least(q[Len(q)].from + Mss - 1, last)
         IN  [q EXCEPT ![Len(q)].to = end] \o Fragments(end + 1, last)
    ELSE q \o Fragments(first, last)

Send(x, n) ==
    /\ x \in Writers /\ sent[x] + n <= MaxBytes
    /\ sent' = [sent EXCEPT ![x] = @ + n]
    /\ snd_queue' = [snd_queue EXCEPT ![x] =
                        Queued(@, sent[x] + 1, sent[x] + n)]
    /\ UNCHANGED <<snd_buf, snd_una, snd_nxt, window, receiver, net, faults>>

\* Mutant: what is in flight is not counted.
WaitSndQueued(x) == Len(snd_queue[x])

\* ikcp_waitsnd
WaitSnd(x) == Cardinality(snd_buf[x]) + Len(snd_queue[x])

-----------------------------------------------------------------------------
(***************************************************************************)
(* ikcp_flush, called by ikcp_update.  lost: the segments whose resend     *)
(* timer has run out; fast: those that later segments were acknowledged    *)
(* over often enough.                                                      *)
(***************************************************************************)
Ack(x, sn) ==
    [to |-> Peer(x), type |-> "ack", sn |-> sn, from |-> 0, thru |-> 0,
     una |-> rcv_nxt[x]]

Push(x, s) ==
    [to |-> Peer(x), type |-> "push", sn |-> s.sn, from |-> s.from,
     thru |-> s.to, una |-> rcv_nxt[x]]

\* Mutant: the window limits one flush, not what is outstanding.
AdmittedPerFlush(x) == Least(Len(snd_queue[x]), Least(cwnd[x], SndWnd))

\* How many queued segments get a number.
Admitted(x) ==
    Least(Len(snd_queue[x]),
          Most(0, snd_una[x] + Least(cwnd[x], SndWnd) - snd_nxt[x]))

\* They are sent for the first time.
Fresh(x) ==
    {[sn |-> snd_nxt[x] + i - 1, from |-> snd_queue[x][i].from,
      to |-> snd_queue[x][i].to] : i \in 1 .. Admitted(x)}

\* A segment can be due for a fast resend when a later one was acknowledged.
Skipped(x) ==
    {s \in snd_buf[x] : \E n \in s.sn + 1 .. snd_nxt[x] - 1 :
        \A t \in snd_buf[x] : t.sn # n}

Threshold(n) == Most(2, n \div 2)

\* The congestion window after the flush.
WindowAfter(x, lost, fast) ==
    IF lost # {} THEN 1
    ELSE IF fast # {}
         THEN Threshold(snd_nxt[x] + Admitted(x) - snd_una[x]) + FastResend
    ELSE Most(1, cwnd[x])

ThresholdAfter(x, lost, fast) ==
    IF lost # {} THEN Threshold(cwnd[x])
    ELSE IF fast # {} THEN Threshold(snd_nxt[x] + Admitted(x) - snd_una[x])
    ELSE ssthresh[x]

Flush(x, lost, fast) ==
    /\ lost \subseteq snd_buf[x] /\ fast \subseteq Skipped(x) \ lost
    /\ net' = net \cup {Ack(x, sn) : sn \in acklist[x]}
                  \cup {Push(x, s) : s \in lost \cup fast \cup Fresh(x)}
    /\ acklist' = [acklist EXCEPT ![x] = {}]
    /\ snd_buf' = [snd_buf EXCEPT ![x] = @ \cup Fresh(x)]
    /\ snd_queue' = [snd_queue EXCEPT ![x] =
                        SubSeq(@, Admitted(x) + 1, Len(@))]
    /\ snd_nxt' = [snd_nxt EXCEPT ![x] = @ + Admitted(x)]
    /\ cwnd' = [cwnd EXCEPT ![x] = WindowAfter(x, lost, fast)]
    /\ ssthresh' = [ssthresh EXCEPT ![x] = ThresholdAfter(x, lost, fast)]
    /\ UNCHANGED <<sent, snd_una, rcv_nxt, rcv_buf, written, faults>>

-----------------------------------------------------------------------------
(***************************************************************************)
(* ikcp_input, one segment.                                                *)
(***************************************************************************)

\* Mutant: the number the peer waits for counts as acknowledged.
UnackedOffByOne(x, m) ==
    {s \in snd_buf[x] : s.sn > m.una /\ ~(m.type = "ack" /\ s.sn = m.sn)}

\* ikcp_parse_una, and ikcp_parse_ack for an acknowledgement
Unacked(x, m) ==
    {s \in snd_buf[x] : s.sn >= m.una /\ ~(m.type = "ack" /\ s.sn = m.sn)}

\* ikcp_shrink_buf
FirstUnacked(x, buf) ==
    IF buf = {} THEN snd_nxt[x]
    ELSE CHOOSE n \in {s.sn : s \in buf} : \A s \in buf : n <= s.sn

\* The window grows once per datagram that advances snd_una: by one below
\* the threshold, above it by what incr, which is not kept, has added up to.
Grown(x) ==
    IF cwnd[x] >= RcvWnd THEN {cwnd[x]}
    ELSE IF cwnd[x] < ssthresh[x] THEN {cwnd[x] + 1}
    ELSE {Least(cwnd[x] + k, RcvWnd) : k \in 0 .. 2}

InputAcks(x, m) ==
    LET buf == Unacked(x, m)
        una == FirstUnacked(x, buf)
    IN  /\ snd_buf' = [snd_buf EXCEPT ![x] = buf]
        /\ snd_una' = [snd_una EXCEPT ![x] = una]
        /\ \E w \in IF una > snd_una[x] THEN Grown(x) ELSE {cwnd[x]} :
               cwnd' = [cwnd EXCEPT ![x] = w]

Numbers(buf) == {s.sn : s \in buf}

\* Mutant: a segment that arrived before is not acknowledged again.
AckDueOnce(x, m) ==
    IF m.sn \in rcv_nxt[x] .. rcv_nxt[x] + RcvWnd - 1 THEN {m.sn} ELSE {}

\* ikcp_ack_push: every segment that is not ahead of the window.
AckDue(x, m) == IF m.sn < rcv_nxt[x] + RcvWnd THEN {m.sn} ELSE {}

\* ikcp_parse_data: a segment is kept unless it is old or a repetition.
Arrived(x, m) ==
    IF m.sn \in (rcv_nxt[x] .. rcv_nxt[x] + RcvWnd - 1) \ Numbers(rcv_buf[x])
    THEN rcv_buf[x] \cup {[sn |-> m.sn, from |-> m.from, to |-> m.thru]}
    ELSE rcv_buf[x]

\* What is in order goes to rcv_queue; redp2p_stream_drain takes it from
\* there with ikcp_recv, which moves up what had no room, until nothing is
\* left.  One segment is one write to the local socket.
InputPush(x, m) ==
    LET buf == Arrived(x, m)
        due == {s \in buf : rcv_nxt[x] .. s.sn \subseteq Numbers(buf)}
        Data(sn) == LET s == CHOOSE t \in due : t.sn = sn
                    IN  [from |-> s.from, to |-> s.to]
    IN  /\ acklist' = [acklist EXCEPT ![x] = @ \cup AckDue(x, m)]
        /\ rcv_buf' = [rcv_buf EXCEPT ![x] = buf \ due]
        /\ rcv_nxt' = [rcv_nxt EXCEPT ![x] = @ + Cardinality(due)]
        /\ written' = [written EXCEPT ![x] = @ \o
                          [i \in 1 .. Cardinality(due) |->
                              Data(rcv_nxt[x] + i - 1)]]

Input(x, m) ==
    /\ InputAcks(x, m)
    /\ IF m.type = "push" THEN InputPush(x, m) ELSE UNCHANGED receiver
    /\ UNCHANGED <<sent, snd_queue, snd_nxt, ssthresh>>

\* A datagram arrives; the network may keep a copy to deliver again.
Deliver(m) ==
    /\ Input(m.to, m)
    /\ net' = net \ {m} /\ UNCHANGED faults

Duplicate(m) ==
    /\ faults < MaxFaults /\ faults' = faults + 1
    /\ Input(m.to, m)
    /\ UNCHANGED net

Lose(m) ==
    /\ faults < MaxFaults /\ faults' = faults + 1
    /\ net' = net \ {m}
    /\ UNCHANGED <<sent, sender, window, receiver>>

Next ==
    \/ \E x \in Ends :
          \/ \E n \in 1 .. MaxChunk : Send(x, n)
          \/ \E lost \in SUBSET snd_buf[x] :
                \E fast \in SUBSET (Skipped(x) \ lost) : Flush(x, lost, fast)
    \/ \E m \in net : Deliver(m) \/ Duplicate(m) \/ Lose(m)

\* Timers run out again and again, and what is sent again and again arrives.
Fairness ==
    /\ \A x \in Ends : WF_vars(Flush(x, snd_buf[x], {}))
    /\ \A x \in Writers : \A sn \in 0 .. MaxBytes - 1 :
          /\ WF_vars(\E m \in net : /\ m.to = Peer(x) /\ m.type = "push"
                                   /\ m.sn = sn /\ Deliver(m))
          /\ WF_vars(\E m \in net : /\ m.to = x /\ m.type = "ack"
                                   /\ m.sn = sn /\ Deliver(m))

Spec == Init /\ [][Next]_vars /\ Fairness

-----------------------------------------------------------------------------
Segment == [sn : 0 .. MaxBytes, from : 1 .. MaxBytes, to : 1 .. MaxBytes]

TypeOK ==
    /\ sent \in [Ends -> 0 .. MaxBytes]
    /\ snd_buf \in [Ends -> SUBSET Segment]
    /\ rcv_buf \in [Ends -> SUBSET Segment]
    /\ snd_una \in [Ends -> Nat] /\ snd_nxt \in [Ends -> Nat]
    /\ rcv_nxt \in [Ends -> Nat]
    /\ cwnd \in [Ends -> Nat] /\ ssthresh \in [Ends -> Nat]
    /\ acklist \in [Ends -> SUBSET Nat]
    /\ faults \in 0 .. MaxFaults

\* Bytes handed to the local application of x.
Got(x) == IF written[x] = <<>> THEN 0 ELSE written[x][Len(written[x])].to

\* The writes to the local socket are the peer's stream without a gap, a
\* repetition or an overlap, whatever is lost, repeated or overtaken.
InOrder ==
    \A x \in Ends : \A i \in 1 .. Len(written[x]) :
        written[x][i].from = IF i = 1 THEN 1 ELSE written[x][i - 1].to + 1

\* Nothing is given up before it arrived: a numbered segment that has left
\* snd_buf was received, although a selective acknowledgement and snd_una may
\* both remove it, and what is acknowledged may still wait for an earlier one.
Kept ==
    \A x \in Ends : \A sn \in 0 .. snd_nxt[x] - 1 :
        \/ sn \in Numbers(snd_buf[x])
        \/ sn < rcv_nxt[Peer(x)]
        \/ sn \in Numbers(rcv_buf[Peer(x)])

\* A segment in flight fits the receiver's window: the peer never drops one.
InWindow ==
    \A m \in net : m.type = "push" => m.sn < rcv_nxt[m.to] + RcvWnd

\* Each direction is a pipe: what is handed over only grows, never past what
\* was sent, and ikcp_waitsnd is zero only when the peer's application has
\* everything.  This is what the tunnel relies on before it sends CLOSE.
Upstream == INSTANCE Pipe WITH
    sent <- sent[Consumer], got <- Got(Publisher),
    idle <- WaitSnd(Consumer) = 0

Downstream == INSTANCE Pipe WITH
    sent <- sent[Publisher], got <- Got(Consumer),
    idle <- WaitSnd(Publisher) = 0

IsPipe == Upstream!Spec /\ Downstream!Spec

\* Everything written arrives and is acknowledged, so the session can close.
Settles == \A x \in Ends : []<>(WaitSnd(x) = 0)
=============================================================================
