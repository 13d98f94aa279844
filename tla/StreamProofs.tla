---------------------------- MODULE StreamProofs ----------------------------
(***************************************************************************)
(* Theorems about a TCP tunnel session (module Stream), for any number of  *)
(* chunks, any limit on what may wait and any number of lost datagrams: a  *)
(* CLOSE never ends a stream early, and a session that ends as done has    *)
(* left nothing behind at either end.                                      *)
(***************************************************************************)
EXTENDS Stream, TLAPS

USE StreamAssumption

(***************************************************************************)
(* One direction, from x to y.  CLOSE travels beside KCP, so the argument  *)
(* is about what both know when it is sent: the sender has no more to send *)
(* and everything it sent is acknowledged, hence written, and this stays   *)
(* so while the CLOSE, or a copy of it, is on its way.                     *)
(***************************************************************************)
DirInv(x) ==
    LET y == Peer(x)
    IN  /\ una[x] <= written[y] /\ written[y] <= sent[x]
        /\ net[x]["kcp"].una <= written[y]
        /\ net[y]["kcp"].push <= sent[x]
        /\ net[y]["close"] # Nothing \/ remote[y] =>
              eof[x] /\ una[x] = sent[x]
        /\ net[x]["close_ack"] # Nothing \/ acked[x] => remote[y]
        /\ state[x] = "done" => remote[x] /\ acked[x]

StreamIInv == TypeOK /\ \A x \in Ends : DirInv(x)

(* What one step may do to the direction from x.                            *)
Moves(x) ==
    LET y == Peer(x)
    IN  /\ \/ sent'[x] = sent[x]
           \/ eof[x] = FALSE /\ sent'[x] = sent[x] + 1
        /\ \/ una'[x] = una[x]
           \/ una'[x] = net[x]["kcp"].una /\ una'[x] > una[x]
        /\ \/ written'[y] = written[y]
           \/ /\ written'[y] = written[y] + 1
              /\ written'[y] = net[y]["kcp"].push
        /\ \/ net'[x]["kcp"] = net[x]["kcp"]
           \/ net'[x]["kcp"].una <= written[y]
        /\ \/ net'[y]["kcp"] = net[y]["kcp"]
           \/ net'[y]["kcp"].push <= sent[x]
        /\ net'[y]["close"] # Nothing =>
              net[y]["close"] # Nothing \/ (eof[x] /\ WaitSnd(x) = 0)
        /\ remote'[y] => remote[y] \/ net[y]["close"] # Nothing
        /\ net'[x]["close_ack"] # Nothing =>
              net[x]["close_ack"] # Nothing \/ remote'[y]
        /\ acked'[x] => acked[x] \/ net[x]["close_ack"] # Nothing
        /\ state'[x] = "done" =>
              state[x] = "done" \/ (remote[x] /\ acked[x])
        /\ eof[x] => eof'[x]
        /\ remote[x] => remote'[x]
        /\ remote[y] => remote'[y]
        /\ acked[x] => acked'[x]

-----------------------------------------------------------------------------
(* There are two ends, each the other's peer.                               *)
LEMMA EndsFact ==
    /\ Consumer \in Ends /\ Publisher \in Ends
    /\ \A x \in Ends : Peer(x) \in Ends /\ Peer(Peer(x)) = x /\ Peer(x) # x
    /\ \A x, y \in Ends : y = x \/ y = Peer(x)
  BY DEF Ends, Peer

(* The types at one end.                                                    *)
LEMMA TypesAt ==
    ASSUME TypeOK, NEW x \in Ends
    PROVE  /\ sent[x] \in 0 .. MaxData /\ una[x] \in 0 .. MaxData
           /\ written[x] \in 0 .. MaxData
           /\ eof[x] \in BOOLEAN /\ acked[x] \in BOOLEAN
           /\ remote[x] \in BOOLEAN /\ ready[x] \in BOOLEAN
           /\ \A kind \in Kinds : /\ net[x][kind] \in Datagram
                                  /\ net[x][kind].push \in Nat
                                  /\ net[x][kind].una \in Int
           /\ WaitSnd(x) <= MaxWaitSend
  BY DEF TypeOK, Datagram

(* Control and data datagrams.                                              *)
LEMMA KindsFact ==
    /\ \A kind \in {"hello", "close", "close_ack", "reset", "kcp"} :
          kind \in Kinds
    /\ Nothing \in Datagram /\ Signal \in Datagram /\ Signal # Nothing
    /\ Nothing.una = -1 /\ Nothing.push = 0
  BY DEF Kinds, Control, Nothing, Signal, Datagram

(* A step that makes only such moves keeps the direction's invariant.       *)
LEMMA MovesKeep ==
    ASSUME TypeOK, TypeOK', NEW x \in Ends, DirInv(x), Moves(x)
    PROVE  DirInv(x)'
  <1> PICK y \in Ends : y = Peer(x)
    BY EndsFact
  <1>1. /\ sent[x] \in Nat /\ una[x] \in Nat /\ written[y] \in Nat
        /\ net[x]["kcp"].una \in Int /\ net[y]["kcp"].push \in Nat
    BY KindsFact, TypesAt
  <1>2. /\ sent'[x] \in Nat /\ una'[x] \in Nat /\ written'[y] \in Nat
        /\ net'[x]["kcp"].una \in Int /\ net'[y]["kcp"].push \in Nat
    BY KindsFact DEF TypeOK, Datagram
  <1>3. /\ una[x] <= written[y] /\ written[y] <= sent[x]
        /\ net[x]["kcp"].una <= written[y] /\ net[y]["kcp"].push <= sent[x]
    BY DEF DirInv
  <1>4. sent[x] <= sent'[x] /\ written[y] <= written'[y]
    BY <1>1, <1>2 DEF Moves
  <1>5. una'[x] <= written'[y] /\ written'[y] <= sent'[x]
    BY <1>1, <1>2, <1>3, <1>4 DEF Moves
  <1>6. net'[x]["kcp"].una <= written'[y] /\ net'[y]["kcp"].push <= sent'[x]
    BY <1>1, <1>2, <1>3, <1>4 DEF Moves
  <1>7. ASSUME net'[y]["close"] # Nothing \/ remote'[y]
        PROVE  eof'[x] /\ una'[x] = sent'[x]
    <2>1. eof[x] /\ una[x] = sent[x]
      <3>1. CASE net[y]["close"] # Nothing \/ remote[y]
        BY <3>1 DEF DirInv
      <3>2. CASE eof[x] /\ WaitSnd(x) = 0
        BY <1>1, <3>2 DEF WaitSnd
      <3>3. QED
        BY <1>7, <3>1, <3>2 DEF Moves
    <2>2. sent'[x] = sent[x] /\ eof'[x]
      BY <2>1 DEF Moves
    <2>3. una'[x] = una[x]
      BY <1>1, <1>3, <2>1 DEF Moves
    <2>4. QED
      BY <2>1, <2>2, <2>3
  <1>8. net'[x]["close_ack"] # Nothing \/ acked'[x] => remote'[y]
    BY DEF DirInv, Moves
  <1>9. state'[x] = "done" => remote'[x] /\ acked'[x]
    BY DEF DirInv, Moves
  <1>10. QED
    BY <1>5, <1>6, <1>7, <1>8, <1>9 DEF DirInv

-----------------------------------------------------------------------------
(* Datagrams.                                                               *)

(* Every cell of the network after a datagram was put.                      *)
LEMMA PutCells ==
    ASSUME NEW n \in [Ends -> [Kinds -> Datagram]], NEW x \in Ends,
           NEW kind \in Kinds
    PROVE  /\ Put(n, x, kind) \in [Ends -> [Kinds -> Datagram]]
           /\ Put(n, x, kind)[x][kind] = Signal
           /\ \A z \in Ends, k \in Kinds :
                 z # x \/ k # kind => Put(n, x, kind)[z][k] = n[z][k]
  <1> PICK c \in [Kinds -> Datagram] : c = [n[x] EXCEPT ![kind] = Signal]
    BY KindsFact
  <1>1. Put(n, x, kind) = [n EXCEPT ![x] = c]
    BY DEF Put
  <1>2. QED
    BY <1>1

(* Every cell of the network after a datagram was taken.                    *)
LEMMA TakeCells ==
    ASSUME TypeOK, NEW x \in Ends, NEW kind \in Kinds
    PROVE  /\ Take(x, kind) \in [Ends -> [Kinds -> Datagram]]
           /\ Take(x, kind)[x][kind] = Nothing
           /\ \A z \in Ends, k \in Kinds :
                 z # x \/ k # kind => Take(x, kind)[z][k] = net[z][k]
  <1>1. net \in [Ends -> [Kinds -> Datagram]]
    BY DEF TypeOK
  <1> PICK c \in [Kinds -> Datagram] : c = [net[x] EXCEPT ![kind] = Nothing]
    BY <1>1, KindsFact
  <1>2. Take(x, kind) = [net EXCEPT ![x] = c]
    BY DEF Take
  <1>3. QED
    BY <1>1, <1>2

(* What a turn of the loop sends.                                           *)
LEMMA TickCells ==
    ASSUME TypeOK, NEW x \in Ends, \A z \in Ends : DirInv(z), NEW due
    PROVE  LET y == Peer(x)
           IN  /\ Tick(x, due) \in [Ends -> [Kinds -> Datagram]]
               /\ \A k \in Kinds : Tick(x, due)[x][k] = net[x][k]
               /\ \/ Tick(x, due)[y]["kcp"] = net[y]["kcp"]
                  \/ /\ Tick(x, due)[y]["kcp"].push <= sent[x]
                     /\ Tick(x, due)[y]["kcp"].una = written[x]
               /\ \/ Tick(x, due)[y]["close"] = net[y]["close"]
                  \/ CloseDue(x)
               /\ Tick(x, due)[y]["close_ack"] = net[y]["close_ack"]
  <1> PICK y \in Ends : y = Peer(x) /\ y # x
    BY EndsFact
  <1>1. net \in [Ends -> [Kinds -> Datagram]]
    BY DEF TypeOK
  <1>2. /\ sent[x] \in 0 .. MaxData /\ una[x] \in 0 .. MaxData
        /\ written[x] \in 0 .. MaxData
    BY TypesAt
  <1>3. una[x] <= sent[x]
    <2>1. una[x] <= written[y] /\ written[y] <= sent[x]
      BY DEF DirInv
    <2>2. QED
      BY <1>2, <2>1, TypesAt
  <1>4. /\ KcpSegment(x) \in Datagram /\ KcpSegment(x).push <= sent[x]
        /\ KcpSegment(x).una = written[x]
    BY <1>2, <1>3 DEF KcpSegment, WaitSnd, Datagram
  <1> DEFINE cell(kind) ==
        CASE kind = "hello" /\ kind \in due /\ x = Consumer /\ ~ready[x]
                -> Signal
          [] kind = "kcp" /\ kind \in due /\ ready[x] -> KcpSegment(x)
          [] kind = "close" /\ kind \in due /\ CloseDue(x) -> Signal
          [] OTHER -> net[y][kind]
  <1>5. /\ cell("kcp") = net[y]["kcp"] \/ cell("kcp") = KcpSegment(x)
        /\ cell("close") = net[y]["close"] \/ CloseDue(x)
        /\ cell("close_ack") = net[y]["close_ack"]
    OBVIOUS
  <1>6. ASSUME NEW kind \in Kinds
        PROVE  cell(kind) \in Datagram
    <2>1. net[y][kind] \in Datagram
      BY <1>1
    <2>2. QED
      BY <1>4, <2>1, KindsFact
  <1> PICK c : c = [kind \in Kinds |-> cell(kind)]
    OBVIOUS
  <1>7. Tick(x, due) = [net EXCEPT ![y] = c]
    BY DEF Tick
  <1>8. c \in [Kinds -> Datagram]
    BY <1>6
  <1>9. /\ c["kcp"] = cell("kcp") /\ c["close"] = cell("close")
        /\ c["close_ack"] = cell("close_ack")
    BY KindsFact
  <1> HIDE DEF cell
  <1>10. Tick(x, due)[y] = c /\ Tick(x, due)[x] = net[x]
         /\ Tick(x, due) \in [Ends -> [Kinds -> Datagram]]
    BY <1>1, <1>7, <1>8
  <1>11. QED
    BY <1>4, <1>5, <1>9, <1>10

-----------------------------------------------------------------------------
(* Steps that change only the network and the state of the session.         *)

DataSame == sent' = sent /\ una' = una /\ written' = written
FlagsSame ==
    ready' = ready /\ eof' = eof /\ acked' = acked /\ remote' = remote

(* Nothing new among the datagrams of the direction from d.                 *)
NetFewer(d) ==
    LET y == Peer(d)
    IN  /\ net'[d]["kcp"] = net[d]["kcp"] \/ net'[d]["kcp"] = Nothing
        /\ net'[y]["kcp"] = net[y]["kcp"] \/ net'[y]["kcp"] = Nothing
        /\ net'[y]["close"] # Nothing => net[y]["close"] # Nothing
        /\ net'[d]["close_ack"] # Nothing => net[d]["close_ack"] # Nothing

(* Lost and ignored datagrams, failures and crashes.                        *)
LEMMA QuietMoves ==
    ASSUME TypeOK, NEW d \in Ends, DataSame, FlagsSame, NetFewer(d),
           state'[d] = "done" =>
              state[d] = "done" \/ (remote[d] /\ acked[d])
    PROVE  Moves(d)
  <1> PICK y \in Ends : y = Peer(d)
    BY EndsFact
  <1>1. Nothing.una <= written[y] /\ Nothing.push <= sent[d]
    BY KindsFact, TypesAt
  <1>2. QED
    BY <1>1 DEF Moves, DataSame, FlagsSame, NetFewer

(* The types of the session's state.                                        *)
LEMMA StateTypes ==
    ASSUME TypeOK, NEW x \in Ends, NEW s \in {"active", "done", "broken"},
           state' = [state EXCEPT ![x] = s]
    PROVE  state' \in [Ends -> {"none", "active"} \cup Ended]
  BY DEF TypeOK, Ended

(* The publisher opens its session.                                         *)
LEMMA OpenStep ==
    ASSUME StreamIInv, Open
    PROVE  TypeOK' /\ \A d \in Ends : Moves(d)
  <1>1. TypeOK
    BY DEF StreamIInv
  <1>2. DataSame /\ FlagsSame /\ net' = net
    BY DEF Open, DataSame, FlagsSame, flags, data
  <1>3. TypeOK'
    <2>1. state' \in [Ends -> {"none", "active"} \cup Ended]
      BY <1>1, EndsFact, StateTypes DEF Open
    <2>2. QED
      BY <1>1, <1>2, <2>1 DEF TypeOK, WaitSnd, DataSame, FlagsSame
  <1>4. \A d \in Ends : state'[d] = "done" => state[d] = "done"
    BY <1>1 DEF Open, TypeOK
  <1>5. QED
    BY <1>1, <1>2, <1>3, <1>4, QuietMoves DEF NetFewer

(* A chunk, or the end of the local input.                                  *)
LEMMA PumpStep ==
    ASSUME StreamIInv, NEW x \in Ends, PumpChunk(x) \/ PumpEof(x)
    PROVE  TypeOK' /\ \A d \in Ends : Moves(d)
  <1>1. TypeOK
    BY DEF StreamIInv
  <1>2. CASE PumpChunk(x)
    <2>1. /\ state' = state /\ FlagsSame /\ una' = una /\ written' = written
          /\ net' = net /\ eof[x] = FALSE /\ WaitSnd(x) < MaxWaitSend
          /\ sent[x] < MaxData /\ sent' = [sent EXCEPT ![x] = @ + 1]
      BY <1>1, <1>2, TypesAt DEF PumpChunk, CanSendData, FlagsSame, flags
    <2>2. sent[x] \in 0 .. MaxData /\ una[x] \in 0 .. MaxData
      BY <1>1, TypesAt
    <2>3. sent' \in [Ends -> 0 .. MaxData]
      BY <1>1, <2>1, <2>2 DEF TypeOK
    <2>4. \A z \in Ends : WaitSnd(z)' <= MaxWaitSend
      BY <1>1, <2>1, <2>2 DEF TypeOK, WaitSnd
    <2>5. TypeOK'
      BY <1>1, <2>1, <2>3, <2>4 DEF TypeOK, FlagsSame
    <2>6. ASSUME NEW d \in Ends
          PROVE  Moves(d)
      <3>1. sent'[d] = sent[d] \/ (eof[d] = FALSE /\ sent'[d] = sent[d] + 1)
        BY <1>1, <2>1 DEF TypeOK
      <3>2. QED
        BY <2>1, <3>1 DEF Moves, FlagsSame
    <2>7. QED
      BY <2>5, <2>6
  <1>3. CASE PumpEof(x)
    <2>1. /\ state' = state /\ DataSame /\ ready' = ready /\ acked' = acked
          /\ remote' = remote /\ net' = net
          /\ eof' = [eof EXCEPT ![x] = TRUE]
      BY <1>3 DEF PumpEof, DataSame, data
    <2>2. TypeOK'
      BY <1>1, <2>1 DEF TypeOK, WaitSnd, DataSame
    <2>3. ASSUME NEW d \in Ends
          PROVE  Moves(d)
      <3>1. eof[d] => eof'[d]
        BY <1>1, <2>1 DEF TypeOK
      <3>2. QED
        BY <2>1, <3>1 DEF Moves, DataSame
    <2>4. QED
      BY <2>2, <2>3
  <1>4. QED
    BY <1>2, <1>3

(* A turn of the loop, which may find the session done or silent.           *)
LEMMA TurnStep ==
    ASSUME StreamIInv, NEW x \in Ends, NEW due,
           Maintain(x, due) \/ Expire(x, due)
    PROVE  TypeOK' /\ \A d \in Ends : Moves(d)
  <1>1. TypeOK /\ \A z \in Ends : DirInv(z)
    BY DEF StreamIInv
  <1>2. DataSame /\ FlagsSame /\ net' = Tick(x, due)
    BY DEF Maintain, Expire, DataSame, FlagsSame, flags, data
  <1>3. PICK s \in {"active", "done", "broken"} :
           /\ state' = [state EXCEPT ![x] = s]
           /\ s = "done" => IsDone(x)
    BY DEF Maintain, Expire, Active
  <1>4. TypeOK'
    <2>1. state' \in [Ends -> {"none", "active"} \cup Ended]
      BY <1>1, <1>3, StateTypes
    <2>2. net' \in [Ends -> [Kinds -> Datagram]]
      BY <1>1, <1>2, TickCells
    <2>3. QED
      BY <1>1, <1>2, <2>1, <2>2 DEF TypeOK, WaitSnd, DataSame, FlagsSame
  <1>5. ASSUME NEW d \in Ends
        PROVE  Moves(d)
    <2> PICK y \in Ends : y = Peer(x) /\ Peer(y) = x /\ y # x
      BY EndsFact
    <2>1. state'[d] = "done" => state[d] = "done" \/ (remote[d] /\ acked[d])
      BY <1>1, <1>3 DEF TypeOK, IsDone
    <2>2. /\ \A k \in Kinds : net'[x][k] = net[x][k]
          /\ \/ net'[y]["kcp"] = net[y]["kcp"]
             \/ /\ net'[y]["kcp"].push <= sent[x]
                /\ net'[y]["kcp"].una = written[x]
          /\ net'[y]["close"] = net[y]["close"] \/ CloseDue(x)
          /\ net'[y]["close_ack"] = net[y]["close_ack"]
      BY <1>1, <1>2, TickCells
    <2>3. /\ net'[x]["kcp"] = net[x]["kcp"]
          /\ net'[x]["close"] = net[x]["close"]
          /\ net'[x]["close_ack"] = net[x]["close_ack"]
      BY <2>2, KindsFact
    <2>4. written[x] <= written[x]
      BY <1>1, TypesAt
    <2>5. CASE d = x
      BY <1>2, <2>1, <2>2, <2>3, <2>5 DEF Moves, DataSame, FlagsSame, CloseDue
    <2>6. CASE d = y
      BY <1>2, <2>1, <2>2, <2>3, <2>4, <2>6 DEF Moves, DataSame, FlagsSame
    <2>7. QED
      BY <2>5, <2>6, EndsFact
  <1>6. QED
    BY <1>4, <1>5

(* A failure tells the peer, a crash does not.                              *)
LEMMA FailStep ==
    ASSUME StreamIInv, NEW x \in Ends, Fail(x) \/ Crash(x)
    PROVE  TypeOK' /\ \A d \in Ends : Moves(d)
  <1>1. TypeOK /\ Peer(x) \in Ends
    BY EndsFact DEF StreamIInv
  <1>2. DataSame /\ FlagsSame /\ state' = [state EXCEPT ![x] = "broken"]
    BY DEF Fail, Crash, DataSame, FlagsSame, flags, data
  <1>3. /\ net' \in [Ends -> [Kinds -> Datagram]]
        /\ \A z \in Ends : /\ net'[z]["kcp"] = net[z]["kcp"]
                           /\ net'[z]["close"] = net[z]["close"]
                           /\ net'[z]["close_ack"] = net[z]["close_ack"]
    <2>1. net \in [Ends -> [Kinds -> Datagram]]
      BY <1>1 DEF TypeOK
    <2>2. CASE net' = net
      BY <2>1, <2>2
    <2>3. CASE net' = Put(net, Peer(x), "reset")
      <3>1. "reset" \in Kinds /\ "kcp" \in Kinds /\ "close" \in Kinds
            /\ "close_ack" \in Kinds
        BY KindsFact
      <3>2. /\ net' \in [Ends -> [Kinds -> Datagram]]
            /\ \A z \in Ends, k \in Kinds :
                  k # "reset" => net'[z][k] = net[z][k]
        BY <1>1, <2>1, <2>3, <3>1, PutCells
      <3>3. QED
        BY <3>1, <3>2
    <2>4. QED
      BY <2>2, <2>3 DEF Fail, Crash
  <1>4. TypeOK'
    <2>1. state' \in [Ends -> {"none", "active"} \cup Ended]
      BY <1>1, <1>2, StateTypes
    <2>2. QED
      BY <1>1, <1>2, <1>3, <2>1 DEF TypeOK, WaitSnd, DataSame, FlagsSame
  <1>5. \A d \in Ends : state'[d] = "done" => state[d] = "done"
    BY <1>1, <1>2 DEF TypeOK
  <1>6. QED
    BY <1>1, <1>2, <1>3, <1>4, <1>5, EndsFact, QuietMoves DEF NetFewer

(* A datagram that is lost or that an end without a session ignores.        *)
LEMMA DropStep ==
    ASSUME StreamIInv, NEW x \in Ends, NEW kind \in Kinds,
           Lose(x, kind) \/ Ignore(x, kind)
    PROVE  TypeOK' /\ \A d \in Ends : Moves(d)
  <1>1. TypeOK
    BY DEF StreamIInv
  <1>2. DataSame /\ FlagsSame /\ state' = state /\ net' = Take(x, kind)
    BY DEF Lose, Ignore, DataSame, FlagsSame, flags, data
  <1>3. /\ net' \in [Ends -> [Kinds -> Datagram]]
        /\ \A z \in Ends, k \in Kinds :
              net'[z][k] = net[z][k] \/ net'[z][k] = Nothing
    <2>1. /\ Take(x, kind) \in [Ends -> [Kinds -> Datagram]]
          /\ Take(x, kind)[x][kind] = Nothing
          /\ \A z \in Ends, k \in Kinds :
                z # x \/ k # kind => Take(x, kind)[z][k] = net[z][k]
      BY <1>1, TakeCells
    <2>2. /\ net' \in [Ends -> [Kinds -> Datagram]]
          /\ net'[x][kind] = Nothing
          /\ \A z \in Ends, k \in Kinds :
                z # x \/ k # kind => net'[z][k] = net[z][k]
      BY <1>2, <2>1
    <2>3. QED
      BY <2>2
  <1>4. TypeOK'
    BY <1>1, <1>2, <1>3 DEF TypeOK, WaitSnd, DataSame, FlagsSame
  <1>5. ASSUME NEW d \in Ends
        PROVE  NetFewer(d)
    <2> PICK y \in Ends : y = Peer(d)
      BY EndsFact
    <2>1. "kcp" \in Kinds /\ "close" \in Kinds /\ "close_ack" \in Kinds
      BY KindsFact
    <2>2. QED
      BY <1>3, <2>1 DEF NetFewer
  <1>6. QED
    BY <1>1, <1>2, <1>4, <1>5, QuietMoves

(* HELLO and HELLO_ACK.                                                     *)
LEMMA HelloStep ==
    ASSUME StreamIInv, NEW x \in Ends, ReceiveHello(x)
    PROVE  TypeOK' /\ \A d \in Ends : Moves(d)
  <1>1. TypeOK
    BY DEF StreamIInv
  <1>2. /\ DataSame /\ state' = state /\ eof' = eof /\ acked' = acked
        /\ remote' = remote /\ ready' = [ready EXCEPT ![x] = TRUE]
    BY DEF ReceiveHello, DataSame, data
  <1>3. /\ net' \in [Ends -> [Kinds -> Datagram]]
        /\ \A z \in Ends, k \in Kinds : k # "hello" => net'[z][k] = net[z][k]
    <2>1. "hello" \in Kinds
      BY KindsFact
    <2>2. /\ Take(x, "hello") \in [Ends -> [Kinds -> Datagram]]
          /\ \A z \in Ends, k \in Kinds :
                k # "hello" => Take(x, "hello")[z][k] = net[z][k]
      BY <1>1, <2>1, TakeCells
    <2>3. CASE net' = Take(x, "hello")
      BY <2>2, <2>3
    <2>4. CASE net' = Put(Take(x, "hello"), Consumer, "hello")
      <3>1. Consumer \in Ends
        BY EndsFact
      <3>2. QED
        BY <2>1, <2>2, <2>4, <3>1, PutCells
    <2>5. QED
      BY <2>3, <2>4 DEF ReceiveHello
  <1>4. TypeOK'
    BY <1>1, <1>2, <1>3 DEF TypeOK, WaitSnd, DataSame
  <1>5. ASSUME NEW d \in Ends
        PROVE  Moves(d)
    <2> PICK y \in Ends : y = Peer(d)
      BY EndsFact
    <2>1. "kcp" \in Kinds /\ "close" \in Kinds /\ "close_ack" \in Kinds
      BY KindsFact
    <2>2. \A z \in Ends : /\ net'[z]["kcp"] = net[z]["kcp"]
                          /\ net'[z]["close"] = net[z]["close"]
                          /\ net'[z]["close_ack"] = net[z]["close_ack"]
      BY <1>3, <2>1
    <2>3. QED
      BY <1>2, <2>2 DEF Moves, DataSame
  <1>6. QED
    BY <1>4, <1>5

(* Data and acknowledgements.                                               *)
LEMMA KcpStep ==
    ASSUME StreamIInv, NEW x \in Ends, ReceiveKcp(x)
    PROVE  TypeOK' /\ \A d \in Ends : Moves(d)
  <1>1. TypeOK
    BY DEF StreamIInv
  <1> PICK y \in Ends : y = Peer(x) /\ Peer(y) = x /\ y # x
    BY EndsFact
  <1>k. "kcp" \in Kinds /\ "close" \in Kinds /\ "close_ack" \in Kinds
    BY KindsFact
  <1> PICK e \in Datagram : e = net[x]["kcp"]
    BY <1>1, <1>k, TypesAt
  <1>2. /\ FlagsSame /\ state' = state /\ sent' = sent
        /\ net' = Take(x, "kcp")
        /\ una' = [una EXCEPT ![x] = IF e.una > @ THEN e.una ELSE @]
        /\ written' = [written EXCEPT ![x] =
                          IF e.push = @ + 1 THEN e.push ELSE @]
    BY DEF ReceiveKcp, FlagsSame, flags
  <1>3. e.push \in 0 .. MaxData /\ e.una \in -1 .. MaxData
    BY DEF Datagram
  <1>4. /\ sent[x] \in 0 .. MaxData /\ una[x] \in 0 .. MaxData
        /\ written[x] \in 0 .. MaxData
    BY <1>1, TypesAt
  <1>5. /\ una'[x] = IF e.una > una[x] THEN e.una ELSE una[x]
        /\ written'[x] = IF e.push = written[x] + 1 THEN e.push ELSE written[x]
        /\ una'[y] = una[y] /\ written'[y] = written[y]
    BY <1>1, <1>2 DEF TypeOK
  <1>6. /\ net' \in [Ends -> [Kinds -> Datagram]]
        /\ net'[x]["kcp"] = Nothing /\ net'[y]["kcp"] = net[y]["kcp"]
        /\ \A z \in Ends : /\ net'[z]["close"] = net[z]["close"]
                           /\ net'[z]["close_ack"] = net[z]["close_ack"]
    <2>1. /\ Take(x, "kcp") \in [Ends -> [Kinds -> Datagram]]
          /\ Take(x, "kcp")[x]["kcp"] = Nothing
          /\ \A z \in Ends, k \in Kinds :
                z # x \/ k # "kcp" => Take(x, "kcp")[z][k] = net[z][k]
      BY <1>1, <1>k, TakeCells
    <2>2. /\ net' \in [Ends -> [Kinds -> Datagram]]
          /\ net'[x]["kcp"] = Nothing
          /\ \A z \in Ends, k \in Kinds :
                z # x \/ k # "kcp" => net'[z][k] = net[z][k]
      BY <1>2, <2>1
    <2>3. QED
      BY <1>k, <2>2
  <1>7. TypeOK'
    <2>1. una' \in [Ends -> 0 .. MaxData]
      <3>1. (IF e.una > una[x] THEN e.una ELSE una[x]) \in 0 .. MaxData
        BY <1>3, <1>4
      <3>2. QED
        BY <1>1, <1>2, <3>1 DEF TypeOK
    <2>2. written' \in [Ends -> 0 .. MaxData]
      <3>1. (IF e.push = written[x] + 1 THEN e.push ELSE written[x])
               \in 0 .. MaxData
        BY <1>3, <1>4
      <3>2. QED
        BY <1>1, <1>2, <3>1 DEF TypeOK
    <2>3. ASSUME NEW z \in Ends
          PROVE  WaitSnd(z)' <= MaxWaitSend
      <3>1. WaitSnd(z) <= MaxWaitSend
        BY <1>1, TypesAt
      <3>2. una[z] <= una'[z] /\ una[z] \in Nat /\ una'[z] \in Nat
            /\ sent[z] \in Nat
        BY <1>1, <1>3, <1>4, <1>5, <2>1, EndsFact, TypesAt
      <3>3. QED
        BY <1>2, <3>1, <3>2 DEF WaitSnd
    <2>4. QED
      BY <1>1, <1>2, <1>6, <2>1, <2>2, <2>3 DEF TypeOK, FlagsSame
  <1>8. Nothing.una <= written[y] /\ Nothing.push <= sent[y]
    BY <1>1, KindsFact, TypesAt
  <1>9. ASSUME NEW d \in Ends
        PROVE  Moves(d)
    <2>1. CASE d = x
      BY <1>2, <1>5, <1>6, <1>8, <2>1 DEF Moves, FlagsSame
    <2>2. CASE d = y
      BY <1>2, <1>5, <1>6, <1>8, <2>2 DEF Moves, FlagsSame
    <2>3. QED
      BY <2>1, <2>2, EndsFact
  <1>10. QED
    BY <1>7, <1>9

(* CLOSE shuts the local socket for writing and is acknowledged.            *)
LEMMA CloseStep ==
    ASSUME StreamIInv, NEW x \in Ends, ReceiveClose(x),
           net[x]["close"] # Nothing
    PROVE  TypeOK' /\ \A d \in Ends : Moves(d)
  <1>1. TypeOK
    BY DEF StreamIInv
  <1> PICK y \in Ends : y = Peer(x) /\ Peer(y) = x /\ y # x
    BY EndsFact
  <1>k. "kcp" \in Kinds /\ "close" \in Kinds /\ "close_ack" \in Kinds
    BY KindsFact
  <1>2. /\ DataSame /\ state' = state /\ ready' = ready /\ eof' = eof
        /\ acked' = acked /\ remote' = [remote EXCEPT ![x] = TRUE]
        /\ net' = Put(Take(x, "close"), y, "close_ack")
    BY DEF ReceiveClose, DataSame, data
  <1>3. /\ Take(x, "close") \in [Ends -> [Kinds -> Datagram]]
        /\ Take(x, "close")[x]["close"] = Nothing
        /\ \A z \in Ends, k \in Kinds :
              z # x \/ k # "close" => Take(x, "close")[z][k] = net[z][k]
    BY <1>1, <1>k, TakeCells
  <1>4. /\ net' \in [Ends -> [Kinds -> Datagram]]
        /\ \A z \in Ends, k \in Kinds :
              z # y \/ k # "close_ack" => net'[z][k] = Take(x, "close")[z][k]
    BY <1>2, <1>3, <1>k, PutCells
  <1>5. /\ \A z \in Ends : net'[z]["kcp"] = net[z]["kcp"]
        /\ net'[x]["close"] = Nothing /\ net'[y]["close"] = net[y]["close"]
        /\ net'[x]["close_ack"] = net[x]["close_ack"]
    BY <1>3, <1>4, <1>k
  <1>6. remote'[x] = TRUE /\ remote'[y] = remote[y]
    BY <1>1, <1>2 DEF TypeOK
  <1>7. TypeOK'
    BY <1>1, <1>2, <1>4 DEF TypeOK, WaitSnd, DataSame
  <1>8. ASSUME NEW d \in Ends
        PROVE  Moves(d)
    <2>1. CASE d = x
      BY <1>2, <1>5, <1>6, <2>1 DEF Moves, DataSame
    <2>2. CASE d = y
      BY <1>2, <1>5, <1>6, <2>2 DEF Moves, DataSame
    <2>3. QED
      BY <2>1, <2>2, EndsFact
  <1>9. QED
    BY <1>7, <1>8

(* CLOSE_ACK.                                                               *)
LEMMA CloseAckStep ==
    ASSUME StreamIInv, NEW x \in Ends, ReceiveCloseAck(x),
           net[x]["close_ack"] # Nothing
    PROVE  TypeOK' /\ \A d \in Ends : Moves(d)
  <1>1. TypeOK
    BY DEF StreamIInv
  <1> PICK y \in Ends : y = Peer(x) /\ Peer(y) = x /\ y # x
    BY EndsFact
  <1>k. "kcp" \in Kinds /\ "close" \in Kinds /\ "close_ack" \in Kinds
    BY KindsFact
  <1>2. /\ DataSame /\ state' = state /\ ready' = ready /\ eof' = eof
        /\ remote' = remote /\ acked' = [acked EXCEPT ![x] = TRUE]
        /\ net' = Take(x, "close_ack")
    BY DEF ReceiveCloseAck, DataSame, data
  <1>3. /\ net' \in [Ends -> [Kinds -> Datagram]]
        /\ \A z \in Ends, k \in Kinds :
              z # x \/ k # "close_ack" => net'[z][k] = net[z][k]
        /\ net'[x]["close_ack"] = Nothing
    BY <1>1, <1>2, <1>k, TakeCells
  <1>4. /\ \A z \in Ends : /\ net'[z]["kcp"] = net[z]["kcp"]
                           /\ net'[z]["close"] = net[z]["close"]
        /\ net'[y]["close_ack"] = net[y]["close_ack"]
    BY <1>3, <1>k
  <1>5. acked'[x] = TRUE /\ acked'[y] = acked[y]
    BY <1>1, <1>2 DEF TypeOK
  <1>6. TypeOK'
    BY <1>1, <1>2, <1>3 DEF TypeOK, WaitSnd, DataSame
  <1>7. ASSUME NEW d \in Ends
        PROVE  Moves(d)
    <2>1. CASE d = x
      BY <1>2, <1>3, <1>4, <1>5, <2>1 DEF Moves, DataSame
    <2>2. CASE d = y
      BY <1>2, <1>4, <1>5, <2>2 DEF Moves, DataSame
    <2>3. QED
      BY <2>1, <2>2, EndsFact
  <1>8. QED
    BY <1>6, <1>7

(* RESET ends the session.                                                  *)
LEMMA ResetStep ==
    ASSUME StreamIInv, NEW x \in Ends, ReceiveReset(x)
    PROVE  TypeOK' /\ \A d \in Ends : Moves(d)
  <1>1. TypeOK
    BY DEF StreamIInv
  <1>k. "kcp" \in Kinds /\ "close" \in Kinds /\ "close_ack" \in Kinds
        /\ "reset" \in Kinds
    BY KindsFact
  <1>2. /\ DataSame /\ FlagsSame /\ state' = [state EXCEPT ![x] = "broken"]
        /\ net' = Take(x, "reset")
    BY DEF ReceiveReset, DataSame, FlagsSame, flags, data
  <1>3. /\ net' \in [Ends -> [Kinds -> Datagram]]
        /\ \A z \in Ends, k \in Kinds : k # "reset" => net'[z][k] = net[z][k]
    BY <1>1, <1>2, <1>k, TakeCells
  <1>4. \A z \in Ends : /\ net'[z]["kcp"] = net[z]["kcp"]
                        /\ net'[z]["close"] = net[z]["close"]
                        /\ net'[z]["close_ack"] = net[z]["close_ack"]
    BY <1>3, <1>k
  <1>5. TypeOK'
    <2>1. state' \in [Ends -> {"none", "active"} \cup Ended]
      BY <1>1, <1>2, StateTypes
    <2>2. QED
      BY <1>1, <1>2, <1>3, <2>1 DEF TypeOK, WaitSnd, DataSame, FlagsSame
  <1>6. \A d \in Ends : state'[d] = "done" => state[d] = "done"
    BY <1>1, <1>2 DEF TypeOK
  <1>7. QED
    BY <1>1, <1>2, <1>4, <1>5, <1>6, EndsFact, QuietMoves DEF NetFewer

-----------------------------------------------------------------------------
(* The theorems.                                                            *)

(* The first state of a session satisfies the invariant.                    *)
LEMMA StreamInit == Init => StreamIInv
  <1> SUFFICES ASSUME Init
               PROVE  StreamIInv
    OBVIOUS
  <1>1. TypeOK
    BY KindsFact DEF Init, TypeOK, WaitSnd
  <1>2. ASSUME NEW x \in Ends
        PROVE  DirInv(x)
    <2> PICK y \in Ends : y = Peer(x)
      BY EndsFact
    <2>1. "kcp" \in Kinds /\ "close" \in Kinds /\ "close_ack" \in Kinds
      BY KindsFact
    <2>2. /\ net[x]["kcp"] = Nothing /\ net[y]["kcp"] = Nothing
          /\ net[y]["close"] = Nothing /\ net[x]["close_ack"] = Nothing
      BY <2>1 DEF Init
    <2>3. /\ sent[x] = 0 /\ una[x] = 0 /\ written[y] = 0
          /\ remote[y] = FALSE /\ acked[x] = FALSE /\ state[x] # "done"
      BY DEF Init
    <2>4. QED
      BY <2>2, <2>3, KindsFact DEF DirInv
  <1>3. QED
    BY <1>1, <1>2 DEF StreamIInv

(* Every step preserves it.                                                 *)
LEMMA StreamStep == StreamIInv /\ [Next]_vars => StreamIInv'
  <1> SUFFICES ASSUME StreamIInv, [Next]_vars
               PROVE  StreamIInv'
    OBVIOUS
  <1>1. SUFFICES TypeOK' /\ \A d \in Ends : Moves(d)
    BY MovesKeep DEF StreamIInv
  <1>2. CASE Open
    BY <1>2, OpenStep
  <1>3. ASSUME NEW x \in Ends, PumpChunk(x) \/ PumpEof(x)
        PROVE  TypeOK' /\ \A d \in Ends : Moves(d)
    BY <1>3, PumpStep
  <1>4. ASSUME NEW x \in Ends, Fail(x) \/ Crash(x)
        PROVE  TypeOK' /\ \A d \in Ends : Moves(d)
    BY <1>4, FailStep
  <1>5. ASSUME NEW x \in Ends, NEW due, Maintain(x, due) \/ Expire(x, due)
        PROVE  TypeOK' /\ \A d \in Ends : Moves(d)
    BY <1>5, TurnStep
  <1>6. ASSUME NEW x \in Ends, NEW kind \in Kinds, Deliver(x, kind)
        PROVE  TypeOK' /\ \A d \in Ends : Moves(d)
    <2>1. CASE Ignore(x, kind)
      BY <2>1, DropStep
    <2>2. CASE ReceiveHello(x)
      BY <2>2, HelloStep
    <2>3. CASE ReceiveKcp(x)
      BY <2>3, KcpStep
    <2>4. CASE kind = "close" /\ ReceiveClose(x)
      BY <1>6, <2>4, CloseStep DEF Deliver
    <2>5. CASE kind = "close_ack" /\ ReceiveCloseAck(x)
      BY <1>6, <2>5, CloseAckStep DEF Deliver
    <2>6. CASE ReceiveReset(x)
      BY <2>6, ResetStep
    <2>7. QED
      BY <1>6, <2>1, <2>2, <2>3, <2>4, <2>5, <2>6 DEF Deliver
  <1>7. ASSUME NEW x \in Ends, NEW kind \in Kinds, Lose(x, kind)
        PROVE  TypeOK' /\ \A d \in Ends : Moves(d)
    BY <1>7, DropStep
  <1>8. CASE UNCHANGED vars
    <2>1. TypeOK' /\ DataSame /\ FlagsSame /\ net' = net /\ state' = state
      BY <1>8 DEF StreamIInv, TypeOK, WaitSnd, vars, DataSame, FlagsSame
    <2>2. QED
      BY <2>1, QuietMoves DEF StreamIInv, NetFewer
  <1>9. QED
    BY <1>2, <1>3, <1>4, <1>5, <1>6, <1>7, <1>8 DEF Next

(* The invariant holds in every state of a session.                         *)
LEMMA StreamInductive == Spec => []StreamIInv
  BY StreamInit, StreamStep, PTL DEF Spec

(* redp2p_stream_can_send_data bounds what waits, and KCP's counters stay   *)
(* in their ranges.                                                         *)
THEOREM StreamTypes == Spec => []TypeOK
  <1>1. StreamIInv => TypeOK
    BY DEF StreamIInv
  <1>2. QED
    BY <1>1, StreamInductive, PTL

(* A CLOSE never truncates: when the local socket is shut for writing,      *)
(* everything the remote application wrote has been written to it, although *)
(* CLOSE and KCP datagrams overtake each other and may be lost or repeated. *)
THEOREM NeverTruncated == Spec => []NoTruncation
  <1>1. StreamIInv => NoTruncation
    <2> SUFFICES ASSUME StreamIInv, NEW x \in Ends, remote[x]
                 PROVE  eof[Peer(x)] /\ written[x] = sent[Peer(x)]
      BY DEF NoTruncation
    <2> PICK y \in Ends : y = Peer(x) /\ Peer(y) = x
      BY EndsFact
    <2>1. /\ una[y] <= written[x] /\ written[x] <= sent[y] /\ eof[y]
          /\ una[y] = sent[y]
      BY DEF StreamIInv, DirInv
    <2>2. sent[y] \in Nat /\ written[x] \in Nat
      BY TypesAt DEF StreamIInv
    <2>3. QED
      BY <2>1, <2>2
  <1>2. QED
    BY <1>1, StreamInductive, PTL

(* redp2p_stream_is_done never ends a session too early: both applications  *)
(* have all data and have seen the end of it.                               *)
THEOREM DoneLeavesNothing == Spec => []DoneComplete
  <1>1. StreamIInv => DoneComplete
    <2> SUFFICES ASSUME StreamIInv, NEW x \in Ends, state[x] = "done"
                 PROVE  /\ remote[x] /\ remote[Peer(x)]
                        /\ written[x] = sent[Peer(x)]
                        /\ written[Peer(x)] = sent[x]
      BY DEF DoneComplete
    <2> PICK y \in Ends : y = Peer(x) /\ Peer(y) = x
      BY EndsFact
    <2>1. remote[x] /\ acked[x] /\ remote[y]
      BY DEF StreamIInv, DirInv
    <2>2. /\ una[y] <= written[x] /\ written[x] <= sent[y]
          /\ una[y] = sent[y] /\ una[x] <= written[y]
          /\ written[y] <= sent[x] /\ una[x] = sent[x]
      BY <2>1 DEF StreamIInv, DirInv
    <2>3. /\ sent[y] \in Nat /\ written[x] \in Nat
          /\ sent[x] \in Nat /\ written[y] \in Nat
      BY TypesAt DEF StreamIInv
    <2>4. QED
      BY <2>1, <2>2, <2>3
  <1>2. QED
    BY <1>1, StreamInductive, PTL
=============================================================================
