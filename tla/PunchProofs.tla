---------------------------- MODULE PunchProofs ----------------------------
(***************************************************************************)
(* Theorems about module Punch, for any number of calls, rounds and        *)
(* restarts: sessions are not crossed, and a consumer believes in a path   *)
(* only when a publisher punched for its call.                             *)
(***************************************************************************)
EXTENDS Punch, TLAPS

USE PunchAssumption

(* A packet carries the token of the socket it travels to or from: both     *)
(* sides of a punch answer with the token they were asked with.             *)
TokensOwn == \A d \in net : d.tok = d.call

(* A PING or a proper PONG to a consumer was sent by a punch for its call.  *)
AnswersTried ==
    \A d \in net : d.dir = "toCon" /\ d.kind \in {"ping", "pong"} =>
                      d.call \in tried

(* Rounds are counted for the call at the head of the poll reply only.      *)
RoundsTried ==
    /\ todo = <<>> => rounds = 0
    /\ rounds > 0 => Head(todo) \in tried

PunchIInv ==
    /\ TypeOK
    /\ NotCrossed /\ UpOnlyIfTried
    /\ TokensOwn /\ AnswersTried /\ RoundsTried

-----------------------------------------------------------------------------
(* A consumer and a publisher that have just started.                       *)
LEMMA PunchInit == Init => PunchIInv
  <1> SUFFICES ASSUME Init PROVE PunchIInv
    OBVIOUS
  <1>1. TypeOK
    <2>1. 1 \in Epochs
      BY DEF Epochs
    <2>2. con \in [Calls -> [st : {"idle", "punching", "up", "down"},
                             peer : Epochs, fresh : BOOLEAN]]
      BY <2>1 DEF Init, NoCall
    <2>3. <<>> \in Seq(Calls)
      OBVIOUS
    <2>4. QED
      BY <2>1, <2>2, <2>3 DEF Init, TypeOK
  <1>2. NotCrossed /\ TokensOwn /\ AnswersTried /\ RoundsTried
    BY DEF Init, NotCrossed, TokensOwn, AnswersTried, RoundsTried
  <1>3. UpOnlyIfTried
    BY DEF Init, NoCall, UpOnlyIfTried
  <1>4. QED
    BY <1>1, <1>2, <1>3 DEF PunchIInv

-----------------------------------------------------------------------------
(* The consumer's steps.                                                    *)
LEMMA ConsumerTypes ==
    /\ Down \in [st : {"idle", "punching", "up", "down"}, peer : Epochs,
                 fresh : BOOLEAN]
    /\ \A e \in Epochs :
         NewSession(e) \in [st : {"idle", "punching", "up", "down"},
                            peer : Epochs, fresh : BOOLEAN]
  <1>1. 1 \in Epochs
    BY DEF Epochs
  <1>2. QED
    BY <1>1 DEF Down, NewSession

(* A step that touches one entry of con only, to a state that is not "up"   *)
(* unless it was, keeps the invariant.                                      *)
LEMMA ConsumerEntry ==
    ASSUME PunchIInv, NEW k \in Calls,
           NEW r \in [st : {"idle", "punching", "up", "down"}, peer : Epochs,
                      fresh : BOOLEAN],
           r.st = "up" => con[k].st = "up",
           con' = [con EXCEPT ![k] = r],
           pings' \in 0 .. MaxRounds, pending' \in Seq(Calls),
           UNCHANGED <<proto, pubVars, net>>
    PROVE  PunchIInv'
  <1>1. TypeOK'
    BY DEF PunchIInv, TypeOK, pubVars
  <1>2. UpOnlyIfTried'
    BY DEF PunchIInv, TypeOK, UpOnlyIfTried, pubVars
  <1>3. /\ NotCrossed' /\ TokensOwn' /\ AnswersTried' /\ RoundsTried'
    BY DEF PunchIInv, NotCrossed, TokensOwn, AnswersTried, RoundsTried, pubVars
  <1>4. QED
    BY <1>1, <1>2, <1>3 DEF PunchIInv

(* redp2p_consumer_establish_peer and redp2p_punch_select on the consumer:  *)
(* the answer it takes is a PING or PONG of a punch for this very call.     *)
LEMMA ConsumerPunch ==
    ASSUME PunchIInv, NEW k \in Calls,
           ConsumerPing(k) \/ \E d \in net : ConsumerWait(k, d)
    PROVE  PunchIInv'
  <1>0. TypeOK /\ TokensOwn /\ AnswersTried
    BY DEF PunchIInv
  <1>1. CASE ConsumerPing(k)
    <2> DEFINE p == ToPub(k, 1, "ping", k)
    <2>1. /\ pings < MaxRounds /\ pings' = pings + 1 /\ net' = net \union {p}
          /\ UNCHANGED <<proto, con, pending, epoch, todo, rounds, srv, tried>>
      BY <1>1 DEF ConsumerPing, pubVars
    <2>2. p \in Datagram /\ p.dir = "toPub" /\ p.tok = p.call
      BY DEF ToPub, Datagram, Epochs
    <2> HIDE DEF p
    <2>3. TypeOK'
      BY <1>0, <2>1, <2>2 DEF TypeOK
    <2>4. TokensOwn' /\ AnswersTried'
      BY <1>0, <2>1, <2>2 DEF TokensOwn, AnswersTried
    <2>5. QED
      BY <2>1, <2>3, <2>4
         DEF PunchIInv, NotCrossed, UpOnlyIfTried, RoundsTried
  <1>2. ASSUME NEW d \in net, ConsumerWait(k, d) PROVE PunchIInv'
    <2>1. /\ d.dir = "toCon" /\ d.call = k /\ d \in Datagram
          /\ UNCHANGED <<proto, pings, pending, epoch, todo, rounds, srv,
                         tried>>
      BY <1>0, <1>2 DEF ConsumerWait, pubVars, TypeOK
    <2>2. CASE Answers(d, k)
      <3> DEFINE p == ToPub(k, d.epoch, "pong", k)
      <3>1. PICK s \in Inserted(NewSession(d.epoch)) :
                   con' = [con EXCEPT ![k] = s]
        BY <1>2, <2>2 DEF ConsumerWait
      <3>2. net' \subseteq net \union {p}
        BY <1>2, <2>2 DEF ConsumerWait
      <3>3. p \in Datagram /\ p.dir = "toPub" /\ p.tok = p.call
        BY <2>1 DEF ToPub, Datagram
      <3>4. s \in [st : {"idle", "punching", "up", "down"}, peer : Epochs,
                   fresh : BOOLEAN]
        BY <2>1, <3>1, ConsumerTypes DEF Inserted, Datagram
      <3>5. k \in tried
        BY <1>0, <2>1, <2>2 DEF AnswersTried, Answers
      <3> HIDE DEF p
      <3>6. TypeOK'
        BY <1>0, <2>1, <3>1, <3>2, <3>3, <3>4 DEF TypeOK
      <3>7. TokensOwn' /\ AnswersTried'
        BY <1>0, <2>1, <3>2, <3>3 DEF TokensOwn, AnswersTried
      <3>8. UpOnlyIfTried'
        BY <1>0, <2>1, <3>1, <3>5 DEF PunchIInv, UpOnlyIfTried, TypeOK
      <3>9. NotCrossed' /\ RoundsTried'
        BY <2>1 DEF PunchIInv, NotCrossed, RoundsTried
      <3>10. QED
        BY <3>6, <3>7, <3>8, <3>9 DEF PunchIInv
    <2>3. CASE ~Answers(d, k)
      <3>1. con' = con /\ net' \subseteq net
        BY <1>2, <2>3 DEF ConsumerWait
      <3>2. QED
        BY <1>0, <2>1, <3>1 DEF PunchIInv, TypeOK, NotCrossed, UpOnlyIfTried,
                                TokensOwn, AnswersTried, RoundsTried
    <2>4. QED
      BY <2>2, <2>3
  <1>3. QED
    BY <1>1, <1>2

(* The other steps of the consumer make no session.                         *)
LEMMA ConsumerRest ==
    ASSUME PunchIInv, NEW k \in Calls,
           \/ Establish(k) \/ ConsumerGiveUp(k) \/ ConsumerHears(k)
           \/ ConsumerLocal(k) \/ ConsumerMaintain(k) \/ ConsumerEnds(k)
           \/ ConsumerUnselectable(k)
           \/ \E d \in net : ConsumerReceive(k, d)
    PROVE  PunchIInv'
  <1> DEFINE Entry == [st : {"idle", "punching", "up", "down"}, peer : Epochs,
                       fresh : BOOLEAN]
  <1>1. /\ con \in [Calls -> Entry] /\ pings \in 0 .. MaxRounds
        /\ pending \in Seq(Calls) /\ con[k] \in Entry
        /\ 0 \in 0 .. MaxRounds
    BY DEF PunchIInv, TypeOK
  <1>2. Down \in Entry /\ Down.st = "down"
    BY ConsumerTypes DEF Down
  <1>3. ASSUME NEW r \in Entry, r.st = "up" => con[k].st = "up",
               con' = [con EXCEPT ![k] = r],
               pings' \in 0 .. MaxRounds, pending' \in Seq(Calls),
                   UNCHANGED <<proto, pubVars, net>>
        PROVE  PunchIInv'
    BY <1>3, ConsumerEntry
  <1> HIDE DEF Entry
  <1>4. CASE Establish(k)
    <2>1. PICK answered \in BOOLEAN :
                 /\ PunchReq(k, answered)
                 /\ con' = [con EXCEPT ![k] =
                      IF answered THEN [@ EXCEPT !.st = "punching"] ELSE Down]
      BY <1>4 DEF Establish
    <2> DEFINE r == IF answered THEN [con[k] EXCEPT !.st = "punching"] ELSE Down
    <2>2. con' = [con EXCEPT ![k] = r]
      BY <1>1, <2>1
    <2>3. [con[k] EXCEPT !.st = "punching"] \in Entry
          /\ [con[k] EXCEPT !.st = "punching"].st = "punching"
      BY <1>1 DEF Entry
    <2>4. r \in Entry /\ r.st # "up"
      BY <1>2, <2>3
    <2>5. pending' \in Seq(Calls)
      BY <1>1, <2>1 DEF PunchReq
    <2>6. /\ UNCHANGED <<proto, pubVars, net>> /\ pings' = 0
      BY <1>4 DEF Establish
    <2> HIDE DEF r
    <2>7. QED
      BY <1>1, <1>3, <2>2, <2>4, <2>5, <2>6
  <1>5. CASE \/ ConsumerGiveUp(k) \/ ConsumerEnds(k) \/ ConsumerUnselectable(k)
    <2>1. /\ con' = [con EXCEPT ![k] = Down]
          /\ UNCHANGED <<proto, pings, pending, pubVars, net>>
      BY <1>5 DEF ConsumerGiveUp, ConsumerEnds, ConsumerUnselectable,
                  ConsumerCloses
    <2>2. QED
      BY <1>1, <1>2, <1>3, <2>1
  <1>6. CASE ConsumerHears(k) \/ ConsumerLocal(k)
    <2> DEFINE r == [con[k] EXCEPT !.fresh = TRUE]
    <2>1. /\ con' = [con EXCEPT ![k] = r]
          /\ UNCHANGED <<proto, pings, pending, pubVars, net>>
      BY <1>1, <1>6 DEF ConsumerHears, ConsumerLocal
    <2>2. r \in Entry /\ r.st = con[k].st
      BY <1>1 DEF Entry
    <2> HIDE DEF r
    <2>3. QED
      BY <1>1, <1>3, <2>1, <2>2
  <1>7. CASE ConsumerMaintain(k)
    <2> DEFINE r == IF con[k].fresh THEN [con[k] EXCEPT !.fresh = FALSE]
                                    ELSE Down
    <2>1. /\ con' = [con EXCEPT ![k] = r]
          /\ UNCHANGED <<proto, pings, pending, pubVars, net>>
      BY <1>1, <1>7 DEF ConsumerMaintain
    <2>2. /\ [con[k] EXCEPT !.fresh = FALSE] \in Entry
          /\ [con[k] EXCEPT !.fresh = FALSE].st = con[k].st
      BY <1>1 DEF Entry
    <2>3. r \in Entry /\ (r.st = "up" => con[k].st = "up")
      BY <1>2, <2>2
    <2> HIDE DEF r
    <2>4. QED
      BY <1>1, <1>3, <2>1, <2>3
  <1>8. ASSUME NEW d \in net, ConsumerReceive(k, d) PROVE PunchIInv'
    <2>1. /\ net' \subseteq net
          /\ UNCHANGED <<proto, con, pings, pending, pubVars>>
      BY <1>8 DEF ConsumerReceive, conVars
    <2>2. QED
      BY <2>1 DEF PunchIInv, TypeOK, NotCrossed, UpOnlyIfTried, TokensOwn,
                  AnswersTried, RoundsTried, pubVars
  <1>9. QED
    BY <1>4, <1>5, <1>6, <1>7, <1>8

-----------------------------------------------------------------------------
(* The publisher's steps.                                                   *)

(* The table of sessions after a step that only rewrites or removes entries *)
(* without touching address and token.                                      *)
LEMMA SessionsKept ==
    ASSUME PunchIInv,
           srv' \subseteq [addr : Calls, tok : Calls, fresh : BOOLEAN],
           \A s \in srv' : \E o \in srv : o.addr = s.addr /\ o.tok = s.tok,
           \A s, o \in srv' : s.addr = o.addr => s = o,
           UNCHANGED <<proto, con, pings, pending, epoch, todo, rounds, net,
                       tried>>
    PROVE  PunchIInv'
  <1>1. NotCrossed'
    BY DEF PunchIInv, NotCrossed
  <1>2. TypeOK'
    BY DEF PunchIInv, TypeOK
  <1>3. QED
    BY <1>1, <1>2 DEF PunchIInv, UpOnlyIfTried, TokensOwn, AnswersTried,
                      RoundsTried

(* Activity, maintenance and the end of sessions.                           *)
LEMMA PublisherSessions ==
    ASSUME PunchIInv,
           \/ \E k \in Calls : PublisherHears(k)
           \/ \E s \in srv : \/ PublisherLocal(s) \/ PublisherMaintain(s)
                             \/ PublisherEnds(s) \/ PublisherUnselectable(s)
    PROVE  PunchIInv'
  <1> DEFINE Session == [addr : Calls, tok : Calls, fresh : BOOLEAN]
  <1>1. /\ srv \subseteq Session
        /\ \A s, o \in srv : s.addr = o.addr => s = o
    BY DEF PunchIInv, TypeOK, NotCrossed
  <1>2. ASSUME NEW k \in Calls, PublisherHears(k) PROVE PunchIInv'
    <2> DEFINE found == Sessions(k, k)
               new == {[s EXCEPT !.fresh = TRUE] : s \in found}
    <2>1. /\ srv' = (srv \ found) \union new
          /\ UNCHANGED <<proto, con, pings, pending, epoch, todo, rounds, net,
                         tried>>
      BY <1>2 DEF PublisherHears, conVars
    <2>2. found \subseteq srv
      BY DEF Sessions
    <2>3. \A s \in new : s \in Session
                         /\ \E o \in found : o.addr = s.addr /\ o.tok = s.tok
      <3> SUFFICES ASSUME NEW a \in found
                   PROVE  LET s == [a EXCEPT !.fresh = TRUE]
                          IN  s \in Session /\ s.addr = a.addr /\ s.tok = a.tok
        OBVIOUS
      <3>1. QED
        BY <1>1, <2>2
    <2>4. \A s, o \in new : s.addr = o.addr => s = o
      <3> SUFFICES ASSUME NEW a \in found, NEW b \in found,
                          [a EXCEPT !.fresh = TRUE].addr
                             = [b EXCEPT !.fresh = TRUE].addr
                   PROVE  [a EXCEPT !.fresh = TRUE] = [b EXCEPT !.fresh = TRUE]
        OBVIOUS
      <3>1. a.addr = b.addr
        BY <1>1, <2>2
      <3>2. QED
        BY <1>1, <2>2, <3>1
    <2>5. \A s \in new, o \in srv \ found : s.addr # o.addr
      BY <1>1, <2>2, <2>3
    <2> HIDE DEF found, new
    <2>6. \A s, o \in srv' : s.addr = o.addr => s = o
      BY <1>1, <2>1, <2>4, <2>5
    <2>7. \A s \in srv' : s \in Session
                          /\ \E o \in srv : o.addr = s.addr /\ o.tok = s.tok
      BY <1>1, <2>1, <2>2, <2>3
    <2>8. QED
      BY <1>1, <2>1, <2>6, <2>7, SessionsKept
  <1>3. ASSUME NEW s \in srv, PublisherLocal(s) \/ PublisherMaintain(s)
        PROVE  PunchIInv'
    <2>1. PICK b \in BOOLEAN :
                 srv' \subseteq (srv \ {s}) \union {[s EXCEPT !.fresh = b]}
      BY <1>3 DEF PublisherLocal, PublisherMaintain
    <2>2. /\ UNCHANGED <<proto, con, pings, pending, epoch, todo, rounds, net,
                         tried>>
      BY <1>1, <1>3 DEF PublisherLocal, PublisherMaintain, conVars
    <2> DEFINE r == [s EXCEPT !.fresh = b]
    <2>3. r \in Session /\ r.addr = s.addr /\ r.tok = s.tok
      BY <1>1
    <2> HIDE DEF r, Session
    <2>4. srv' \subseteq (srv \ {s}) \union {r}
      BY <2>1 DEF r
    <2>5. \A a, o \in srv' : a.addr = o.addr => a = o
      BY <1>1, <2>3, <2>4
    <2>6. \A a \in srv' : a \in Session
                          /\ \E o \in srv : o.addr = a.addr /\ o.tok = a.tok
      BY <1>1, <2>3, <2>4
    <2>7. QED
      BY <2>2, <2>5, <2>6, SessionsKept DEF Session
  <1>4. ASSUME NEW s \in srv, PublisherEnds(s) \/ PublisherUnselectable(s)
        PROVE  PunchIInv'
    <2>1. /\ srv' \subseteq srv
          /\ UNCHANGED <<proto, con, pings, pending, epoch, todo, rounds, net,
                         tried>>
      BY <1>4 DEF PublisherEnds, PublisherUnselectable, PublisherCloses, conVars
    <2>2. QED
      BY <1>1, <2>1, SessionsKept
  <1>5. QED
    BY <1>2, <1>3, <1>4

(* redp2p_publisher_punch_poll and the sending half of a punch.             *)
LEMMA PublisherPolls ==
    ASSUME PunchIInv,
           Poll \/ PollLost \/ PublisherPing \/ PublisherGiveUp \/ Restart
    PROVE  PunchIInv'
  <1>0. TypeOK /\ NotCrossed /\ UpOnlyIfTried /\ TokensOwn /\ AnswersTried
        /\ RoundsTried
    BY DEF PunchIInv
  <1>1. CASE Poll
    <2>1. /\ todo = <<>> /\ todo' = pending /\ pending' = <<>>
          /\ UNCHANGED <<proto, con, pings, epoch, rounds, srv, net, tried>>
      BY <1>1 DEF Poll, PublisherBusy, conVars
    <2>2. TypeOK'
      BY <1>0, <2>1 DEF TypeOK
    <2>3. RoundsTried'
      BY <1>0, <2>1 DEF RoundsTried
    <2>4. QED
      BY <1>0, <2>1, <2>2, <2>3
         DEF PunchIInv, NotCrossed, UpOnlyIfTried, TokensOwn, AnswersTried
  <1>2. CASE PollLost
    <2>1. /\ pending' = <<>>
          /\ UNCHANGED <<proto, con, pings, epoch, todo, rounds, srv, net,
                         tried>>
      BY <1>2 DEF PollLost, conVars, pubVars
    <2>2. TypeOK'
      BY <1>0, <2>1 DEF TypeOK
    <2>3. QED
      BY <1>0, <2>1, <2>2 DEF PunchIInv, NotCrossed, UpOnlyIfTried, TokensOwn,
                              AnswersTried, RoundsTried
  <1>3. CASE PublisherPing
    <2> DEFINE h == Head(todo)
               p == ToCon(h, epoch, "ping", h)
    <2>1. /\ todo # <<>> /\ rounds < MaxRounds /\ rounds' = rounds + 1
          /\ tried' = tried \union {h} /\ net' = net \union {p}
          /\ UNCHANGED <<proto, con, pings, pending, epoch, todo, srv>>
      BY <1>3 DEF PublisherPing, PublisherBusy, conVars
    <2>2. h \in Calls
      BY <1>0, <2>1 DEF TypeOK
    <2>3. p \in Datagram /\ p.call = h /\ p.tok = p.call
      <3> HIDE DEF h
      <3>1. QED
        BY <1>0, <2>2 DEF ToCon, Datagram, TypeOK
    <2>4. RoundsTried'
      BY <2>1 DEF RoundsTried
    <2> HIDE DEF h, p
    <2>5. TypeOK'
      BY <1>0, <2>1, <2>2, <2>3 DEF TypeOK
    <2>6. TokensOwn' /\ AnswersTried' /\ UpOnlyIfTried'
      BY <1>0, <2>1, <2>3 DEF TokensOwn, AnswersTried, UpOnlyIfTried
    <2>7. QED
      BY <1>0, <2>1, <2>4, <2>5, <2>6 DEF PunchIInv, NotCrossed
  <1>4. CASE PublisherGiveUp
    <2>1. /\ todo # <<>> /\ todo' = Tail(todo) /\ rounds' = 0
          /\ UNCHANGED <<proto, con, pings, pending, epoch, srv, net, tried>>
      BY <1>4 DEF PublisherGiveUp, PublisherBusy, RestOfPoll, conVars
    <2>2. Tail(todo) \in Seq(Calls)
      BY <1>0, <2>1 DEF TypeOK
    <2>3. TypeOK' /\ RoundsTried'
      BY <1>0, <2>1, <2>2 DEF TypeOK, RoundsTried
    <2>4. QED
      BY <1>0, <2>1, <2>3
         DEF PunchIInv, NotCrossed, UpOnlyIfTried, TokensOwn, AnswersTried
  <1>5. CASE Restart
    <2>1. /\ epoch < MaxRestarts + 1 /\ epoch' = epoch + 1
          /\ todo' = <<>> /\ rounds' = 0 /\ srv' = {}
          /\ UNCHANGED <<proto, con, pings, pending, net, tried>>
      BY <1>5 DEF Restart, conVars
    <2>2. epoch' \in Epochs
      BY <1>0, <2>1 DEF TypeOK, Epochs
    <2>3. TypeOK' /\ RoundsTried'
      BY <1>0, <2>1, <2>2 DEF TypeOK, RoundsTried
    <2>4. QED
      BY <1>0, <2>1, <2>3
         DEF PunchIInv, NotCrossed, UpOnlyIfTried, TokensOwn, AnswersTried
  <1>6. QED
    BY <1>1, <1>2, <1>3, <1>4, <1>5

(* The receiving half: the answer that ends a punch opens the session of    *)
(* the call it was made for, which has the address the answer came from.    *)
LEMMA PublisherTakes ==
    ASSUME PunchIInv, NEW d \in net, PublisherWait(d)
    PROVE  PunchIInv'
  <1>0. TypeOK /\ NotCrossed /\ UpOnlyIfTried /\ TokensOwn /\ AnswersTried
        /\ RoundsTried
    BY DEF PunchIInv
  <1>1. /\ todo # <<>> /\ rounds > 0 /\ d \in Datagram
        /\ UNCHANGED <<proto, con, pings, pending, epoch, tried>>
    BY <1>0 DEF PublisherWait, PublisherBusy, conVars, TypeOK
  <1> DEFINE h == Head(todo)
  <1>2. h \in Calls /\ h \in tried /\ Tail(todo) \in Seq(Calls)
    BY <1>0, <1>1 DEF TypeOK, RoundsTried
  <1>3. CASE ~Answers(d, h)
    <2>1. net' \subseteq net /\ UNCHANGED <<srv, todo, rounds>>
      BY <1>3 DEF PublisherWait
    <2>2. QED
      BY <1>0, <1>1, <2>1 DEF PunchIInv, TypeOK, NotCrossed, UpOnlyIfTried,
                              TokensOwn, AnswersTried, RoundsTried
  <1>4. CASE Answers(d, h)
    <2> DEFINE p == ToCon(d.call, epoch, "pong", h)
               n == [addr |-> d.call, tok |-> h, fresh |-> TRUE]
    <2>1. /\ srv' \in OpenSession(d.call, h) /\ net' \subseteq net \union {p}
          /\ todo' = Tail(todo) /\ rounds' = 0
      BY <1>4 DEF PublisherWait, RestOfPoll
    <2>2. d.call = h
      BY <1>0, <1>4 DEF TokensOwn, Answers
    <2> HIDE DEF h
    <2>3. p \in Datagram /\ p.call = h /\ p.tok = p.call
      BY <1>0, <1>2, <2>2 DEF ToCon, Datagram, TypeOK
    <2>4. n \in [addr : Calls, tok : Calls, fresh : BOOLEAN]
          /\ n.addr = h /\ n.tok = h
      BY <1>2, <2>2
    <2>5. \/ srv' = srv
          \/ /\ Sessions(d.call, h) = {}
             /\ srv' = srv \union {n}
      BY <2>1 DEF OpenSession, SessionInsert
    <2>6. Sessions(d.call, h) = {} => \A s \in srv : s.addr # h
      BY <1>0, <2>2 DEF Sessions, NotCrossed
    <2> HIDE DEF p, n
    <2>7. NotCrossed'
      BY <1>0, <2>4, <2>5, <2>6 DEF NotCrossed
    <2>8. TypeOK'
      BY <1>0, <1>1, <1>2, <2>1, <2>3, <2>4, <2>5 DEF TypeOK
    <2>9. TokensOwn' /\ AnswersTried'
      BY <1>0, <1>1, <1>2, <2>1, <2>3 DEF TokensOwn, AnswersTried
    <2>10. UpOnlyIfTried' /\ RoundsTried'
      BY <1>0, <1>1, <2>1 DEF UpOnlyIfTried, RoundsTried
    <2>11. QED
      BY <2>7, <2>8, <2>9, <2>10 DEF PunchIInv
  <1>5. QED
    BY <1>3, <1>4

(* The event loop between punches answers a PING with identifiers that no   *)
(* punch takes for an answer, and opens nothing.                            *)
LEMMA PublisherAnswers ==
    ASSUME PunchIInv, NEW d \in net, PublisherReceive(d)
    PROVE  PunchIInv'
  <1>0. TypeOK /\ TokensOwn /\ AnswersTried
    BY DEF PunchIInv
  <1>1. UNCHANGED <<proto, con, pings, pending, epoch, todo, rounds, srv,
                    tried>>
    BY DEF PublisherReceive, conVars, pubVars
  <1>2. net' \subseteq net \union {PongOfLoop(d)}
    BY DEF PublisherReceive
  <1>3. /\ PongOfLoop(d) \in Datagram /\ PongOfLoop(d).kind = "gnop"
        /\ PongOfLoop(d).tok = PongOfLoop(d).call
    BY <1>0 DEF PongOfLoop, ToCon, Datagram, TypeOK, TokensOwn
  <1>4. TypeOK' /\ TokensOwn'
    BY <1>0, <1>1, <1>2, <1>3 DEF TypeOK, TokensOwn
  <1>5. AnswersTried'
    BY <1>0, <1>1, <1>2, <1>3 DEF AnswersTried
  <1>6. QED
    BY <1>1, <1>4, <1>5 DEF PunchIInv, NotCrossed, UpOnlyIfTried, RoundsTried

(* Every step of the two programs keeps the invariant.                      *)
LEMMA PunchNext == PunchIInv /\ [Next]_vars => PunchIInv'
  <1> SUFFICES ASSUME PunchIInv, [Next]_vars PROVE PunchIInv'
    OBVIOUS
  <1>1. ASSUME NEW k \in Calls, ConsumerStep(k) PROVE PunchIInv'
    BY <1>1, ConsumerPunch, ConsumerRest DEF ConsumerStep
  <1>2. CASE ConsumerStop
    <2>1. /\ con' = [k \in Calls |-> Down]
          /\ UNCHANGED <<proto, pings, pending, pubVars, net>>
      BY <1>2 DEF ConsumerStop
    <2>2. TypeOK'
      BY <2>1, ConsumerTypes DEF PunchIInv, TypeOK, pubVars
    <2>3. UpOnlyIfTried'
      BY <2>1 DEF UpOnlyIfTried, Down
    <2>4. QED
      BY <2>1, <2>2, <2>3 DEF PunchIInv, NotCrossed, TokensOwn, AnswersTried,
                              RoundsTried, pubVars
  <1>3. CASE PublisherStep
    BY <1>3, PublisherPolls, PublisherTakes, PublisherAnswers,
       PublisherSessions DEF PublisherStep
  <1>4. CASE UNCHANGED vars
    BY <1>4 DEF vars, PunchIInv, TypeOK, NotCrossed, UpOnlyIfTried, TokensOwn,
                AnswersTried, RoundsTried
  <1>5. QED
    BY <1>1, <1>2, <1>3, <1>4 DEF Next

(* The publisher's session for an address carries the token of the call     *)
(* made from there, and there is one per address at most, whichever calls   *)
(* are punched one after the other on its single socket                     *)
(* (redp2p_publisher_open_session after redp2p_punch_select).               *)
THEOREM SessionsNotCrossed == Spec => []NotCrossed
  <1>1. PunchIInv => NotCrossed
    BY DEF PunchIInv
  <1>2. QED
    BY <1>1, PunchInit, PunchNext, PTL DEF Spec

(* A consumer believes in a direct path only when a publisher began to      *)
(* punch for that call: the PONG of redp2p_publisher_receive_peer is not    *)
(* taken for an answer by redp2p_punch_wait_response.                       *)
THEOREM PathsTried == Spec => []UpOnlyIfTried
  <1>1. PunchIInv => UpOnlyIfTried
    BY DEF PunchIInv
  <1>2. QED
    BY <1>1, PunchInit, PunchNext, PTL DEF Spec
=============================================================================
