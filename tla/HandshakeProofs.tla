-------------------------- MODULE HandshakeProofs --------------------------
(***************************************************************************)
(* What Handshake guarantees for any number of connections, any versions   *)
(* and any transport: its type, the invariant IInv, the safety properties  *)
(* that follow from it, that it implements AuthSession, that no message is *)
(* ignored and that no connection is stuck.                                *)
(*                                                                         *)
(* Every action changes the STATE of at most one end e and sends only to   *)
(* Peer[e].  The proofs go through a description of such a step, Change,   *)
(* so that each handler is looked at once.                                 *)
(***************************************************************************)
EXTENDS Handshake, SequenceTheorems, TLAPS

-----------------------------------------------------------------------------
(* The queues. *)

\* What is left of a queue was in it.
LEMMA DropElements ==
  ASSUME NEW S, NEW q \in Seq(S), NEW i \in DOMAIN q
  PROVE  /\ Drop(q, i) \in Seq(S)
         /\ \A j \in DOMAIN Drop(q, i) : \E k \in DOMAIN q : Drop(q, i)[j] = q[k]
<1> DEFINE a == SubSeq(q, 1, i - 1)
           b == SubSeq(q, i + 1, Len(q))
<1>1. Len(q) \in Nat /\ DOMAIN q = 1 .. Len(q) /\ i \in 1 .. Len(q)
  BY LenProperties
<1>2. \A j \in 1 .. Len(q) : q[j] \in S
  BY ElementOfSeq
<1>3. /\ a \in Seq(S) /\ Len(a) = i - 1
      /\ \A j \in 1 .. i - 1 : a[j] = q[j]
  <2>1. \A j \in 1 .. i - 1 : q[j] \in S
    BY <1>1, <1>2
  <2>2. QED
    BY <1>1, <2>1, SubSeqProperties, SMT
<1>4. /\ b \in Seq(S) /\ Len(b) = Len(q) - i
      /\ \A j \in 1 .. Len(q) - i : b[j] = q[i + j]
  <2>1. \A j \in i + 1 .. Len(q) : q[j] \in S
    BY <1>1, <1>2
  <2>2. QED
    BY <1>1, <2>1, SubSeqProperties, SMT
<1> HIDE DEF a, b
<1>5. /\ a \o b \in Seq(S) /\ Len(a \o b) = Len(a) + Len(b)
      /\ \A j \in 1 .. Len(a) + Len(b) :
           (a \o b)[j] = IF j <= Len(a) THEN a[j] ELSE b[j - Len(a)]
  BY <1>3, <1>4, ConcatProperties
<1>6. DOMAIN (a \o b) = 1 .. Len(a) + Len(b)
  BY <1>5, LenProperties
<1>7. ASSUME NEW j \in DOMAIN (a \o b)
      PROVE  \E k \in DOMAIN q : (a \o b)[j] = q[k]
  <2>1. CASE j <= Len(a)
    BY <1>1, <1>3, <1>5, <1>6, <2>1
  <2>2. CASE j > Len(a)
    <3>1. j - Len(a) \in 1 .. Len(q) - i /\ i + (j - Len(a)) \in 1 .. Len(q)
      BY SMTT(40), <1>1, <1>3, <1>4, <1>6, <2>2
    <3>2. (a \o b)[j] = b[j - Len(a)]
      BY <1>1, <1>3, <1>4, <1>5, <1>6, <2>2
    <3>3. b[j - Len(a)] = q[i + (j - Len(a))]
      BY <1>4, <3>1
    <3>4. QED
      BY <1>1, <3>1, <3>2, <3>3
  <2>3. QED
    BY <1>1, <1>3, <1>4, <1>6, <2>1, <2>2
<1>8. QED
  BY <1>5, <1>7 DEF Drop, a, b

\* What is in a queue after a send was in it or was sent.
LEMMA SentElements ==
  ASSUME NEW S, NEW q \in Seq(S), NEW m \in Seq(S)
  PROVE  /\ q \o m \in Seq(S)
         /\ \A j \in DOMAIN (q \o m) :
              \/ \E k \in DOMAIN q : (q \o m)[j] = q[k]
              \/ \E k \in DOMAIN m : (q \o m)[j] = m[k]
<1>1. /\ Len(q) \in Nat /\ DOMAIN q = 1 .. Len(q)
      /\ Len(m) \in Nat /\ DOMAIN m = 1 .. Len(m)
  BY LenProperties
<1>2. /\ q \o m \in Seq(S) /\ Len(q \o m) = Len(q) + Len(m)
      /\ \A j \in 1 .. Len(q) + Len(m) :
           (q \o m)[j] = IF j <= Len(q) THEN q[j] ELSE m[j - Len(q)]
  BY ConcatProperties
<1>3. DOMAIN (q \o m) = 1 .. Len(q) + Len(m)
  BY <1>2, LenProperties
<1>4. ASSUME NEW j \in DOMAIN (q \o m)
      PROVE  \/ \E k \in DOMAIN q : (q \o m)[j] = q[k]
             \/ \E k \in DOMAIN m : (q \o m)[j] = m[k]
  <2>1. CASE j <= Len(q)
    BY <1>1, <1>2, <1>3, <2>1
  <2>2. CASE j > Len(q)
    <3>1. j - Len(q) \in 1 .. Len(m)
      BY <1>1, <1>3, <2>2
    <3>2. QED
      BY <1>1, <1>2, <1>3, <2>2, <3>1
  <2>3. QED
    BY <1>1, <1>3, <2>1, <2>2
<1>5. QED
  BY <1>2, <1>4

-----------------------------------------------------------------------------
(* The handlers. *)

\* A handler's effect has its type.
EffectOK(f) == f.end \in EndRecord /\ f.out \in Seq(Message) /\ f.posts \in Nat

LEMMA OneMessage ==
  ASSUME NEW type \in MsgTypes \ {"HELLO"}, NEW code \in Codes
  PROVE  <<Msg(type, code)>> \in Seq(Message)
BY DEF Message, Msg

LEMMA TwoMessages ==
  ASSUME NEW S, NEW a \in S, NEW b \in S
  PROVE  <<a>> \o <<b>> = <<a, b>> /\ <<a, b>> \in Seq(S)
<1>1. /\ <<a>> \in Seq(S) /\ Len(<<a>>) = 1 /\ <<a>>[1] = a
      /\ <<b>> \in Seq(S) /\ Len(<<b>>) = 1 /\ <<b>>[1] = b
  OBVIOUS
<1>2. <<a, b>> \in Seq(S) /\ Len(<<a, b>>) = 2 /\ <<a, b>>[1] = a /\ <<a, b>>[2] = b
  OBVIOUS
<1>3. PICK p, q : p = <<a>> /\ q = <<b>>
  OBVIOUS
<1>4. /\ p \o q \in Seq(S) /\ Len(p \o q) = 2
      /\ \A j \in 1 .. 2 : (p \o q)[j] = IF j <= 1 THEN p[j] ELSE q[j - 1]
  BY <1>1, <1>3, ConcatProperties
<1>5. (p \o q)[1] = a /\ (p \o q)[2] = b
  BY <1>1, <1>3, <1>4
<1>6. PICK r, t : r = <<a, b>> /\ t = p \o q
  OBVIOUS
<1>7. /\ r \in Seq(S) /\ Len(r) = 2 /\ r[1] = a /\ r[2] = b
      /\ t \in Seq(S) /\ Len(t) = 2 /\ t[1] = a /\ t[2] = b
  BY <1>2, <1>4, <1>5, <1>6
<1>8. \A j \in 1 .. Len(r) : r[j] = t[j]
  BY <1>7
<1>9. r = t
  BY <1>7, <1>8, SeqEqual
<1>10. QED
  BY <1>2, <1>3, <1>6, <1>9

LEMMA CodesAre ==
  /\ Ok \in Codes /\ WrongVersion \in Codes /\ AuthRefused \in Codes
  /\ EP_NO_EXIST \in Codes
  /\ \A c \in Codes : c = Ok \/ c = WrongVersion \/ c = AuthRefused \/ c = EP_NO_EXIST
BY DEF Codes

LEMMA NewEndType == NewEnd \in EndRecord
BY CodesAre DEF NewEnd, EndRecord, ConnStates

LEMMA HelloType ==
  ASSUME NEW s \in EndRecord, NEW code \in Codes
  PROVE  EffectOK(CoreProtoHello(s, code))
BY OneMessage DEF EffectOK, Effect, CoreProtoHello, EndRecord, ConnStates, MsgTypes

LEMMA HelloAckType ==
  ASSUME NEW s \in EndRecord, NEW code \in Codes
  PROVE  EffectOK(CoreProtoHelloAck(s, code))
BY OneMessage, CodesAre
DEF EffectOK, Effect, CoreProtoHelloAck, EndRecord, ConnStates, MsgTypes

LEMMA HandOverType ==
  ASSUME NEW s \in EndRecord
  PROVE  HandOver(s) \in EndRecord
BY DEF HandOver, EndRecord

LEMMA CheckAuthType ==
  ASSUME NEW s \in EndRecord, NEW accept \in BOOLEAN
  PROVE  EffectOK(CoreProtoCheckAuth(s, accept))
<1> DEFINE known == s.isAuth \/ accept
           toMap == known /\ s.st = "AUTH_2"
           t     == [s EXCEPT !.isAuth = known,
                              !.st = CASE toMap                  -> "MAP"
                                       [] known /\ s.st = "AUTH" -> "AUTH_ACK"
                                       [] OTHER                  -> s.st]
<1>1. t \in EndRecord
  BY DEF EndRecord, ConnStates
<1>2. HandOver(t) \in EndRecord
  BY <1>1, HandOverType
<1>3. (IF known THEN Ok ELSE AuthRefused) \in Codes
  BY CodesAre
<1>4. <<Msg("AUTH_ACK", IF known THEN Ok ELSE AuthRefused)>> \in Seq(Message)
  BY <1>3, OneMessage DEF MsgTypes
<1>5. QED
  BY <1>2, <1>4 DEF EffectOK, Effect, CoreProtoCheckAuth

LEMMA CheckAuthAckType ==
  ASSUME NEW s \in EndRecord, NEW code \in Codes
  PROVE  EffectOK(CoreProtoCheckAuthAck(s, code))
<1> DEFINE toMap == code = Ok /\ s.st = "AUTH_ACK"
           t     == [s EXCEPT !.amAuth = TRUE,
                              !.st = IF toMap THEN "MAP" ELSE "AUTH_2"]
<1>1. t \in EndRecord
  BY DEF EndRecord, ConnStates
<1>2. HandOver(IF code = Ok THEN t ELSE s) \in EndRecord
  BY <1>1, HandOverType
<1>3. <<>> \in Seq(Message)
  OBVIOUS
<1>4. QED
  BY <1>2, <1>3 DEF EffectOK, Effect, CoreProtoCheckAuthAck

LEMMA MapToType ==
  ASSUME NEW s \in EndRecord
  PROVE  EffectOK(CoreProtoMapTo(s))
BY OneMessage, CodesAre DEF EffectOK, Effect, CoreProtoMapTo, EndRecord, ConnStates, MsgTypes

LEMMA MapType ==
  ASSUME NEW s \in EndRecord, NEW found \in BOOLEAN
  PROVE  EffectOK(CoreProtoMap(s, found))
BY OneMessage, CodesAre DEF EffectOK, Effect, CoreProtoMap, EndRecord, ConnStates, MsgTypes

LEMMA MapAckType ==
  ASSUME NEW s \in EndRecord, NEW code \in Codes
  PROVE  EffectOK(CoreProtoMapAck(s, code))
<1>1. <<>> \in Seq(Message)
  OBVIOUS
<1>2. CASE code # Ok
  <2>1. [s EXCEPT !.st = "BAD", !.flag = code] \in EndRecord
    BY DEF EndRecord, ConnStates
  <2>2. CoreProtoMapAck(s, code) = Effect([s EXCEPT !.st = "BAD", !.flag = code], <<>>, 1)
    BY <1>2 DEF CoreProtoMapAck
  <2>3. QED
    BY <1>1, <2>1, <2>2 DEF EffectOK, Effect
<1>3. CASE code = Ok /\ s.lep
  <2>1. [s EXCEPT !.st = "EXT_MSG"] \in EndRecord
    BY DEF EndRecord, ConnStates
  <2>2. QED
    BY <1>1, <1>3, <2>1 DEF EffectOK, Effect, CoreProtoMapAck
<1>4. CASE code = Ok /\ ~ s.lep
  BY <1>1, <1>4 DEF EffectOK, Effect, CoreProtoMapAck
<1>5. QED
  BY <1>2, <1>3, <1>4

-----------------------------------------------------------------------------
(* A step of end e makes its STATE t and sends out to its peer. *)

NetFrom(e, out) ==
  \A d \in Ends : \A j \in DOMAIN net'[d] :
    \/ \E k \in DOMAIN net[d] : net'[d][j] = net[d][k]
    \/ d = Peer[e] /\ \E k \in DOMAIN out : net'[d][j] = out[k]

Change(e, t, out) ==
  /\ version' = version
  /\ end' = [end EXCEPT ![e] = t]
  /\ NetFrom(e, out)

LEMMA SentType ==
  ASSUME TypeOK, NEW d \in Ends, NEW m \in Seq(Message)
  PROVE  /\ Sent(d, m) \in Seq(Message)
         /\ \A j \in DOMAIN Sent(d, m) :
              \/ \E k \in DOMAIN net[d] : Sent(d, m)[j] = net[d][k]
              \/ \E k \in DOMAIN m : Sent(d, m)[j] = m[k]
<1>1. net[d] \in Seq(Message)
  BY DEF TypeOK
<1> DEFINE q == net[d]
<1>2. /\ q \o m \in Seq(Message)
      /\ \A j \in DOMAIN (q \o m) :
           \/ \E k \in DOMAIN q : (q \o m)[j] = q[k]
           \/ \E k \in DOMAIN m : (q \o m)[j] = m[k]
  BY <1>1, SentElements
<1>3. Sent(d, m) = q \/ Sent(d, m) = q \o m
  BY DEF Sent
<1> HIDE DEF q
<1>4. QED
  BY <1>1, <1>2, <1>3 DEF q

LEMMA TakeChange ==
  ASSUME TypeOK, NEW e \in Ends, NEW i \in DOMAIN net[e],
         NEW f, EffectOK(f), Take(e, i, f)
  PROVE  /\ Change(e, f.end, f.out)
         /\ version' \in [Ends -> Versions]
         /\ end' \in [Ends -> EndRecord]
         /\ net' \in [Ends -> Seq(Message)]
         /\ posted' \in [Ends -> Nat]
<1> DEFINE p == Peer[e]
<1>1. p \in Ends /\ p # e
  BY PeerAssumption
<1>2. net \in [Ends -> Seq(Message)] /\ net[e] \in Seq(Message)
  BY DEF TypeOK
<1>3. /\ Drop(net[e], i) \in Seq(Message)
      /\ \A j \in DOMAIN Drop(net[e], i) :
           \E k \in DOMAIN net[e] : Drop(net[e], i)[j] = net[e][k]
  BY <1>2, DropElements
<1>4. /\ Sent(p, f.out) \in Seq(Message)
      /\ \A j \in DOMAIN Sent(p, f.out) :
           \/ \E k \in DOMAIN net[p] : Sent(p, f.out)[j] = net[p][k]
           \/ \E k \in DOMAIN f.out : Sent(p, f.out)[j] = f.out[k]
  BY <1>1, SentType DEF EffectOK
<1>5. net' = [net EXCEPT ![e] = Drop(net[e], i), ![p] = Sent(p, f.out)]
  BY <1>1, <1>2 DEF Take
<1>6. net'[e] = Drop(net[e], i) /\ net'[p] = Sent(p, f.out)
  BY <1>1, <1>2, <1>5
<1>7. \A d \in Ends \ {e, p} : net'[d] = net[d]
  BY <1>1, <1>2, <1>5
<1>8. NetFrom(e, f.out)
  <2> SUFFICES ASSUME NEW d \in Ends, NEW j \in DOMAIN net'[d]
               PROVE  \/ \E k \in DOMAIN net[d] : net'[d][j] = net[d][k]
                      \/ d = p /\ \E k \in DOMAIN f.out : net'[d][j] = f.out[k]
    BY DEF NetFrom
  <2>1. CASE d = e
    BY <1>3, <1>6, <2>1
  <2>2. CASE d = p
    BY <1>4, <1>6, <2>2
  <2>3. CASE d \notin {e, p}
    BY <1>7, <2>3
  <2>4. QED
    BY <2>1, <2>2, <2>3
<1>9. net' \in [Ends -> Seq(Message)]
  BY <1>2, <1>3, <1>4, <1>5
<1>10. end' \in [Ends -> EndRecord] /\ posted' \in [Ends -> Nat]
  BY DEF Take, TypeOK, EffectOK
<1>11. version' = version /\ end' = [end EXCEPT ![e] = f.end]
  BY DEF Take
<1>12. QED
  BY <1>8, <1>9, <1>10, <1>11 DEF Change, TypeOK

\* A message sent outside Take.
LEMMA SendChange ==
  ASSUME TypeOK, NEW e \in Ends, NEW m \in Seq(Message),
         net' = [net EXCEPT ![Peer[e]] = Sent(Peer[e], m)]
  PROVE  net' \in [Ends -> Seq(Message)] /\ NetFrom(e, m)
<1> DEFINE p == Peer[e]
<1>1. p \in Ends
  BY PeerAssumption
<1>2. net \in [Ends -> Seq(Message)]
  BY DEF TypeOK
<1>3. /\ Sent(p, m) \in Seq(Message)
      /\ \A j \in DOMAIN Sent(p, m) :
           \/ \E k \in DOMAIN net[p] : Sent(p, m)[j] = net[p][k]
           \/ \E k \in DOMAIN m : Sent(p, m)[j] = m[k]
  BY <1>1, SentType
<1>4. net'[p] = Sent(p, m) /\ \A d \in Ends \ {p} : net'[d] = net[d]
  BY <1>1, <1>2
<1>5. net' \in [Ends -> Seq(Message)]
  BY <1>2, <1>3
<1>6. ASSUME NEW d \in Ends, NEW j \in DOMAIN net'[d]
      PROVE  \/ \E k \in DOMAIN net[d] : net'[d][j] = net[d][k]
             \/ d = p /\ \E k \in DOMAIN m : net'[d][j] = m[k]
  BY <1>3, <1>4
<1>7. QED
  BY <1>5, <1>6 DEF NetFrom

\* A queue replaced by one whose messages were in it.
LEMMA ShrinkChange ==
  ASSUME TypeOK, NEW e \in Ends, NEW q \in Seq(Message),
         \A j \in DOMAIN q : \E k \in DOMAIN net[e] : q[j] = net[e][k],
         net' = [net EXCEPT ![e] = q]
  PROVE  net' \in [Ends -> Seq(Message)] /\ NetFrom(e, <<>>)
<1>1. net \in [Ends -> Seq(Message)]
  BY DEF TypeOK
<1>2. net'[e] = q /\ \A d \in Ends \ {e} : net'[d] = net[d]
  BY <1>1
<1>3. QED
  BY <1>1, <1>2 DEF NetFrom

-----------------------------------------------------------------------------
(* The actions as changes, each keeping the type. *)

LEMMA ReceivedType ==
  ASSUME TypeOK, NEW e \in Ends, NEW i \in DOMAIN net[e]
  PROVE  /\ net[e][i] \in Message
         /\ net[e][i].type # "HELLO" => net[e][i].arg \in Codes
         /\ end[e] \in EndRecord
<1>1. net[e] \in Seq(Message)
  BY DEF TypeOK
<1>2. net[e][i] \in Message
  BY <1>1, ElementOfSeq, LenProperties
<1>3. QED
  BY <1>2 DEF TypeOK, Message

LEMMA HelloCodeType == \A own, theirs : HelloCode(own, theirs) \in Codes
BY CodesAre DEF HelloCode

LEMMA ConnectChange ==
  ASSUME TypeOK, NEW e \in Ends, Connect(e)
  PROVE  TypeOK' /\ Change(e, NewEnd, <<Msg("HELLO", version[e])>>)
<1> DEFINE m == <<Msg("HELLO", version[e])>>
<1>1. m \in Seq(Message)
  BY DEF Msg, Message, TypeOK
<1>2. net' \in [Ends -> Seq(Message)] /\ NetFrom(e, m)
  BY <1>1, SendChange DEF Connect
<1>3. TypeOK'
  BY <1>2, NewEndType DEF Connect, TypeOK
<1>4. QED
  BY <1>2, <1>3 DEF Change, Connect

LEMMA SendMapChange ==
  ASSUME TypeOK, NEW e \in Ends, SendMap(e)
  PROVE  LET f == CoreProtoMapTo(end[e])
         IN  TypeOK' /\ Change(e, f.end, f.out)
<1> DEFINE f == CoreProtoMapTo(end[e])
<1>1. EffectOK(f)
  BY MapToType DEF TypeOK
<1>2. ASSUME phase[e] = "up"
      PROVE  net' \in [Ends -> Seq(Message)] /\ NetFrom(e, f.out)
  <2>1. net' = [net EXCEPT ![Peer[e]] = Sent(Peer[e], f.out)]
    BY <1>2 DEF SendMap
  <2>2. QED
    BY <1>1, <2>1, SendChange DEF EffectOK
<1>3. ASSUME phase[e] # "up"
      PROVE  net' \in [Ends -> Seq(Message)] /\ NetFrom(e, f.out)
  BY <1>3 DEF SendMap, TypeOK, NetFrom
<1>4. net' \in [Ends -> Seq(Message)] /\ NetFrom(e, f.out)
  BY <1>2, <1>3
<1>5. end' = [end EXCEPT ![e] = f.end]
  BY DEF SendMap
<1>6. TypeOK'
  BY <1>1, <1>4, <1>5 DEF SendMap, TypeOK, EffectOK
<1>7. QED
  BY <1>4, <1>5, <1>6 DEF Change, SendMap

LEMMA HelloChange ==
  ASSUME TypeOK, NEW e \in Ends, NEW i \in DOMAIN net[e],
         RecvHello(e, i)
  PROVE  LET f == CoreProtoHello(end[e], HelloCode(version[e], net[e][i].arg))
         IN  TypeOK' /\ Change(e, f.end, f.out)
<1> DEFINE f == CoreProtoHello(end[e], HelloCode(version[e], net[e][i].arg))
<1>1. EffectOK(f)
  BY ReceivedType, HelloType, HelloCodeType DEF RecvHello, Receives, TypeOK
<1>2. Take(e, i, f)
  BY DEF RecvHello
<1>3. phase' \in [Ends -> {"idle", "up", "closing", "freed"}]
  BY DEF RecvHello, TypeOK
<1> HIDE DEF f
<1>4. TypeOK' /\ Change(e, f.end, f.out)
  BY <1>1, <1>2, <1>3, TakeChange DEF TypeOK
<1>5. QED
  BY <1>4 DEF f

LEMMA HelloAckChange ==
  ASSUME TypeOK, NEW e \in Ends, NEW i \in DOMAIN net[e],
         RecvHelloAck(e, i)
  PROVE  LET f == CoreProtoHelloAck(end[e], net[e][i].arg)
         IN  TypeOK' /\ Change(e, f.end, f.out)
<1> DEFINE f == CoreProtoHelloAck(end[e], net[e][i].arg)
<1>1. EffectOK(f)
  BY ReceivedType, HelloAckType DEF RecvHelloAck, Receives, TypeOK
<1>2. Take(e, i, f)
  BY DEF RecvHelloAck
<1>3. phase' \in [Ends -> {"idle", "up", "closing", "freed"}]
  BY DEF RecvHelloAck, TypeOK
<1> HIDE DEF f
<1>4. TypeOK' /\ Change(e, f.end, f.out)
  BY <1>1, <1>2, <1>3, TakeChange DEF TypeOK
<1>5. QED
  BY <1>4 DEF f

LEMMA AuthChange ==
  ASSUME TypeOK, NEW e \in Ends, NEW i \in DOMAIN net[e], NEW accept \in BOOLEAN,
         RecvAuth(e, i, accept)
  PROVE  LET f == CoreProtoCheckAuth(end[e], accept)
         IN  TypeOK' /\ Change(e, f.end, f.out)
<1> DEFINE f == CoreProtoCheckAuth(end[e], accept)
<1>1. EffectOK(f)
  BY ReceivedType, CheckAuthType DEF RecvAuth, Receives, TypeOK
<1>2. Take(e, i, f)
  BY DEF RecvAuth
<1>3. phase' \in [Ends -> {"idle", "up", "closing", "freed"}]
  BY DEF RecvAuth, TypeOK
<1> HIDE DEF f
<1>4. TypeOK' /\ Change(e, f.end, f.out)
  BY <1>1, <1>2, <1>3, TakeChange DEF TypeOK
<1>5. QED
  BY <1>4 DEF f

\* The handlers core_proto_map_to may come into the middle of.
LEMMA HandlerType ==
  ASSUME TypeOK, NEW e \in Ends, NEW i \in DOMAIN net[e], NEW accept \in BOOLEAN,
         net[e][i].type \in {"HELLO", "HELLO_ACK", "AUTH", "AUTH_ACK"}
  PROVE  EffectOK(Handler(e, net[e][i], accept))
<1>1. /\ end[e] \in EndRecord
      /\ net[e][i].type # "HELLO" => net[e][i].arg \in Codes
      /\ HelloCode(version[e], net[e][i].arg) \in Codes
  BY ReceivedType, HelloCodeType
<1>2. CASE net[e][i].type = "HELLO"
  BY <1>1, <1>2, HelloType DEF Handler
<1>3. CASE net[e][i].type = "HELLO_ACK"
  BY <1>1, <1>3, HelloAckType DEF Handler
<1>4. CASE net[e][i].type = "AUTH"
  BY <1>1, <1>4, CheckAuthType DEF Handler
<1>5. CASE net[e][i].type = "AUTH_ACK"
  BY <1>1, <1>5, CheckAuthAckType DEF Handler
<1>6. QED
  BY <1>2, <1>3, <1>4, <1>5

\* The step of a core_map woken by the token of the handler is a case of it.
LEMMA AuthOvertaken ==
  ASSUME TypeOK, NEW e \in Ends, NEW i \in DOMAIN net[e], RecvAuthOvertaken(e, i)
  PROVE  RecvOvertaken(e, i, TRUE)
<1> DEFINE m == net[e][i]
           f == CoreProtoCheckAuth(end[e], TRUE)
           g == CoreProtoMapTo(f.end)
<1>1. /\ e \in Clients /\ e \in Guarded /\ ~ end[e].lep /\ phase' = phase
      /\ Receives(e, i, "AUTH") /\ m.type = "AUTH"
      /\ Take(e, i, Effect(g.end, g.out \o f.out, f.posts))
  BY DEF RecvAuthOvertaken, Receives
<1>2. Handler(e, m, TRUE) = f
  BY <1>1 DEF Handler
<1> HIDE DEF f, m
<1>3. \E out \in {f.out \o g.out, g.out \o f.out} : Take(e, i, Effect(g.end, out, f.posts))
  BY <1>1
<1> HIDE DEF g
<1>4. QED
  BY <1>1, <1>2, <1>3 DEF RecvOvertaken, f, g, m

\* The handler with effect f makes of the STATE s the STATE t and sends out, with
\* core_proto_map_to in its middle.
Overtaken(s, f, t, out) ==
  /\ EffectOK(f)
  /\ t \in EndRecord
  /\ t = [f.end EXCEPT !.lep = TRUE, !.st = "MAP_ACK", !.late = t.late]
  /\ t.late = f.end.late \/ (t.late = f.end.st /\ f.end.st # s.st)
  /\ \A k \in DOMAIN out :
       out[k] = Msg("MAP", Ok) \/ \E n \in DOMAIN f.out : out[k] = f.out[n]

LEMMA OvertakenChange ==
  ASSUME TypeOK, NEW e \in Ends, NEW i \in DOMAIN net[e], NEW accept \in BOOLEAN,
         RecvOvertaken(e, i, accept)
  PROVE  \E f, t, out :
           /\ f = Handler(e, net[e][i], accept)
           /\ TypeOK' /\ Change(e, t, out)
           /\ Overtaken(end[e], f, t, out)
<1>1. PICK f : f = Handler(e, net[e][i], accept)
  OBVIOUS
<1>2. PICK g : g = CoreProtoMapTo(f.end)
  OBVIOUS
<1>3. EffectOK(f)
  BY <1>1, HandlerType DEF RecvOvertaken
<1>4. /\ g.end = [f.end EXCEPT !.lep = TRUE, !.st = "MAP_ACK"]
      /\ g.out = <<Msg("MAP", Ok)>> /\ g.out \in Seq(Message) /\ g.end \in EndRecord
  BY <1>2, <1>3, MapToType DEF CoreProtoMapTo, Effect, EffectOK
<1>5. \E out \in {f.out \o g.out, g.out \o f.out}, posts \in {0, f.posts},
         t \in {g.end, [g.end EXCEPT !.late = f.end.st]} :
        /\ t = g.end \/ f.end.st # end[e].st
        /\ Take(e, i, Effect(t, out, posts))
  <2>1. \/ \E out \in {f.out \o g.out, g.out \o f.out} : Take(e, i, Effect(g.end, out, 0))
        \/ \E out \in {f.out \o g.out, g.out \o f.out} : Take(e, i, Effect(g.end, out, f.posts))
        \/ /\ f.end.st # end[e].st
           /\ \E out \in {f.out \o g.out, g.out \o f.out} :
                Take(e, i, Effect([g.end EXCEPT !.late = f.end.st], out, f.posts))
    BY <1>1, <1>2 DEF RecvOvertaken
  <2>2. QED
    BY <2>1
<1>6. PICK out \in {f.out \o g.out, g.out \o f.out}, posts \in {0, f.posts},
           t \in {g.end, [g.end EXCEPT !.late = f.end.st]} :
        /\ t = g.end \/ f.end.st # end[e].st
        /\ Take(e, i, Effect(t, out, posts))
  BY <1>5
<1>7. /\ t \in EndRecord
      /\ t = [f.end EXCEPT !.lep = TRUE, !.st = "MAP_ACK", !.late = t.late]
      /\ t.late = f.end.late \/ (t.late = f.end.st /\ f.end.st # end[e].st)
  BY <1>3, <1>4, <1>6 DEF EffectOK, EndRecord
<1>8. /\ out \in Seq(Message)
      /\ \A k \in DOMAIN out :
           \/ \E n \in DOMAIN g.out : out[k] = g.out[n]
           \/ \E n \in DOMAIN f.out : out[k] = f.out[n]
  <2>1. f.out \in Seq(Message)
    BY <1>3 DEF EffectOK
  <2>2. PICK a, b : a = f.out /\ b = g.out
    OBVIOUS
  <2>3. a \in Seq(Message) /\ b \in Seq(Message) /\ out \in {a \o b, b \o a}
    BY <1>4, <1>6, <2>1, <2>2
  <2>4. /\ out \in Seq(Message)
        /\ \A k \in DOMAIN out :
             \/ \E n \in DOMAIN b : out[k] = b[n]
             \/ \E n \in DOMAIN a : out[k] = a[n]
    <3>1. CASE out = a \o b
      BY <2>3, <3>1, SentElements
    <3>2. CASE out = b \o a
      <4>1. /\ b \o a \in Seq(Message)
            /\ \A k \in DOMAIN (b \o a) :
                 \/ \E n \in DOMAIN b : (b \o a)[k] = b[n]
                 \/ \E n \in DOMAIN a : (b \o a)[k] = a[n]
        BY <2>3, SentElements
      <4>2. QED
        BY <3>2, <4>1
    <3>3. QED
      BY <2>3, <3>1, <3>2
  <2>5. QED
    BY <2>2, <2>4
<1>9. \A n \in DOMAIN g.out : g.out[n] = Msg("MAP", Ok)
  BY <1>4
<1>10. PICK h : h = Effect(t, out, posts)
  OBVIOUS
<1>11. EffectOK(h) /\ h.end = t /\ h.out = out /\ Take(e, i, h)
  BY <1>3, <1>6, <1>7, <1>8, <1>10 DEF EffectOK, Effect
<1>12. phase' \in [Ends -> {"idle", "up", "closing", "freed"}]
  BY DEF RecvOvertaken, TypeOK
<1>13. TypeOK' /\ Change(e, t, out)
  BY <1>11, <1>12, TakeChange DEF TypeOK
<1>14. \A k \in DOMAIN out :
         out[k] = Msg("MAP", Ok) \/ \E n \in DOMAIN f.out : out[k] = f.out[n]
  BY <1>8, <1>9
<1>15. Overtaken(end[e], f, t, out)
  BY <1>3, <1>7, <1>14 DEF Overtaken
<1>16. QED
  BY <1>1, <1>13, <1>15

LEMMA SomeOvertaken ==
  ASSUME TypeOK, NEW e \in Ends, Overtake(e)
  PROVE  \E i \in DOMAIN net[e], accept \in BOOLEAN : RecvOvertaken(e, i, accept)
BY AuthOvertaken DEF Overtake, Verdicts

LEMMA LateChange ==
  ASSUME TypeOK, NEW e \in Ends, LateWrite(e)
  PROVE  /\ TypeOK'
         /\ Change(e, [end[e] EXCEPT !.st = end[e].late, !.late = "none"], <<>>)
<1>1. end[e] \in EndRecord /\ end[e].late \in ConnStates
  BY DEF TypeOK, EndRecord, LateWrite
<1>2. PICK t : t = [end[e] EXCEPT !.st = end[e].late, !.late = "none"]
  OBVIOUS
<1>3. t \in EndRecord
  BY <1>1, <1>2 DEF EndRecord
<1>4. /\ end' = [end EXCEPT ![e] = t] /\ version' = version /\ phase' = phase
      /\ net' = net /\ posted' = posted
  BY <1>2 DEF LateWrite
<1>5. QED
  BY <1>2, <1>3, <1>4 DEF TypeOK, Change, NetFrom

LEMMA AuthAckChange ==
  ASSUME TypeOK, NEW e \in Ends, NEW i \in DOMAIN net[e],
         RecvAuthAck(e, i)
  PROVE  LET f == CoreProtoCheckAuthAck(end[e], net[e][i].arg)
         IN  TypeOK' /\ Change(e, f.end, f.out)
<1> DEFINE f == CoreProtoCheckAuthAck(end[e], net[e][i].arg)
<1>1. EffectOK(f)
  BY ReceivedType, CheckAuthAckType DEF RecvAuthAck, Receives, TypeOK
<1>2. Take(e, i, f)
  BY DEF RecvAuthAck
<1>3. phase' \in [Ends -> {"idle", "up", "closing", "freed"}]
  BY DEF RecvAuthAck, TypeOK
<1> HIDE DEF f
<1>4. TypeOK' /\ Change(e, f.end, f.out)
  BY <1>1, <1>2, <1>3, TakeChange DEF TypeOK
<1>5. QED
  BY <1>4 DEF f

LEMMA MapChange ==
  ASSUME TypeOK, NEW e \in Ends, NEW i \in DOMAIN net[e], NEW found \in BOOLEAN,
         RecvMap(e, i, found)
  PROVE  LET f == CoreProtoMap(end[e], found)
         IN  TypeOK' /\ Change(e, f.end, f.out)
<1> DEFINE f == CoreProtoMap(end[e], found)
<1>1. EffectOK(f)
  BY ReceivedType, MapType DEF RecvMap, Receives, TypeOK
<1>2. Take(e, i, f)
  BY DEF RecvMap
<1>3. phase' \in [Ends -> {"idle", "up", "closing", "freed"}]
  BY DEF RecvMap, TypeOK
<1> HIDE DEF f
<1>4. TypeOK' /\ Change(e, f.end, f.out)
  BY <1>1, <1>2, <1>3, TakeChange DEF TypeOK
<1>5. QED
  BY <1>4 DEF f

LEMMA MapAckChange ==
  ASSUME TypeOK, NEW e \in Ends, NEW i \in DOMAIN net[e],
         RecvMapAck(e, i)
  PROVE  LET f == CoreProtoMapAck(end[e], net[e][i].arg)
         IN  TypeOK' /\ Change(e, f.end, f.out)
<1> DEFINE f == CoreProtoMapAck(end[e], net[e][i].arg)
<1>1. EffectOK(f)
  BY ReceivedType, MapAckType DEF RecvMapAck, Receives, TypeOK
<1>2. Take(e, i, f)
  BY DEF RecvMapAck
<1>3. phase' \in [Ends -> {"idle", "up", "closing", "freed"}]
  BY DEF RecvMapAck, TypeOK
<1> HIDE DEF f
<1>4. TypeOK' /\ Change(e, f.end, f.out)
  BY <1>1, <1>2, <1>3, TakeChange DEF TypeOK
<1>5. QED
  BY <1>4 DEF f

\* A step that handles no message: the end is as it was or handed over.
LEMMA IgnoreChange ==
  ASSUME TypeOK, NEW e \in Ends, NEW i \in DOMAIN net[e], Ignore(e, i)
  PROVE  /\ TypeOK'
         /\ Change(e, end[e], <<>>) \/ Change(e, HandOver(end[e]), <<>>)
<1> DEFINE t == IF end[e].handler = "proto" /\ net[e][i].type \in {"AUTH", "AUTH_ACK"}
                THEN HandOver(end[e]) ELSE end[e]
           f == Effect(t, <<>>, 0)
<1>1. t \in EndRecord
  BY HandOverType DEF TypeOK
<1>2. Take(e, i, f)
  BY DEF Ignore
<1> HIDE DEF t
<1>3. EffectOK(f) /\ f.end = t /\ f.out = <<>>
  BY <1>1 DEF EffectOK, Effect
<1> HIDE DEF f
<1>4. TypeOK' /\ Change(e, f.end, f.out)
  BY <1>2, <1>3, TakeChange DEF TypeOK, Ignore
<1>5. QED
  BY <1>3, <1>4 DEF t

LEMMA QuietChange ==
  ASSUME TypeOK, NEW e \in Ends, Disconnect(e) \/ Break(e) \/ Lose(e) \/ Duplicate(e)
  PROVE  TypeOK' /\ Change(e, end[e], <<>>)
<1>1. net \in [Ends -> Seq(Message)] /\ net[e] \in Seq(Message)
  BY DEF TypeOK
<1>2. ASSUME Freed(e)
      PROVE  net' \in [Ends -> Seq(Message)] /\ NetFrom(e, <<>>)
  <2>1. net' = [net EXCEPT ![e] = <<>>]
    BY <1>2 DEF Freed
  <2>2. <<>> \in Seq(Message) /\ DOMAIN <<>> = {}
    OBVIOUS
  <2>3. QED
    BY <2>1, <2>2, ShrinkChange
<1>3. ASSUME Lose(e)
      PROVE  net' \in [Ends -> Seq(Message)] /\ NetFrom(e, <<>>)
  <2>1. PICK i \in DOMAIN net[e] : net' = [net EXCEPT ![e] = Drop(net[e], i)]
    BY <1>1, <1>3 DEF Lose
  <2>2. /\ Drop(net[e], i) \in Seq(Message)
        /\ \A j \in DOMAIN Drop(net[e], i) :
             \E k \in DOMAIN net[e] : Drop(net[e], i)[j] = net[e][k]
    BY <1>1, DropElements
  <2>3. QED
    BY <2>1, <2>2, ShrinkChange
<1>4. ASSUME Duplicate(e)
      PROVE  net' \in [Ends -> Seq(Message)] /\ NetFrom(e, <<>>)
  <2>1. PICK i \in DOMAIN net[e] : net' = [net EXCEPT ![e] = Append(net[e], net[e][i])]
    BY <1>1, <1>4 DEF Duplicate
  <2>2. net[e][i] \in Message
    BY ReceivedType
  <2>3. /\ Append(net[e], net[e][i]) \in Seq(Message)
        /\ \A j \in DOMAIN Append(net[e], net[e][i]) :
             \E k \in DOMAIN net[e] : Append(net[e], net[e][i])[j] = net[e][k]
    BY <1>1, <2>2
  <2>4. QED
    BY <2>1, <2>3, ShrinkChange
<1>5. net' \in [Ends -> Seq(Message)] /\ NetFrom(e, <<>>)
  BY <1>2, <1>3, <1>4 DEF Disconnect, Break
<1>6. version' = version /\ end' = end /\ posted' = posted
  BY DEF Disconnect, Break, Freed, Lose, Duplicate
<1>7. phase' \in [Ends -> {"idle", "up", "closing", "freed"}]
  BY DEF Disconnect, Break, Freed, Lose, Duplicate, TypeOK
<1>8. QED
  BY <1>5, <1>6, <1>7 DEF Change, TypeOK

-----------------------------------------------------------------------------
(* The type. *)

LEMMA TypeInit == Init => TypeOK
BY NewEndType DEF Init, TypeOK

LEMMA TypeStep == TypeOK /\ [Next]_vars => TypeOK'
<1> SUFFICES ASSUME TypeOK, [Next]_vars
             PROVE  TypeOK'
  OBVIOUS
<1>1. CASE UNCHANGED vars
  BY <1>1 DEF vars, TypeOK
<1>2. ASSUME NEW e \in Ends, Connect(e)
      PROVE  TypeOK'
  BY <1>2, ConnectChange
<1>3. ASSUME NEW e \in Ends, NEW i \in DOMAIN net[e],
             \/ RecvHello(e, i) \/ RecvHelloAck(e, i)
             \/ \E accept \in Verdicts(e) : RecvAuth(e, i, accept)
             \/ RecvAuthAck(e, i)
             \/ \E found \in BOOLEAN : RecvMap(e, i, found)
             \/ RecvMapAck(e, i) \/ Ignore(e, i)
      PROVE  TypeOK'
  <2>1. CASE RecvHello(e, i)
    BY <2>1, HelloChange
  <2>2. CASE RecvHelloAck(e, i)
    BY <2>2, HelloAckChange
  <2>3. CASE \E accept \in Verdicts(e) : RecvAuth(e, i, accept)
    BY <2>3, AuthChange DEF Verdicts
  <2>4. CASE RecvAuthAck(e, i)
    BY <2>4, AuthAckChange
  <2>5. CASE \E found \in BOOLEAN : RecvMap(e, i, found)
    BY <2>5, MapChange
  <2>6. CASE RecvMapAck(e, i)
    BY <2>6, MapAckChange
  <2>7. CASE Ignore(e, i)
    BY <2>7, IgnoreChange
  <2>8. QED
    BY <1>3, <2>1, <2>2, <2>3, <2>4, <2>5, <2>6, <2>7
<1>4. ASSUME NEW e \in Ends, MapTo(e)
      PROVE  TypeOK'
  BY <1>4, SendMapChange DEF MapTo
<1>5. ASSUME NEW e \in Ends, Disconnect(e) \/ Break(e) \/ Lose(e) \/ Duplicate(e)
      PROVE  TypeOK'
  BY <1>5, QuietChange
<1>6. ASSUME NEW e \in Ends, Overtake(e)
      PROVE  TypeOK'
  BY <1>6, SomeOvertaken, OvertakenChange
<1>7. ASSUME NEW e \in Ends, LateWrite(e)
      PROVE  TypeOK'
  BY <1>7, LateChange
<1>8. QED
  BY <1>1, <1>2, <1>3, <1>4, <1>5, <1>6, <1>7 DEF Next, Receive

\* Every variable keeps its type: in particular every message in flight is one
\* a handler expects, and a flag is always a code.
THEOREM TypeCorrect == Spec => []TypeOK
BY TypeInit, TypeStep, PTL DEF Spec

-----------------------------------------------------------------------------
(* The invariant. *)

\* A change that forgets nothing, and whose end and messages say what is so,
\* keeps the invariant.
LEMMA ChangeKeepsIInv ==
  ASSUME TypeOK, TypeOK', IInv, NEW e \in Ends, NEW t \in EndRecord, NEW out,
         Change(e, t, out),
         \A d \in Ends : phase'[d] = "idle" => phase[d] = "idle",
         \A d \in Ends \ {e} : phase'[d] = phase[d],
         end[e].isAuth => t.isAuth,
         end[e].st \in {"EXT_MSG", "BAD"} => t.st = end[e].st /\ t.flag = end[e].flag,
         \A k \in DOMAIN out : Honest(Peer[e], out[k])',
         EndInv(e)'
  PROVE  IInv'
<1>1. /\ version' = version
      /\ end'[e] = t
      /\ \A d \in Ends \ {e} : end'[d] = end[d]
  BY DEF Change, TypeOK
<1>2. \A d \in Ends : Peer[d] \in Ends /\ Peer[d] # d /\ Peer[Peer[d]] = d
  BY PeerAssumption
\* The peer of any end keeps what others rely on.
<1>3. \A d \in Ends : /\ end[d].isAuth => end'[d].isAuth
                      /\ end[d].st \in {"EXT_MSG", "BAD"} =>
                           end'[d].st = end[d].st /\ end'[d].flag = end[d].flag
  BY <1>1
<1>4. NetHonest'
  <2> SUFFICES ASSUME NEW d \in Ends, NEW j \in DOMAIN net'[d]
               PROVE  Honest(d, net[d][j])'
    BY DEF NetHonest
  <2>1. ASSUME NEW k \in DOMAIN net[d], net'[d][j] = net[d][k]
        PROVE  Honest(d, net[d][j])'
    <3>1. Honest(d, net[d][k])
      BY DEF IInv, NetHonest
    <3>2. QED
      BY <1>1, <1>2, <1>3, <2>1, <3>1 DEF Honest, SameVersion
  <2>2. ASSUME d = Peer[e], NEW k \in DOMAIN out, net'[d][j] = out[k]
        PROVE  Honest(d, net[d][j])'
    <3>1. Honest(Peer[e], out[k])'
      OBVIOUS
    <3>2. QED
      BY <2>2, <3>1 DEF Honest, SameVersion
  <2>3. QED
    BY <2>1, <2>2 DEF Change, NetFrom
<1>5. ASSUME NEW d \in Ends, d # e
      PROVE  EndInv(d)'
  <2>1. EndInv(d)
    BY DEF IInv
  <2>2. QED
    BY <1>1, <1>2, <1>3, <1>5, <2>1, SMTT(40) DEF EndInv, SameVersion
<1>6. QED
  BY <1>4, <1>5 DEF IInv

LEMMA HelloKeeps ==
  ASSUME TypeOK, IInv, NEW e \in Ends, NEW i \in DOMAIN net[e],
         RecvHello(e, i)
  PROVE  IInv'
<1> DEFINE s == end[e]
           m == net[e][i]
           f == CoreProtoHello(end[e], HelloCode(version[e], net[e][i].arg))
<1>1. TypeOK' /\ Change(e, f.end, f.out)
  BY HelloChange
<1>2. s \in EndRecord /\ m \in Message /\ EndInv(e) /\ Honest(e, m)
  BY ReceivedType DEF IInv, NetHonest
<1>3. /\ s.handler = "proto" /\ s.st \in {"HELLO_S", "HELLO_2"} /\ m.type = "HELLO"
      /\ phase[e] = "up" /\ s.late = "none"
  BY DEF RecvHello, Receives, Listens, Handles, HandledIn, Dispatcher
<1>4. PICK t, out : t = f.end /\ out = f.out
  OBVIOUS
<1>5. t \in EndRecord /\ Change(e, t, out)
  BY <1>1, <1>2, <1>4, HelloCodeType, HelloType DEF EffectOK
<1>6. /\ t = [s EXCEPT !.st = t.st]
      /\ t.st = s.st \/ (t.st \in {"HELLO_ACK_S", "AUTH"} /\ version[e] = m.arg)
  BY <1>2, <1>3, <1>4 DEF CoreProtoHello, HelloCode, Ok, WrongVersion, Effect, EndRecord
<1>7. out = <<Msg("HELLO_ACK", HelloCode(version[e], m.arg))>>
  BY <1>2, <1>3, <1>4 DEF CoreProtoHello, HelloCode, Ok, WrongVersion, Effect, EndRecord
<1>8. /\ version' = version /\ end'[e] = t /\ end'[Peer[e]] = end[Peer[e]]
      /\ phase'[e] # "idle" /\ \A d \in Ends : phase'[d] = "idle" => phase[d] = "idle"
      /\ \A d \in Ends \ {e} : phase'[d] = phase[d]
      /\ Peer[e] \in Ends /\ Peer[Peer[e]] = e /\ (e \in Clients <=> Peer[e] \notin Clients)
  BY <1>1, <1>4, PeerAssumption, ClientsAssumption DEF Change, TypeOK, RecvHello, Receives, Listens
<1> HIDE DEF f
<1>9. \A k \in DOMAIN out : Honest(Peer[e], out[k])'
  BY <1>2, <1>3, <1>6, <1>7, <1>8 DEF Honest, SameVersion, Msg, HelloCode, Ok, WrongVersion
<1>10. EndInv(e)'
  BY <1>2, <1>3, <1>5, <1>6, <1>8 DEF EndInv, SameVersion, Honest, Greeted, EndRecord
<1>11. /\ s.isAuth => t.isAuth
       /\ s.st \in {"EXT_MSG", "BAD"} => t.st = s.st /\ t.flag = s.flag
  BY <1>2, <1>3, <1>6 DEF EndRecord
<1>12. QED
  BY <1>1, <1>5, <1>8, <1>9, <1>10, <1>11, ChangeKeepsIInv

LEMMA HelloAckKeeps ==
  ASSUME TypeOK, IInv, NEW e \in Ends, NEW i \in DOMAIN net[e],
         RecvHelloAck(e, i)
  PROVE  IInv'
<1> DEFINE s == end[e]
           m == net[e][i]
           f == CoreProtoHelloAck(end[e], net[e][i].arg)
<1>1. TypeOK' /\ Change(e, f.end, f.out)
  BY HelloAckChange
<1>2. s \in EndRecord /\ m \in Message /\ EndInv(e) /\ Honest(e, m)
  BY ReceivedType DEF IInv, NetHonest
<1>3. /\ s.handler = "proto" /\ s.st \in {"HELLO_S", "HELLO_ACK_S"} /\ m.type = "HELLO_ACK"
      /\ phase[e] = "up" /\ s.late = "none"
  BY DEF RecvHelloAck, Receives, Listens, Handles, HandledIn, Dispatcher
<1>4. PICK t, out : t = f.end /\ out = f.out
  OBVIOUS
<1>5. t \in EndRecord /\ Change(e, t, out)
  BY <1>1, <1>2, <1>3, <1>4, ReceivedType, HelloAckType DEF EffectOK
<1>6. /\ t = [s EXCEPT !.st = t.st]
      /\ t.st = s.st \/ (t.st \in {"HELLO_2", "AUTH"} /\ m.arg = Ok)
  BY <1>2, <1>3, <1>4 DEF CoreProtoHelloAck, Effect, EndRecord
<1>7. out = <<Msg("AUTH", Ok)>>
  BY <1>2, <1>3, <1>4 DEF CoreProtoHelloAck, Effect, EndRecord
<1>8. /\ version' = version /\ end'[e] = t /\ end'[Peer[e]] = end[Peer[e]]
      /\ phase'[e] # "idle" /\ \A d \in Ends : phase'[d] = "idle" => phase[d] = "idle"
      /\ \A d \in Ends \ {e} : phase'[d] = phase[d]
      /\ Peer[e] \in Ends /\ Peer[Peer[e]] = e /\ (e \in Clients <=> Peer[e] \notin Clients)
  BY <1>1, <1>4, PeerAssumption, ClientsAssumption DEF Change, TypeOK, RecvHelloAck, Receives, Listens
<1> HIDE DEF f
<1>9. \A k \in DOMAIN out : Honest(Peer[e], out[k])'
  BY <1>2, <1>3, <1>6, <1>7, <1>8 DEF Honest, SameVersion, Msg
<1>10. EndInv(e)'
  BY <1>2, <1>3, <1>5, <1>6, <1>8 DEF EndInv, SameVersion, Honest, Greeted, EndRecord
<1>11. /\ s.isAuth => t.isAuth
       /\ s.st \in {"EXT_MSG", "BAD"} => t.st = s.st /\ t.flag = s.flag
  BY <1>2, <1>3, <1>6 DEF EndRecord
<1>12. QED
  BY <1>1, <1>5, <1>8, <1>9, <1>10, <1>11, ChangeKeepsIInv

LEMMA AuthKeeps ==
  ASSUME TypeOK, IInv, NEW e \in Ends, NEW i \in DOMAIN net[e], NEW accept \in BOOLEAN,
         RecvAuth(e, i, accept)
  PROVE  IInv'
<1> DEFINE s == end[e]
           m == net[e][i]
           f == CoreProtoCheckAuth(end[e], accept)
<1>1. TypeOK' /\ Change(e, f.end, f.out)
  BY AuthChange
<1>2. s \in EndRecord /\ m \in Message /\ EndInv(e) /\ Honest(e, m)
  BY ReceivedType DEF IInv, NetHonest
<1>3. /\ s.handler = "proto" /\ s.st \in {"AUTH", "AUTH_2"} /\ m.type = "AUTH"
      /\ phase[e] = "up" /\ s.late = "none"
  BY DEF RecvAuth, Receives, Listens, Handles, HandledIn, Dispatcher
<1>4. PICK t, out : t = f.end /\ out = f.out
  OBVIOUS
<1>5. t \in EndRecord /\ Change(e, t, out)
  BY <1>1, <1>2, <1>3, <1>4, ReceivedType, CheckAuthType DEF EffectOK
<1>6. /\ t = [s EXCEPT !.st = t.st, !.isAuth = t.isAuth, !.handler = t.handler]
      /\ s.isAuth => t.isAuth
      /\ t.st \in {"AUTH", "AUTH_2", "AUTH_ACK", "MAP"}
      /\ t.handler = "ext" <=> t.isAuth /\ t.amAuth
  BY <1>2, <1>3, <1>4 DEF CoreProtoCheckAuth, HandOver, Effect, EndRecord
<1>7. out = <<Msg("AUTH_ACK", IF t.isAuth THEN Ok ELSE AuthRefused)>>
  BY <1>2, <1>3, <1>4 DEF CoreProtoCheckAuth, HandOver, Effect, EndRecord
<1>8. /\ version' = version /\ end'[e] = t /\ end'[Peer[e]] = end[Peer[e]]
      /\ phase'[e] # "idle" /\ \A d \in Ends : phase'[d] = "idle" => phase[d] = "idle"
      /\ \A d \in Ends \ {e} : phase'[d] = phase[d]
      /\ Peer[e] \in Ends /\ Peer[Peer[e]] = e /\ (e \in Clients <=> Peer[e] \notin Clients)
  BY ZenonT(40), <1>1, <1>4, PeerAssumption, ClientsAssumption DEF Change, TypeOK, RecvAuth, Receives, Listens
<1> HIDE DEF f
<1>9. \A k \in DOMAIN out : Honest(Peer[e], out[k])'
  BY <1>2, <1>3, <1>6, <1>7, <1>8 DEF Honest, SameVersion, Msg, Ok, AuthRefused
<1>10. EndInv(e)'
  BY <1>2, <1>3, <1>5, <1>6, <1>8 DEF EndInv, SameVersion, Honest, Greeted, EndRecord
<1>11. /\ s.isAuth => t.isAuth
       /\ s.st \in {"EXT_MSG", "BAD"} => t.st = s.st /\ t.flag = s.flag
  BY <1>2, <1>3, <1>6 DEF EndRecord
<1>12. QED
  BY <1>1, <1>5, <1>8, <1>9, <1>10, <1>11, ChangeKeepsIInv

\* What a handler that core_proto_map_to may come into the middle of does to the
\* STATE s of its end.
Does(e, m, s, f) ==
  /\ f.end = [s EXCEPT !.st = f.end.st, !.isAuth = f.end.isAuth, !.amAuth = f.end.amAuth,
                       !.handler = f.end.handler]
  /\ s.isAuth => f.end.isAuth
  /\ s.amAuth => f.end.amAuth
  /\ f.end.handler = "ext" <=> f.end.isAuth /\ f.end.amAuth
  /\ f.end.st # s.st => /\ f.end.st \in Greeted \cup {"MAP"}
                        /\ f.end.st \in Greeted => SameVersion(e)
                        /\ m.type = "AUTH_ACK" => m.arg = Ok
  /\ f.end.isAuth => SameVersion(e)
  /\ f.end.amAuth => end[Peer[e]].isAuth
  /\ \A k \in DOMAIN f.out :
       /\ f.out[k].type \in {"HELLO_ACK", "AUTH", "AUTH_ACK"}
       /\ f.out[k].type = "HELLO_ACK" /\ f.out[k].arg = Ok => SameVersion(e)
       /\ f.out[k].type = "AUTH_ACK" /\ f.out[k].arg = Ok => f.end.isAuth

LEMMA HandlerDoes ==
  ASSUME TypeOK, IInv, NEW e \in Ends, NEW i \in DOMAIN net[e], NEW accept \in BOOLEAN,
         net[e][i].type \in {"HELLO", "HELLO_ACK", "AUTH", "AUTH_ACK"},
         Receives(e, i, net[e][i].type)
  PROVE  /\ Does(e, net[e][i], end[e], Handler(e, net[e][i], accept))
         /\ end[e].handler = "proto" /\ end[e].st \in Greeted \cup {"HELLO_S"}
<1> DEFINE s == end[e]
           m == net[e][i]
           f == Handler(e, m, accept)
<1>1. /\ s \in EndRecord /\ EndInv(e) /\ Honest(e, m) /\ s.handler = "proto"
      /\ s.st \in HandledIn[m.type]
  BY DEF TypeOK, IInv, NetHonest, Receives, Handles, Dispatcher
<1> HIDE DEF s, m
<1>2. EndInv(e)
  BY <1>1
<1>3. /\ s.st \in Greeted => SameVersion(e)
      /\ s.isAuth => SameVersion(e)
      /\ s.amAuth => end[Peer[e]].isAuth
      /\ ~ (s.isAuth /\ s.amAuth)
  BY <1>1 DEF EndInv, s
<1>4. CASE m.type = "HELLO"
  <2>1. f = CoreProtoHello(s, HelloCode(version[e], m.arg)) /\ s.st \in {"HELLO_S", "HELLO_2"}
    BY <1>1, <1>4 DEF Handler, HandledIn, s
  <2>2. /\ f.end = [s EXCEPT !.st = f.end.st]
        /\ f.end.st = s.st \/ (f.end.st \in {"HELLO_ACK_S", "AUTH"} /\ version[e] = m.arg)
    BY <1>1, <2>1 DEF CoreProtoHello, HelloCode, Ok, WrongVersion, Effect, EndRecord
  <2>3. f.out = <<Msg("HELLO_ACK", HelloCode(version[e], m.arg))>>
    BY <2>1 DEF CoreProtoHello, Effect
  <2>4. HelloCode(version[e], m.arg) = Ok => SameVersion(e)
    BY <1>1, <1>4 DEF HelloCode, Ok, WrongVersion, Honest, SameVersion
  <2>5. version[e] = m.arg => SameVersion(e)
    BY <1>1, <1>4 DEF Honest, SameVersion
  <2> HIDE DEF f
  <2>6. /\ f.end.isAuth = s.isAuth /\ f.end.amAuth = s.amAuth /\ f.end.handler = "proto"
        /\ f.end = [s EXCEPT !.st = f.end.st, !.isAuth = f.end.isAuth,
                             !.amAuth = f.end.amAuth, !.handler = f.end.handler]
    BY <1>1, <2>2 DEF EndRecord
  <2>7. \A k \in DOMAIN f.out :
          f.out[k].type = "HELLO_ACK" /\ (f.out[k].arg = Ok => SameVersion(e))
    BY <2>3, <2>4 DEF Msg
  <2>8. QED
    BY <1>1, <1>3, <1>4, <2>1, <2>2, <2>5, <2>6, <2>7 DEF Does, Greeted, s, m, f
<1>5. CASE m.type = "HELLO_ACK"
  <2>1. f = CoreProtoHelloAck(s, m.arg) /\ s.st \in {"HELLO_S", "HELLO_ACK_S"}
    BY <1>1, <1>5 DEF Handler, HandledIn, s
  <2>2. /\ f.end = [s EXCEPT !.st = f.end.st]
        /\ f.end.st = s.st \/ (f.end.st \in {"HELLO_2", "AUTH"} /\ m.arg = Ok)
        /\ f.out = <<Msg("AUTH", Ok)>>
    BY <1>1, <2>1 DEF CoreProtoHelloAck, Effect, EndRecord
  <2>3. m.arg = Ok => SameVersion(e)
    BY <1>1, <1>5 DEF Honest
  <2> HIDE DEF f
  <2>4. /\ f.end.isAuth = s.isAuth /\ f.end.amAuth = s.amAuth /\ f.end.handler = "proto"
        /\ f.end = [s EXCEPT !.st = f.end.st, !.isAuth = f.end.isAuth,
                             !.amAuth = f.end.amAuth, !.handler = f.end.handler]
    BY <1>1, <2>2 DEF EndRecord
  <2>5. \A k \in DOMAIN f.out : f.out[k].type = "AUTH"
    BY <2>2 DEF Msg
  <2>6. QED
    BY <1>1, <1>3, <1>5, <2>1, <2>2, <2>3, <2>4, <2>5 DEF Does, Greeted, s, m, f
<1>6. CASE m.type = "AUTH"
  <2>1. f = CoreProtoCheckAuth(s, accept) /\ s.st \in {"AUTH", "AUTH_2"}
    BY <1>1, <1>6 DEF Handler, HandledIn, s
  <2>2. /\ f.end = [s EXCEPT !.st = f.end.st, !.isAuth = f.end.isAuth, !.handler = f.end.handler]
        /\ s.isAuth => f.end.isAuth
        /\ f.end.st \in {s.st, "AUTH_ACK", "MAP"}
        /\ f.end.handler = "ext" <=> f.end.isAuth /\ f.end.amAuth
        /\ f.out = <<Msg("AUTH_ACK", IF f.end.isAuth THEN Ok ELSE AuthRefused)>>
    <3> DEFINE known == s.isAuth \/ accept
               st == CASE known /\ s.st = "AUTH_2" -> "MAP"
                       [] known /\ s.st = "AUTH"   -> "AUTH_ACK"
                       [] OTHER                    -> s.st
               t == [s EXCEPT !.isAuth = known, !.st = st]
    <3>1. /\ f.end = HandOver(t)
          /\ f.out = <<Msg("AUTH_ACK", IF known THEN Ok ELSE AuthRefused)>>
      BY <2>1 DEF CoreProtoCheckAuth, Effect
    <3>2. st \in {s.st, "AUTH_ACK", "MAP"} /\ (s.isAuth => known) /\ known \in BOOLEAN
      BY <1>1 DEF EndRecord
    <3> HIDE DEF known, st
    <3>3. /\ HandOver(t) = [s EXCEPT !.st = st, !.isAuth = known, !.handler = HandOver(t).handler]
          /\ HandOver(t).handler = "ext" <=> known /\ s.amAuth
      BY <1>1 DEF HandOver, EndRecord
    <3>4. HandOver(t).st = st /\ HandOver(t).isAuth = known /\ HandOver(t).amAuth = s.amAuth
      BY <1>1 DEF HandOver, EndRecord
    <3> HIDE DEF t, f
    <3>5. QED
      BY <3>1, <3>2, <3>3, <3>4
  <2>3. SameVersion(e)
    BY <1>3, <2>1 DEF Greeted
  <2> HIDE DEF f
  <2>4. /\ f.end.amAuth = s.amAuth
        /\ f.end = [s EXCEPT !.st = f.end.st, !.isAuth = f.end.isAuth,
                             !.amAuth = f.end.amAuth, !.handler = f.end.handler]
    BY <1>1, <2>2 DEF EndRecord
  <2>5. \A k \in DOMAIN f.out :
          f.out[k].type = "AUTH_ACK" /\ (f.out[k].arg = Ok => f.end.isAuth)
    BY <2>2 DEF Msg, Ok, AuthRefused
  <2>6. QED
    BY <1>1, <1>3, <1>6, <2>1, <2>2, <2>3, <2>4, <2>5 DEF Does, Greeted, s, m, f
<1>7. CASE m.type = "AUTH_ACK"
  <2>1. f = CoreProtoCheckAuthAck(s, m.arg) /\ s.st \in {"AUTH", "AUTH_ACK"}
    BY <1>1, <1>7 DEF Handler, HandledIn, s
  <2>2. /\ f.end = [s EXCEPT !.st = f.end.st, !.amAuth = f.end.amAuth, !.handler = f.end.handler]
        /\ s.amAuth => f.end.amAuth
        /\ f.end.amAuth => s.amAuth \/ m.arg = Ok
        /\ f.end.st = s.st \/ (f.end.st \in {"AUTH_2", "MAP"} /\ m.arg = Ok)
        /\ f.end.handler = "ext" <=> f.end.isAuth /\ f.end.amAuth
        /\ f.out = <<>>
    <3> DEFINE st == IF m.arg = Ok /\ s.st = "AUTH_ACK" THEN "MAP" ELSE "AUTH_2"
               t == [s EXCEPT !.amAuth = TRUE, !.st = st]
    <3>1. f.end = HandOver(IF m.arg = Ok THEN t ELSE s) /\ f.out = <<>>
      BY <2>1 DEF CoreProtoCheckAuthAck, Effect
    <3>2. st \in {"AUTH_2", "MAP"}
      OBVIOUS
    <3> HIDE DEF st
    <3>3. /\ HandOver(t) = [s EXCEPT !.st = st, !.amAuth = TRUE, !.handler = HandOver(t).handler]
          /\ HandOver(t).handler = "ext" <=> s.isAuth
          /\ HandOver(t).st = st /\ HandOver(t).isAuth = s.isAuth /\ HandOver(t).amAuth = TRUE
      BY <1>1 DEF HandOver, EndRecord
    <3>4. HandOver(s) = s
      BY <1>1, <1>3 DEF HandOver
    <3>5. s = [s EXCEPT !.st = s.st, !.amAuth = s.amAuth, !.handler = s.handler]
      BY <1>1 DEF EndRecord
    <3> HIDE DEF t, f
    <3>6. CASE m.arg = Ok
      BY <3>1, <3>2, <3>3, <3>6
    <3>7. CASE m.arg # Ok
      BY <1>1, <1>3, <3>1, <3>4, <3>5, <3>7
    <3>8. QED
      BY <3>6, <3>7
  <2>3. SameVersion(e)
    BY <1>3, <2>1 DEF Greeted
  <2>4. m.arg = Ok => end[Peer[e]].isAuth
    BY <1>1, <1>7 DEF Honest
  <2> HIDE DEF f
  <2>5. /\ f.end.isAuth = s.isAuth
        /\ f.end = [s EXCEPT !.st = f.end.st, !.isAuth = f.end.isAuth,
                             !.amAuth = f.end.amAuth, !.handler = f.end.handler]
    BY <1>1, <2>2 DEF EndRecord
  <2>6. QED
    BY <1>1, <1>3, <1>7, <2>1, <2>2, <2>3, <2>4, <2>5 DEF Does, Greeted, s, m, f
<1>8. m.type \in {"HELLO", "HELLO_ACK", "AUTH", "AUTH_ACK"}
  BY DEF m
<1>9. QED
  BY <1>4, <1>5, <1>6, <1>7, <1>8

LEMMA OvertakenKeeps ==
  ASSUME TypeOK, IInv, NEW e \in Ends, NEW i \in DOMAIN net[e], NEW accept \in BOOLEAN,
         RecvOvertaken(e, i, accept)
  PROVE  IInv'
<1>1. PICK f, t, out :
        /\ f = Handler(e, net[e][i], accept)
        /\ TypeOK' /\ Change(e, t, out)
        /\ Overtaken(end[e], f, t, out)
  BY OvertakenChange
<1> DEFINE s == end[e]
           m == net[e][i]
<1>2. /\ e \in Clients /\ phase[e] = "up" /\ s.late = "none" /\ s \in EndRecord
      /\ m.type \in {"HELLO", "HELLO_ACK", "AUTH", "AUTH_ACK"} /\ Receives(e, i, m.type)
      /\ phase' = IF m.type = "AUTH_ACK" /\ m.arg # Ok
                  THEN [phase EXCEPT ![e] = "closing"] ELSE phase
  BY DEF RecvOvertaken, Receives, Listens, TypeOK
<1>3. Does(e, m, s, f) /\ s.st \in Greeted \cup {"HELLO_S"}
  BY <1>1, <1>2, HandlerDoes
<1>4. /\ version' = version /\ end'[e] = t /\ end'[Peer[e]] = end[Peer[e]]
      /\ Peer[e] \in Ends /\ Peer[Peer[e]] = e /\ Peer[e] \notin Clients
  BY ZenonT(40), <1>1, <1>2, PeerAssumption, ClientsAssumption DEF Change, TypeOK
<1>5. /\ \A d \in Ends : phase'[d] = "idle" => phase[d] = "idle"
      /\ phase'[e] # "idle" /\ \A d \in Ends \ {e} : phase'[d] = phase[d]
      /\ ~ (m.type = "AUTH_ACK" /\ m.arg # Ok) => phase'[e] = "up"
  BY <1>2 DEF TypeOK
<1> HIDE DEF s, m
<1>6. /\ t.isAuth = f.end.isAuth /\ t.amAuth = f.end.amAuth /\ t.handler = f.end.handler
      /\ t.lep = TRUE /\ t.st = "MAP_ACK" /\ f.end.late = "none"
  <2>1. f.end \in EndRecord
    BY <1>1 DEF EffectOK, Overtaken
  <2>2. f.end.late = s.late
    BY <1>2, <1>3 DEF EndRecord, Does
  <2>3. QED
    BY <1>1, <1>2, <2>1, <2>2 DEF EndRecord, Overtaken
<1>7. \A k \in DOMAIN out : Honest(Peer[e], out[k])'
  <2> SUFFICES ASSUME NEW k \in DOMAIN out
               PROVE  Honest(Peer[e], out[k])'
    OBVIOUS
  <2>1. CASE out[k] = Msg("MAP", Ok)
    BY <1>4, <2>1 DEF Honest, SameVersion, Msg
  <2>2. ASSUME NEW n \in DOMAIN f.out, out[k] = f.out[n]
        PROVE  Honest(Peer[e], out[k])'
    BY <1>3, <1>4, <1>6, <2>2 DEF Honest, SameVersion, Does
  <2>3. QED
    BY <1>1, <2>1, <2>2 DEF Overtaken
<1>8. t.late # "none" =>
        /\ phase'[e] = "up" /\ t.late \in Greeted \cup {"MAP"}
        /\ t.late \in Greeted => SameVersion(e)
  BY <1>1, <1>3, <1>5, <1>6 DEF Does, Overtaken, s
<1>9. EndInv(e)'
  BY <1>2, <1>3, <1>4, <1>5, <1>6, <1>8 DEF EndInv, SameVersion, Greeted, Does
<1>10. /\ s.isAuth => t.isAuth
       /\ s.st \notin {"EXT_MSG", "BAD"}
  BY <1>3, <1>6 DEF Does, Greeted
<1>11. QED
  BY <1>1, <1>4, <1>5, <1>7, <1>9, <1>10, ChangeKeepsIInv DEF Overtaken, s

\* A handler that writes the state late writes one it may have written in time.
LEMMA LateKeeps ==
  ASSUME TypeOK, IInv, NEW e \in Ends, LateWrite(e)
  PROVE  IInv'
<1>1. /\ end[e] \in EndRecord /\ EndInv(e) /\ end[e].late # "none" /\ phase' = phase
  BY DEF TypeOK, IInv, LateWrite
<1>2. PICK t, out : /\ t = [end[e] EXCEPT !.st = end[e].late, !.late = "none"] /\ out = <<>>
                    /\ TypeOK' /\ Change(e, t, out)
  BY LateChange
<1>3. t \in EndRecord
  BY <1>1, <1>2 DEF EndRecord
<1>4. /\ version' = version /\ end'[e] = t /\ end'[Peer[e]] = end[Peer[e]]
  BY <1>2, PeerAssumption DEF Change, TypeOK
<1>5. /\ t.isAuth = end[e].isAuth /\ t.amAuth = end[e].amAuth /\ t.handler = end[e].handler
      /\ t.lep = end[e].lep /\ t.late = "none" /\ t.st = end[e].late
  BY <1>1, <1>2 DEF EndRecord
<1>6. /\ phase[e] = "up" /\ t.lep /\ end[e].st = "MAP_ACK"
      /\ t.st \in Greeted \cup {"MAP"} /\ (t.st \in Greeted => SameVersion(e))
  BY <1>1, <1>5 DEF EndInv
<1>7. EndInv(e)'
  BY <1>1, <1>4, <1>5, <1>6 DEF EndInv, SameVersion, Greeted
<1>8. \A k \in DOMAIN out : Honest(Peer[e], out[k])'
  BY <1>2
<1>9. QED
  BY <1>1, <1>2, <1>3, <1>4, <1>5, <1>6, <1>7, <1>8, ChangeKeepsIInv

LEMMA AuthAckKeeps ==
  ASSUME TypeOK, IInv, NEW e \in Ends, NEW i \in DOMAIN net[e],
         RecvAuthAck(e, i)
  PROVE  IInv'
<1> DEFINE s == end[e]
           m == net[e][i]
           f == CoreProtoCheckAuthAck(end[e], net[e][i].arg)
<1>1. TypeOK' /\ Change(e, f.end, f.out)
  BY AuthAckChange
<1>2. s \in EndRecord /\ m \in Message /\ EndInv(e) /\ Honest(e, m)
  BY ReceivedType DEF IInv, NetHonest
<1>3. /\ s.handler = "proto" /\ s.st \in {"AUTH", "AUTH_ACK"} /\ m.type = "AUTH_ACK"
      /\ phase[e] = "up" /\ s.late = "none"
  BY DEF RecvAuthAck, Receives, Listens, Handles, HandledIn, Dispatcher
<1>4. PICK t, out : t = f.end /\ out = f.out
  OBVIOUS
<1>5. t \in EndRecord /\ Change(e, t, out)
  BY <1>1, <1>2, <1>3, <1>4, ReceivedType, CheckAuthAckType DEF EffectOK
<1>6. /\ t = [s EXCEPT !.st = t.st, !.amAuth = t.amAuth, !.handler = t.handler]
      /\ t.amAuth = s.amAuth \/ m.arg = Ok
      /\ t.st \in {"AUTH", "AUTH_ACK", "AUTH_2", "MAP"}
      /\ t.handler = "ext" <=> t.isAuth /\ t.amAuth
  BY <1>2, <1>3, <1>4 DEF CoreProtoCheckAuthAck, HandOver, Effect, EndRecord
<1>7. out = <<>>
  BY <1>2, <1>3, <1>4 DEF CoreProtoCheckAuthAck, HandOver, Effect, EndRecord
<1>8. /\ version' = version /\ end'[e] = t /\ end'[Peer[e]] = end[Peer[e]]
      /\ phase'[e] # "idle" /\ \A d \in Ends : phase'[d] = "idle" => phase[d] = "idle"
      /\ \A d \in Ends \ {e} : phase'[d] = phase[d]
      /\ Peer[e] \in Ends /\ Peer[Peer[e]] = e /\ (e \in Clients <=> Peer[e] \notin Clients)
  BY ZenonT(40), <1>1, <1>4, PeerAssumption, ClientsAssumption DEF Change, TypeOK, RecvAuthAck, Receives, Listens
<1> HIDE DEF f
<1>9. \A k \in DOMAIN out : Honest(Peer[e], out[k])'
  BY <1>2, <1>3, <1>6, <1>7, <1>8 DEF Honest, SameVersion
<1>10. EndInv(e)'
  BY <1>2, <1>3, <1>5, <1>6, <1>8 DEF EndInv, SameVersion, Honest, Greeted, EndRecord
<1>11. /\ s.isAuth => t.isAuth
       /\ s.st \in {"EXT_MSG", "BAD"} => t.st = s.st /\ t.flag = s.flag
  BY <1>2, <1>3, <1>6 DEF EndRecord
<1>12. QED
  BY <1>1, <1>5, <1>8, <1>9, <1>10, <1>11, ChangeKeepsIInv

LEMMA MapKeeps ==
  ASSUME TypeOK, IInv, NEW e \in Ends, NEW i \in DOMAIN net[e], NEW found \in BOOLEAN,
         RecvMap(e, i, found)
  PROVE  IInv'
<1> DEFINE s == end[e]
           m == net[e][i]
           f == CoreProtoMap(end[e], found)
<1>1. TypeOK' /\ Change(e, f.end, f.out)
  BY MapChange
<1>2. s \in EndRecord /\ m \in Message /\ EndInv(e) /\ Honest(e, m)
  BY ReceivedType DEF IInv, NetHonest
<1>3. /\ s.handler = "ext" /\ s.st = "MAP" /\ m.type = "MAP"
      /\ phase[e] = "up" /\ s.late = "none"
  BY DEF RecvMap, Receives, Listens, Handles, HandledIn, Dispatcher
<1>4. PICK t, out : t = f.end /\ out = f.out
  OBVIOUS
<1>5. t \in EndRecord /\ Change(e, t, out)
  BY <1>1, <1>2, <1>3, <1>4, ReceivedType, MapType DEF EffectOK
<1>6. /\ t = [s EXCEPT !.st = t.st, !.lep = t.lep, !.flag = t.flag]
      /\ IF found THEN t.st = "EXT_MSG" ELSE t.st = "BAD" /\ t.flag = EP_NO_EXIST
  BY <1>2, <1>3, <1>4 DEF CoreProtoMap, Effect, EndRecord
<1>7. out = <<Msg("MAP_ACK", IF found THEN Ok ELSE EP_NO_EXIST)>>
  BY <1>2, <1>3, <1>4 DEF CoreProtoMap, Effect, EndRecord
<1>8. /\ version' = version /\ end'[e] = t /\ end'[Peer[e]] = end[Peer[e]]
      /\ phase'[e] # "idle" /\ \A d \in Ends : phase'[d] = "idle" => phase[d] = "idle"
      /\ \A d \in Ends \ {e} : phase'[d] = phase[d]
      /\ Peer[e] \in Ends /\ Peer[Peer[e]] = e /\ (e \in Clients <=> Peer[e] \notin Clients)
  BY ZenonT(40), <1>1, <1>4, PeerAssumption, ClientsAssumption DEF Change, TypeOK, RecvMap, Receives, Listens
<1> HIDE DEF f
<1>9. \A k \in DOMAIN out : Honest(Peer[e], out[k])'
  BY <1>2, <1>3, <1>6, <1>7, <1>8 DEF Honest, SameVersion, Msg, Ok, EP_NO_EXIST
<1>10. EndInv(e)'
  BY <1>2, <1>3, <1>5, <1>6, <1>8 DEF EndInv, SameVersion, Honest, Greeted, EndRecord
<1>11. /\ s.isAuth => t.isAuth
       /\ s.st \in {"EXT_MSG", "BAD"} => t.st = s.st /\ t.flag = s.flag
  BY <1>2, <1>3, <1>6 DEF EndRecord
<1>12. QED
  BY <1>1, <1>5, <1>8, <1>9, <1>10, <1>11, ChangeKeepsIInv

LEMMA MapAckKeeps ==
  ASSUME TypeOK, IInv, NEW e \in Ends, NEW i \in DOMAIN net[e],
         RecvMapAck(e, i)
  PROVE  IInv'
<1> DEFINE s == end[e]
           m == net[e][i]
           f == CoreProtoMapAck(end[e], net[e][i].arg)
<1>1. TypeOK' /\ Change(e, f.end, f.out)
  BY MapAckChange
<1>2. s \in EndRecord /\ m \in Message /\ EndInv(e) /\ Honest(e, m)
  BY ReceivedType DEF IInv, NetHonest
<1>3. /\ s.handler = "ext" /\ s.st = "MAP_ACK" /\ m.type = "MAP_ACK"
      /\ phase[e] = "up" /\ s.late = "none"
  BY DEF RecvMapAck, Receives, Listens, Handles, HandledIn, Dispatcher
<1>4. PICK t, out : t = f.end /\ out = f.out
  OBVIOUS
<1>5. t \in EndRecord /\ Change(e, t, out)
  BY <1>1, <1>2, <1>3, <1>4, ReceivedType, MapAckType DEF EffectOK
<1>6. /\ t = [s EXCEPT !.st = t.st, !.flag = t.flag]
      /\ \/ t.st = "EXT_MSG" /\ m.arg = Ok /\ s.lep
         \/ t.st = "BAD" /\ t.flag = m.arg /\ m.arg # Ok
         \/ t = s
  BY <1>2, <1>3, <1>4 DEF CoreProtoMapAck, Effect, EndRecord
<1>7. out = <<>>
  BY <1>2, <1>3, <1>4 DEF CoreProtoMapAck, Effect, EndRecord
<1>8. /\ version' = version /\ end'[e] = t /\ end'[Peer[e]] = end[Peer[e]]
      /\ phase'[e] # "idle" /\ \A d \in Ends : phase'[d] = "idle" => phase[d] = "idle"
      /\ \A d \in Ends \ {e} : phase'[d] = phase[d]
      /\ Peer[e] \in Ends /\ Peer[Peer[e]] = e /\ (e \in Clients <=> Peer[e] \notin Clients)
  BY <1>1, <1>4, PeerAssumption, ClientsAssumption DEF Change, TypeOK, RecvMapAck, Receives, Listens
<1> HIDE DEF f
<1>9. \A k \in DOMAIN out : Honest(Peer[e], out[k])'
  BY <1>2, <1>3, <1>6, <1>7, <1>8 DEF Honest, SameVersion
<1>10. EndInv(e)'
  <2>1. /\ t.isAuth = s.isAuth /\ t.amAuth = s.amAuth
        /\ t.lep = s.lep /\ t.handler = s.handler /\ t.late = "none"
    BY <1>2, <1>3, <1>6 DEF EndRecord
  <2>2. CASE t.st = "EXT_MSG" /\ m.arg = Ok /\ s.lep
    BY <1>2, <1>3, <1>8, <2>1, <2>2 DEF EndInv, SameVersion, Honest, Greeted
  <2>3. CASE t.st = "BAD" /\ t.flag = m.arg /\ m.arg # Ok
    <3>1. e \in Clients => s.lep /\ end[Peer[e]].st = "BAD" /\ end[Peer[e]].flag = m.arg
      BY <1>2, <1>3, <2>3 DEF EndInv, Honest
    <3>2. QED
      BY <1>2, <1>3, <1>8, <2>1, <2>3, <3>1 DEF EndInv, SameVersion, Greeted
  <2>4. CASE t = s
    BY <1>2, <1>3, <1>8, <2>4 DEF EndInv, SameVersion
  <2>5. QED
    BY <1>6, <2>2, <2>3, <2>4
<1>11. /\ s.isAuth => t.isAuth
       /\ s.st \in {"EXT_MSG", "BAD"} => t.st = s.st /\ t.flag = s.flag
  BY <1>2, <1>3, <1>6 DEF EndRecord
<1>12. QED
  BY <1>1, <1>5, <1>8, <1>9, <1>10, <1>11, ChangeKeepsIInv

LEMMA ConnectKeeps ==
  ASSUME TypeOK, IInv, NEW e \in Ends, Connect(e)
  PROVE  IInv'
<1>1. TypeOK' /\ Change(e, NewEnd, <<Msg("HELLO", version[e])>>)
  BY ConnectChange
<1>2. PICK out : out = <<Msg("HELLO", version[e])>>
  OBVIOUS
<1>3. end[e] = NewEnd
  BY DEF Connect, IInv, EndInv
<1>4. /\ version' = version /\ end'[e] = NewEnd
      /\ phase'[e] # "idle" /\ \A d \in Ends : phase'[d] = "idle" => phase[d] = "idle"
      /\ \A d \in Ends \ {e} : phase'[d] = phase[d]
      /\ Peer[e] \in Ends /\ Peer[Peer[e]] = e
  BY <1>1, PeerAssumption DEF Change, TypeOK, Connect
<1>5. \A k \in DOMAIN out : Honest(Peer[e], out[k])'
  BY <1>2, <1>4 DEF Honest, SameVersion, Msg
<1>6. EndInv(e)'
  BY <1>4 DEF EndInv, NewEnd, Greeted
<1>7. QED
  BY <1>1, <1>2, <1>3, <1>4, <1>5, <1>6, NewEndType, ChangeKeepsIInv

\* core_proto_map_to keeps the invariant in whatever state it finds the STATE,
\* but only the first time.
LEMMA SendMapKeeps ==
  ASSUME TypeOK, IInv, NEW e \in Clients, ~ end[e].lep, SendMap(e)
  PROVE  IInv'
<1> DEFINE s == end[e]
           f == CoreProtoMapTo(s)
<1>1. TypeOK' /\ Change(e, f.end, f.out)
  BY SendMapChange, ClientsAssumption
<1>2. s \in EndRecord /\ EndInv(e) /\ e \in Ends /\ ~ s.lep /\ phase[e] # "idle"
  BY ClientsAssumption DEF TypeOK, IInv, SendMap
<1>3. PICK t, out : t = f.end /\ out = f.out
  OBVIOUS
<1>4. t \in EndRecord /\ Change(e, t, out)
  BY <1>1, <1>2, <1>3, MapToType DEF EffectOK
<1>5. t = [s EXCEPT !.lep = TRUE, !.st = "MAP_ACK"] /\ out = <<Msg("MAP", Ok)>>
  BY <1>3 DEF CoreProtoMapTo, Effect
<1> HIDE DEF f
<1>6. /\ version' = version /\ end'[e] = t /\ end'[Peer[e]] = end[Peer[e]]
      /\ phase' = phase /\ Peer[e] \in Ends /\ Peer[Peer[e]] = e /\ Peer[e] \notin Clients
  <2>1. Peer[e] \in Ends /\ Peer[e] # e /\ Peer[Peer[e]] = e /\ Peer[e] \notin Clients
    BY <1>2, PeerAssumption, ClientsAssumption
  <2>2. phase' = phase
    BY DEF SendMap
  <2>3. QED
    BY <1>2, <1>4, <2>1, <2>2 DEF Change, TypeOK
<1>7. \A k \in DOMAIN out : Honest(Peer[e], out[k])'
  BY <1>5, <1>6 DEF Honest, SameVersion, Msg
<1>8. s.st \notin {"EXT_MSG", "BAD"} /\ s.late = "none"
  BY <1>2 DEF EndInv
<1>9. /\ t.isAuth = s.isAuth /\ t.amAuth = s.amAuth /\ t.handler = s.handler
      /\ t.lep = TRUE /\ t.st = "MAP_ACK" /\ t.late = s.late
  BY <1>2, <1>5 DEF EndRecord
<1>10. EndInv(e)'
  BY <1>2, <1>6, <1>8, <1>9 DEF EndInv, SameVersion, Greeted
<1>11. QED
  BY <1>1, <1>2, <1>4, <1>6, <1>7, <1>8, <1>9, <1>10, ChangeKeepsIInv

LEMMA MapToKeeps ==
  ASSUME TypeOK, IInv, NEW e \in Ends, MapTo(e)
  PROVE  IInv'
BY SendMapKeeps DEF MapTo

\* A step that leaves every STATE alone and sends nothing.
LEMMA IdleKeeps ==
  ASSUME TypeOK, TypeOK', IInv, NEW e \in Ends, Change(e, end[e], <<>>),
         phase'[e] = phase[e] \/ (phase'[e] # "idle" /\ end[e].late = "none"),
         \A d \in Ends \ {e} : phase'[d] = phase[d]
  PROVE  IInv'
<1>1. PICK t, out : t = end[e] /\ out = <<>>
  OBVIOUS
<1>2. t \in EndRecord /\ EndInv(e) /\ Change(e, t, out)
  BY <1>1 DEF TypeOK, IInv
<1>3. version' = version /\ end'[e] = end[e] /\ end'[Peer[e]] = end[Peer[e]]
  BY PeerAssumption DEF Change, TypeOK
<1>4. EndInv(e)'
  BY <1>2, <1>3 DEF EndInv, SameVersion
<1>5. \A k \in DOMAIN out : Honest(Peer[e], out[k])'
  BY <1>1
<1>6. QED
  BY <1>1, <1>2, <1>4, <1>5, ChangeKeepsIInv

LEMMA IgnoreKeeps ==
  ASSUME TypeOK, IInv, NEW e \in Ends, NEW i \in DOMAIN net[e], Ignore(e, i)
  PROVE  IInv'
<1>1. HandOver(end[e]) = end[e]
  BY DEF HandOver, IInv, EndInv, TypeOK, EndRecord
<1>2. TypeOK' /\ Change(e, end[e], <<>>)
  BY <1>1, IgnoreChange
<1>3. phase' = phase
  BY DEF Ignore
<1>4. QED
  BY <1>2, <1>3, IdleKeeps

LEMMA QuietKeeps ==
  ASSUME TypeOK, IInv, NEW e \in Ends, Disconnect(e) \/ Break(e) \/ Lose(e) \/ Duplicate(e)
  PROVE  IInv'
<1>1. TypeOK' /\ Change(e, end[e], <<>>)
  BY QuietChange
<1>2. /\ phase'[e] = phase[e] \/ (phase'[e] # "idle" /\ end[e].late = "none")
      /\ \A d \in Ends \ {e} : phase'[d] = phase[d]
  BY DEF Disconnect, Break, Freed, Lose, Duplicate, Listens, TypeOK, IInv, EndInv
<1>3. QED
  BY <1>1, <1>2, IdleKeeps

LEMMA InvariantInit == Init => IInv
<1> SUFFICES ASSUME Init
             PROVE  IInv
  OBVIOUS
<1>1. NetHonest
  BY DEF Init, NetHonest
<1>2. ASSUME NEW e \in Ends
      PROVE  EndInv(e)
  BY PeerAssumption DEF Init, EndInv, NewEnd, Greeted
<1>3. QED
  BY <1>1, <1>2 DEF IInv

LEMMA InvariantStep == TypeOK /\ IInv /\ [Next]_vars => IInv'
<1> SUFFICES ASSUME TypeOK, IInv, [Next]_vars
             PROVE  IInv'
  OBVIOUS
<1>1. CASE UNCHANGED vars
  BY <1>1 DEF vars, IInv, NetHonest, Honest, EndInv, SameVersion
<1>2. ASSUME NEW e \in Ends, Connect(e)
      PROVE  IInv'
  BY <1>2, ConnectKeeps
<1>3. ASSUME NEW e \in Ends, Receive(e)
      PROVE  IInv'
  <2>1. PICK i \in DOMAIN net[e] :
          \/ RecvHello(e, i) \/ RecvHelloAck(e, i)
          \/ \E accept \in Verdicts(e) : RecvAuth(e, i, accept)
          \/ RecvAuthAck(e, i)
          \/ \E found \in BOOLEAN : RecvMap(e, i, found)
          \/ RecvMapAck(e, i) \/ Ignore(e, i)
    BY <1>3 DEF Receive
  <2>2. CASE RecvHello(e, i)
    BY <2>2, HelloKeeps
  <2>3. CASE RecvHelloAck(e, i)
    BY <2>3, HelloAckKeeps
  <2>4. CASE \E accept \in Verdicts(e) : RecvAuth(e, i, accept)
    BY <2>4, AuthKeeps DEF Verdicts
  <2>5. CASE RecvAuthAck(e, i)
    BY <2>5, AuthAckKeeps
  <2>6. CASE \E found \in BOOLEAN : RecvMap(e, i, found)
    BY <2>6, MapKeeps
  <2>7. CASE RecvMapAck(e, i)
    BY <2>7, MapAckKeeps
  <2>8. CASE Ignore(e, i)
    BY <2>8, IgnoreKeeps
  <2>9. QED
    BY <2>1, <2>2, <2>3, <2>4, <2>5, <2>6, <2>7, <2>8
<1>4. ASSUME NEW e \in Ends, MapTo(e)
      PROVE  IInv'
  BY <1>4, MapToKeeps
<1>5. ASSUME NEW e \in Ends, Disconnect(e) \/ Break(e) \/ Lose(e) \/ Duplicate(e)
      PROVE  IInv'
  BY <1>5, QuietKeeps
<1>6. ASSUME NEW e \in Ends, Overtake(e)
      PROVE  IInv'
  BY <1>6, SomeOvertaken, OvertakenKeeps
<1>7. ASSUME NEW e \in Ends, LateWrite(e)
      PROVE  IInv'
  BY <1>7, LateKeeps
<1>8. QED
  BY <1>1, <1>2, <1>3, <1>4, <1>5, <1>6, <1>7 DEF Next

\* No message in flight and no end claims of its peer what is not so, on any
\* transport, for any number of connections, however early core_map sends its
\* MAP.
THEOREM InvariantCorrect == Spec => [](TypeOK /\ IInv)
<1>1. Init => TypeOK /\ IInv
  BY TypeInit, InvariantInit
<1>2. TypeOK /\ IInv /\ [Next]_vars => (TypeOK /\ IInv)'
  BY TypeStep, InvariantStep
<1>3. QED
  BY <1>1, <1>2, PTL DEF Spec

-----------------------------------------------------------------------------
(* The safety properties. *)

\* A connection takes MAP and endpoint traffic only when each of its ends has
\* accepted the other's credentials.
THEOREM MutuallyAuthenticated == Spec => []MutualAuthentication
<1>1. IInv => MutualAuthentication
  BY PeerAssumption DEF IInv, EndInv, MutualAuthentication
<1>2. QED
  BY <1>1, InvariantCorrect, PTL

\* Cores of different versions never authenticate each other.
THEOREM VersionsGated == Spec => []VersionGate
<1>1. IInv => VersionGate
  BY DEF IInv, EndInv, VersionGate, SameVersion
<1>2. QED
  BY <1>1, InvariantCorrect, PTL

\* A client is mapped only to a server that is mapped, and reports the reason
\* its server had for failing.
THEOREM ClientsAgree == Spec => []ClientAgreesWithServer
<1>1. IInv => ClientAgreesWithServer
  BY ClientsAssumption DEF IInv, EndInv, ClientAgreesWithServer
<1>2. QED
  BY <1>1, InvariantCorrect, PTL

-----------------------------------------------------------------------------
(* No end goes back, but by a late write. *)

Further(s, t) ==
  /\ Rank(s.st) <= Rank(t.st) \/ (s.st = "MAP_ACK" /\ t.st = s.late)
  /\ t.late \notin {"none", s.late} => ~ s.lep /\ t.lep /\ Rank(s.st) < Rank(t.late)
  /\ Rank(s.st) = 6 => t.st = s.st
  /\ s.isAuth => t.isAuth
  /\ s.amAuth => t.amAuth

Onward == \A e \in Ends : Further(end[e], end'[e])

LEMMA FurtherSame == \A s \in EndRecord : Further(s, s)
BY DEF Further, Rank, EndRecord, ConnStates

LEMMA OneFurther ==
  ASSUME TypeOK, NEW e \in Ends, NEW t, NEW out, Change(e, t, out), Further(end[e], t)
  PROVE  Onward
<1>1. end'[e] = t /\ \A d \in Ends \ {e} : end'[d] = end[d] /\ end[d] \in EndRecord
  BY DEF Change, TypeOK
<1>2. QED
  BY <1>1, FurtherSame DEF Onward

LEMMA HandOverFurther ==
  ASSUME NEW s \in EndRecord
  PROVE  /\ HandOver(s).st = s.st /\ HandOver(s).isAuth = s.isAuth /\ HandOver(s).amAuth = s.amAuth
         /\ HandOver(s).late = s.late
         /\ Further(s, HandOver(s))
<1>1. /\ HandOver(s).st = s.st /\ HandOver(s).isAuth = s.isAuth /\ HandOver(s).amAuth = s.amAuth
      /\ HandOver(s).late = s.late
  BY DEF HandOver, EndRecord
<1>2. QED
  BY <1>1, FurtherSame DEF Further

\* Each handler, on an end in a state in which the dispatch calls it.
LEMMA HandlersFurther ==
  ASSUME NEW s \in EndRecord, NEW code \in Codes, NEW ok \in BOOLEAN
  PROVE  /\ s.st \in HandledIn["HELLO"] => Further(s, CoreProtoHello(s, code).end)
         /\ s.st \in HandledIn["HELLO_ACK"] => Further(s, CoreProtoHelloAck(s, code).end)
         /\ s.st \in HandledIn["AUTH"] => Further(s, CoreProtoCheckAuth(s, ok).end)
         /\ s.st \in HandledIn["AUTH_ACK"] => Further(s, CoreProtoCheckAuthAck(s, code).end)
         /\ s.st \in HandledIn["MAP"] => Further(s, CoreProtoMap(s, ok).end)
         /\ s.st \in HandledIn["MAP_ACK"] => Further(s, CoreProtoMapAck(s, code).end)
         /\ s.st \notin {"EXT_MSG", "BAD"} => Further(s, CoreProtoMapTo(s).end)
<1>1. s.st \in HandledIn["HELLO"] => Further(s, CoreProtoHello(s, code).end)
  BY DEF CoreProtoHello, Effect, HandledIn, EndRecord, Further, Rank
<1>2. s.st \in HandledIn["HELLO_ACK"] => Further(s, CoreProtoHelloAck(s, code).end)
  BY DEF CoreProtoHelloAck, Effect, HandledIn, EndRecord, Further, Rank
<1>3. ASSUME s.st \in HandledIn["AUTH"] PROVE Further(s, CoreProtoCheckAuth(s, ok).end)
  <2> DEFINE known == s.isAuth \/ ok
             st == CASE known /\ s.st = "AUTH_2" -> "MAP"
                     [] known /\ s.st = "AUTH"   -> "AUTH_ACK"
                     [] OTHER                    -> s.st
             t == [s EXCEPT !.isAuth = known, !.st = st]
  <2>1. s.st \in {"AUTH", "AUTH_2"}
    BY <1>3 DEF HandledIn
  <2>2. st \in ConnStates /\ t \in EndRecord /\ t.st = st /\ t.isAuth = known /\ t.amAuth = s.amAuth /\ t.late = s.late
    BY <2>1 DEF EndRecord, ConnStates
  <2>3. CoreProtoCheckAuth(s, ok).end = HandOver(t)
    BY <2>1 DEF CoreProtoCheckAuth, Effect
  <2>4. Rank(s.st) <= Rank(st) /\ Rank(s.st) # 6
    BY <2>1 DEF Rank
  <2> HIDE DEF t, st, known
  <2>5. /\ HandOver(t).st = st /\ HandOver(t).isAuth = known /\ HandOver(t).amAuth = s.amAuth
        /\ HandOver(t).late = s.late
    BY <2>2, HandOverFurther
  <2>6. QED
    BY <2>3, <2>4, <2>5 DEF Further, known
<1>4. ASSUME s.st \in HandledIn["AUTH_ACK"] PROVE Further(s, CoreProtoCheckAuthAck(s, code).end)
  <2> DEFINE st == IF code = Ok /\ s.st = "AUTH_ACK" THEN "MAP" ELSE "AUTH_2"
             t == [s EXCEPT !.amAuth = TRUE, !.st = st]
  <2>1. s.st \in {"AUTH", "AUTH_ACK"}
    BY <1>4 DEF HandledIn
  <2>2. t \in EndRecord /\ t.st = st /\ t.amAuth = TRUE /\ t.isAuth = s.isAuth /\ t.late = s.late
    BY DEF EndRecord, ConnStates
  <2>3. CoreProtoCheckAuthAck(s, code).end = HandOver(IF code = Ok THEN t ELSE s)
    BY DEF CoreProtoCheckAuthAck, Effect
  <2>4. code = Ok => Rank(s.st) <= Rank(st) /\ Rank(s.st) # 6
    BY <2>1 DEF Rank
  <2> HIDE DEF t, st
  <2>5. /\ HandOver(t).st = st /\ HandOver(t).isAuth = s.isAuth /\ HandOver(t).amAuth = TRUE
        /\ HandOver(t).late = s.late
    BY <2>2, HandOverFurther
  <2>6. QED
    BY <2>3, <2>4, <2>5, HandOverFurther DEF Further
<1>5. s.st \in HandledIn["MAP"] => Further(s, CoreProtoMap(s, ok).end)
  BY DEF CoreProtoMap, Effect, HandledIn, EndRecord, Further, Rank
<1>6. s.st \in HandledIn["MAP_ACK"] => Further(s, CoreProtoMapAck(s, code).end)
  BY DEF CoreProtoMapAck, Effect, HandledIn, EndRecord, Further, Rank
<1>7. ASSUME s.st \notin {"EXT_MSG", "BAD"} PROVE Further(s, CoreProtoMapTo(s).end)
  <2> DEFINE t == [s EXCEPT !.lep = TRUE, !.st = "MAP_ACK"]
  <2>1. CoreProtoMapTo(s).end = t
    BY DEF CoreProtoMapTo, Effect
  <2>2. t.st = "MAP_ACK" /\ t.isAuth = s.isAuth /\ t.amAuth = s.amAuth /\ t.late = s.late
    BY DEF EndRecord
  <2>3. s.st \in {"HELLO_S", "HELLO_ACK_S", "HELLO_2", "AUTH", "AUTH_ACK", "AUTH_2", "MAP", "MAP_ACK"}
    BY <1>7 DEF EndRecord, ConnStates
  <2>4. Rank(s.st) <= 5 /\ Rank(s.st) # 6
    BY <2>3 DEF Rank
  <2>5. Rank("MAP_ACK") = 5
    BY DEF Rank
  <2> HIDE DEF t
  <2>6. QED
    BY <2>1, <2>2, <2>4, <2>5 DEF Further
<1>8. QED
  BY <1>1, <1>2, <1>3, <1>4, <1>5, <1>6, <1>7

\* A handler that core_proto_map_to may come into the middle of goes on, or leaves
\* the state alone.
LEMMA HandlerRises ==
  ASSUME TypeOK, NEW e \in Ends, NEW i \in DOMAIN net[e], NEW accept \in BOOLEAN,
         net[e][i].type \in {"HELLO", "HELLO_ACK", "AUTH", "AUTH_ACK"},
         Receives(e, i, net[e][i].type),
         Handler(e, net[e][i], accept).end.st # end[e].st
  PROVE  Rank(end[e].st) < Rank(Handler(e, net[e][i], accept).end.st)
<1> DEFINE s == end[e]
           m == net[e][i]
           f == Handler(e, m, accept)
<1>1. s \in EndRecord /\ s.st \in HandledIn[m.type] /\ f.end.st # s.st
  BY DEF TypeOK, Receives, Handles
<1> HIDE DEF s, m
<1>2. CASE m.type = "HELLO"
  <2>1. s.st \in {"HELLO_S", "HELLO_2"}
    BY <1>1, <1>2 DEF HandledIn
  <2>2. f.end.st = IF s.st = "HELLO_2" THEN "AUTH" ELSE "HELLO_ACK_S"
    BY <1>1, <1>2 DEF Handler, CoreProtoHello, Effect, EndRecord, s
  <2>3. QED
    BY <2>1, <2>2 DEF Rank, s, m
<1>3. CASE m.type = "HELLO_ACK"
  <2>1. s.st \in {"HELLO_S", "HELLO_ACK_S"}
    BY <1>1, <1>3 DEF HandledIn
  <2>2. f.end.st = IF s.st = "HELLO_ACK_S" THEN "AUTH" ELSE "HELLO_2"
    BY <1>1, <1>3 DEF Handler, CoreProtoHelloAck, Effect, EndRecord, s
  <2>3. QED
    BY <2>1, <2>2 DEF Rank, s, m
<1>4. CASE m.type = "AUTH"
  <2>1. s.st \in {"AUTH", "AUTH_2"}
    BY <1>1, <1>4 DEF HandledIn
  <2>2. f.end.st = IF s.st = "AUTH_2" THEN "MAP" ELSE "AUTH_ACK"
    BY <1>1, <1>4, <2>1 DEF Handler, CoreProtoCheckAuth, HandOver, Effect, EndRecord, s
  <2>3. QED
    BY <2>1, <2>2 DEF Rank, s, m
<1>5. CASE m.type = "AUTH_ACK"
  <2>1. s.st \in {"AUTH", "AUTH_ACK"}
    BY <1>1, <1>5 DEF HandledIn
  <2>2. f.end.st = IF s.st = "AUTH_ACK" THEN "MAP" ELSE "AUTH_2"
    BY <1>1, <1>5 DEF Handler, CoreProtoCheckAuthAck, HandOver, Effect, EndRecord, s
  <2>3. QED
    BY <2>1, <2>2 DEF Rank, s, m
<1>6. m.type \in {"HELLO", "HELLO_ACK", "AUTH", "AUTH_ACK"}
  BY DEF m
<1>7. QED
  BY <1>2, <1>3, <1>4, <1>5, <1>6

LEMMA OvertakenOnward ==
  ASSUME TypeOK, IInv, NEW e \in Ends, NEW i \in DOMAIN net[e], NEW accept \in BOOLEAN,
         RecvOvertaken(e, i, accept)
  PROVE  Onward
<1>1. PICK f, t, out :
        /\ f = Handler(e, net[e][i], accept)
        /\ TypeOK' /\ Change(e, t, out)
        /\ Overtaken(end[e], f, t, out)
  BY OvertakenChange
<1> DEFINE s == end[e]
<1>2. /\ ~ s.lep /\ s.late = "none" /\ s \in EndRecord
      /\ net[e][i].type \in {"HELLO", "HELLO_ACK", "AUTH", "AUTH_ACK"}
      /\ Receives(e, i, net[e][i].type)
  BY DEF RecvOvertaken, Receives, Listens, TypeOK
<1>3. /\ Does(e, net[e][i], s, f) /\ s.st \in Greeted \cup {"HELLO_S"}
      /\ f.end.st # s.st => Rank(s.st) < Rank(f.end.st)
  BY <1>1, <1>2, HandlerDoes, HandlerRises
<1> HIDE DEF s
<1>4. f.end.late = "none"
  BY <1>2, <1>3 DEF EndRecord, Does
<1>5. /\ t.isAuth = f.end.isAuth /\ t.amAuth = f.end.amAuth
      /\ t.lep = TRUE /\ t.st = "MAP_ACK"
      /\ t.late = "none" \/ (t.late = f.end.st /\ f.end.st # s.st)
  BY <1>1, <1>4 DEF EndRecord, EffectOK, Overtaken, s
<1>6. Rank(s.st) <= Rank(t.st) /\ Rank(s.st) # 6
  BY <1>3, <1>5 DEF Rank, Greeted
<1>7. (s.isAuth => t.isAuth) /\ (s.amAuth => t.amAuth)
  BY <1>3, <1>5 DEF Does
<1>8. Further(s, t)
  BY <1>2, <1>3, <1>5, <1>6, <1>7 DEF Further
<1>9. QED
  BY <1>1, <1>8, OneFurther DEF s

LEMMA LateOnward ==
  ASSUME TypeOK, IInv, NEW e \in Ends, LateWrite(e)
  PROVE  Onward
<1>1. /\ end[e] \in EndRecord /\ end[e].late # "none" /\ end[e].st = "MAP_ACK"
  BY DEF TypeOK, IInv, EndInv, LateWrite
<1>2. PICK t, out : /\ t = [end[e] EXCEPT !.st = end[e].late, !.late = "none"] /\ out = <<>>
                    /\ TypeOK' /\ Change(e, t, out)
  BY LateChange
<1>3. /\ t.isAuth = end[e].isAuth /\ t.amAuth = end[e].amAuth
      /\ t.late = "none" /\ t.st = end[e].late
  BY <1>1, <1>2 DEF EndRecord
<1>4. Further(end[e], t)
  BY <1>1, <1>3 DEF Further, Rank
<1>5. QED
  BY <1>2, <1>4, OneFurther

\* The MAP that core_map sends once takes its end further, whenever it is sent.
LEMMA SendMapOnward ==
  ASSUME TypeOK, IInv, NEW e \in Clients, ~ end[e].lep, SendMap(e)
  PROVE  Onward
<1>1. e \in Ends /\ \A d \in Ends : end[d] \in EndRecord
  BY ClientsAssumption DEF TypeOK
<1>2. end[e].st \notin {"EXT_MSG", "BAD"}
  BY <1>1 DEF IInv, EndInv
<1>3. PICK t, out : t = CoreProtoMapTo(end[e]).end /\ Change(e, t, out)
  BY <1>1, SendMapChange
<1> QED  BY <1>1, <1>2, <1>3, CodesAre, HandlersFurther, OneFurther

LEMMA OnwardStep == TypeOK /\ IInv /\ [Next]_vars => Onward
<1> SUFFICES ASSUME TypeOK, IInv, [Next]_vars PROVE Onward
  OBVIOUS
<1>1. \A e \in Ends : end[e] \in EndRecord
  BY DEF TypeOK
<1>2. CASE UNCHANGED vars
  BY <1>1, <1>2, FurtherSame DEF vars, Onward
<1>3. ASSUME NEW e \in Ends, Connect(e) PROVE Onward
  <2>1. end[e] = NewEnd /\ Change(e, NewEnd, <<Msg("HELLO", version[e])>>)
    BY <1>3, ConnectChange DEF Connect, IInv, EndInv
  <2>2. PICK t, out : t = NewEnd /\ out = <<Msg("HELLO", version[e])>>
    OBVIOUS
  <2>3. QED
    BY <1>1, <2>1, <2>2, FurtherSame, OneFurther
<1>4. ASSUME NEW e \in Ends, Receive(e) PROVE Onward
  <2>1. PICK i \in DOMAIN net[e] :
          \/ RecvHello(e, i) \/ RecvHelloAck(e, i)
          \/ \E accept \in Verdicts(e) : RecvAuth(e, i, accept)
          \/ RecvAuthAck(e, i)
          \/ \E found \in BOOLEAN : RecvMap(e, i, found)
          \/ RecvMapAck(e, i) \/ Ignore(e, i)
    BY <1>4 DEF Receive
  <2>2. CASE RecvHello(e, i)
    <3>1. PICK t, out : t = CoreProtoHello(end[e], HelloCode(version[e], net[e][i].arg)).end
                        /\ Change(e, t, out)
      BY <2>2, HelloChange
    <3>2. end[e].st \in HandledIn["HELLO"]
      BY <2>2 DEF RecvHello, Receives, Handles
    <3>3. QED
      BY <1>1, <3>1, <3>2, HelloCodeType, HandlersFurther, OneFurther
  <2>3. CASE RecvHelloAck(e, i)
    <3>1. PICK t, out : t = CoreProtoHelloAck(end[e], net[e][i].arg).end /\ Change(e, t, out)
      BY <2>3, HelloAckChange
    <3>2. end[e].st \in HandledIn["HELLO_ACK"] /\ net[e][i].arg \in Codes
      BY <2>3, ReceivedType DEF RecvHelloAck, Receives, Handles
    <3>3. QED
      BY <1>1, <3>1, <3>2, HandlersFurther, OneFurther
  <2>4. CASE \E accept \in Verdicts(e) : RecvAuth(e, i, accept)
    <3>1. PICK accept \in BOOLEAN : RecvAuth(e, i, accept)
      BY <2>4 DEF Verdicts
    <3>2. PICK t, out : t = CoreProtoCheckAuth(end[e], accept).end /\ Change(e, t, out)
      BY <3>1, AuthChange
    <3>3. end[e].st \in HandledIn["AUTH"]
      BY <3>1 DEF RecvAuth, Receives, Handles
    <3>4. QED
      BY <1>1, <3>2, <3>3, CodesAre, HandlersFurther, OneFurther
  <2>5. CASE RecvAuthAck(e, i)
    <3>1. PICK t, out : t = CoreProtoCheckAuthAck(end[e], net[e][i].arg).end /\ Change(e, t, out)
      BY <2>5, AuthAckChange
    <3>2. end[e].st \in HandledIn["AUTH_ACK"] /\ net[e][i].arg \in Codes
      BY <2>5, ReceivedType DEF RecvAuthAck, Receives, Handles
    <3>3. QED
      BY <1>1, <3>1, <3>2, HandlersFurther, OneFurther
  <2>6. CASE \E found \in BOOLEAN : RecvMap(e, i, found)
    <3>1. PICK found \in BOOLEAN : RecvMap(e, i, found)
      BY <2>6
    <3>2. PICK t, out : t = CoreProtoMap(end[e], found).end /\ Change(e, t, out)
      BY <3>1, MapChange
    <3>3. end[e].st \in HandledIn["MAP"]
      BY <3>1 DEF RecvMap, Receives, Handles
    <3>4. QED
      BY <1>1, <3>2, <3>3, CodesAre, HandlersFurther, OneFurther
  <2>7. CASE RecvMapAck(e, i)
    <3>1. PICK t, out : t = CoreProtoMapAck(end[e], net[e][i].arg).end /\ Change(e, t, out)
      BY <2>7, MapAckChange
    <3>2. end[e].st \in HandledIn["MAP_ACK"] /\ net[e][i].arg \in Codes
      BY <2>7, ReceivedType DEF RecvMapAck, Receives, Handles
    <3>3. QED
      BY <1>1, <3>1, <3>2, HandlersFurther, OneFurther
  <2>8. CASE Ignore(e, i)
    <3>1. PICK t, out : (t = end[e] \/ t = HandOver(end[e])) /\ Change(e, t, out)
      BY <2>8, IgnoreChange
    <3>2. QED
      BY <1>1, <3>1, FurtherSame, HandOverFurther, OneFurther
  <2>9. QED
    BY <2>1, <2>2, <2>3, <2>4, <2>5, <2>6, <2>7, <2>8
<1>5. ASSUME NEW e \in Ends, MapTo(e) PROVE Onward
  BY <1>5, SendMapOnward DEF MapTo
<1>6. ASSUME NEW e \in Ends, Disconnect(e) \/ Break(e) \/ Lose(e) \/ Duplicate(e) PROVE Onward
  <2>1. PICK t, out : t = end[e] /\ Change(e, t, out)
    BY <1>6, QuietChange
  <2>2. QED
    BY <1>1, <2>1, FurtherSame, OneFurther
<1>7. ASSUME NEW e \in Ends, Overtake(e) PROVE Onward
  BY <1>7, SomeOvertaken, OvertakenOnward
<1>8. ASSUME NEW e \in Ends, LateWrite(e) PROVE Onward
  BY <1>8, LateOnward
<1>9. QED
  BY <1>2, <1>3, <1>4, <1>5, <1>6, <1>7, <1>8 DEF Next

\* Whatever the transport loses, repeats or reorders, and whenever core_map
\* sends its MAP, no handler of protocol.c takes a connection back to an
\* earlier state but one in the middle of which core_map sent MAP, and that one
\* only from MAP_ACK to the state it meant to write, later than the one in which
\* it began; the outcome of a MAP is final.
THEOREM NeverGoesBack == Spec => NeverBack
<1>1. TypeOK /\ IInv /\ [Next]_vars =>
        [\A e \in Ends :
           /\ \/ Rank(end[e].st) <= Rank(end'[e].st)
              \/ end[e].st = "MAP_ACK" /\ end'[e].st = end[e].late
           /\ end'[e].late \notin {"none", end[e].late} =>
                /\ ~ end[e].lep /\ end'[e].lep
                /\ Rank(end[e].st) < Rank(end'[e].late)
           /\ Rank(end[e].st) = 6 => end'[e].st = end[e].st
           /\ end[e].isAuth => end'[e].isAuth
           /\ end[e].amAuth => end'[e].amAuth]_vars
  BY OnwardStep DEF Onward, Further
<1>2. QED
  BY <1>1, InvariantCorrect, PTL DEF Spec, NeverBack

-----------------------------------------------------------------------------
(* The session. *)

StageOf(ph, s) ==
  IF ph = "freed" THEN "gone"
  ELSE IF s.handler = "proto" THEN "closed"
  ELSE IF s.st = "EXT_MSG" THEN "mapped"
  ELSE "open"

\* How a change of one end looks to the session.
LEMMA ChangeView ==
  ASSUME TypeOK, NEW e \in Ends, NEW t, NEW out, Change(e, t, out),
         \A d \in Ends \ {e} : phase'[d] = phase[d],
         end[e].isAuth => t.isAuth
  PROVE  /\ Vouched' = IF t.isAuth THEN Vouched \cup {e} ELSE Vouched
         /\ Stage' = [Stage EXCEPT ![e] = StageOf(phase'[e], t)]
         /\ Stage[e] = StageOf(phase[e], end[e])
<1>1. end'[e] = t /\ \A d \in Ends \ {e} : end'[d] = end[d]
  BY DEF Change, TypeOK
<1>2. Vouched' = IF t.isAuth THEN Vouched \cup {e} ELSE Vouched
  BY <1>1 DEF Vouched
<1>3. Stage = [d \in Ends |-> StageOf(phase[d], end[d])]
  BY DEF Stage, StageOf
<1>4. Stage' = [d \in Ends |-> StageOf(phase'[d], end'[d])]
  BY DEF Stage, StageOf
<1>5. \A d \in Ends \ {e} : StageOf(phase'[d], end'[d]) = StageOf(phase[d], end[d])
  BY <1>1
<1>6. Stage' = [Stage EXCEPT ![e] = StageOf(phase'[e], t)]
  BY <1>1, <1>3, <1>4, <1>5
<1>7. QED
  BY <1>2, <1>3, <1>6

\* A change the session does not see.
LEMMA SameView ==
  ASSUME TypeOK, NEW e \in Ends, NEW t, NEW out, Change(e, t, out),
         \A d \in Ends \ {e} : phase'[d] = phase[d],
         phase'[e] = "freed" <=> phase[e] = "freed",
         t.isAuth = end[e].isAuth, t.handler = end[e].handler,
         t.st = "EXT_MSG" <=> end[e].st = "EXT_MSG"
  PROVE  UNCHANGED Session!avars
<1>1. /\ Vouched' = IF t.isAuth THEN Vouched \cup {e} ELSE Vouched
      /\ Stage' = [Stage EXCEPT ![e] = StageOf(phase'[e], t)]
      /\ Stage[e] = StageOf(phase[e], end[e])
  BY ChangeView
<1>2. Vouched' = Vouched
  BY <1>1 DEF Vouched
<1>3. StageOf(phase'[e], t) = Stage[e]
  BY <1>1 DEF StageOf
<1>4. Stage' = Stage
  BY <1>1, <1>3 DEF Stage
<1>5. QED
  BY <1>2, <1>4 DEF Session!avars

LEMMA HelloRefines ==
  ASSUME TypeOK, IInv, NEW e \in Ends, NEW i \in DOMAIN net[e],
         RecvHello(e, i)
  PROVE  [Session!Next]_Session!avars
<1> DEFINE s == end[e]
           m == net[e][i]
           f == CoreProtoHello(end[e], HelloCode(version[e], net[e][i].arg))
<1>1. /\ TypeOK' /\ Change(e, f.end, f.out)
      /\ s \in EndRecord /\ m \in Message /\ EndInv(e) /\ Honest(e, m)
  BY HelloChange, ReceivedType DEF IInv, NetHonest
<1>2. phase[e] = "up" /\ (\A d \in Ends \ {e} : phase'[d] = phase[d]) /\ phase'[e] # "freed"
  BY DEF RecvHello, Receives, Listens, TypeOK
<1>3. PICK t : t = f.end /\ Change(e, t, f.out)
  BY <1>1
<1> HIDE DEF s, m
<1>4. s.st \in {"HELLO_S", "HELLO_2"}
  BY DEF s, RecvHello, Receives, Handles, HandledIn
<1>5. t.isAuth = s.isAuth /\ t.handler = s.handler /\ t.st # "EXT_MSG" /\ s.st # "EXT_MSG"
  BY <1>1, <1>3, <1>4 DEF CoreProtoHello, Effect, EndRecord, s
<1>6. QED
  BY <1>2, <1>3, <1>5, SameView DEF s

LEMMA HelloAckRefines ==
  ASSUME TypeOK, IInv, NEW e \in Ends, NEW i \in DOMAIN net[e],
         RecvHelloAck(e, i)
  PROVE  [Session!Next]_Session!avars
<1> DEFINE s == end[e]
           m == net[e][i]
           f == CoreProtoHelloAck(end[e], net[e][i].arg)
<1>1. /\ TypeOK' /\ Change(e, f.end, f.out)
      /\ s \in EndRecord /\ m \in Message /\ EndInv(e) /\ Honest(e, m)
  BY HelloAckChange, ReceivedType DEF IInv, NetHonest
<1>2. phase[e] = "up" /\ (\A d \in Ends \ {e} : phase'[d] = phase[d]) /\ phase'[e] # "freed"
  BY DEF RecvHelloAck, Receives, Listens, TypeOK
<1>3. PICK t : t = f.end /\ Change(e, t, f.out)
  BY <1>1
<1> HIDE DEF s, m
<1>4. s.st \in {"HELLO_S", "HELLO_ACK_S"}
  BY DEF s, RecvHelloAck, Receives, Handles, HandledIn
<1>5. t.isAuth = s.isAuth /\ t.handler = s.handler /\ t.st # "EXT_MSG" /\ s.st # "EXT_MSG"
  BY <1>1, <1>3, <1>4 DEF CoreProtoHelloAck, Effect, EndRecord, s
<1>6. QED
  BY <1>2, <1>3, <1>5, SameView DEF s

LEMMA AuthRefines ==
  ASSUME TypeOK, IInv, NEW e \in Ends, NEW i \in DOMAIN net[e], NEW accept \in BOOLEAN,
         RecvAuth(e, i, accept)
  PROVE  [Session!Next]_Session!avars
<1> DEFINE s == end[e]
           m == net[e][i]
           f == CoreProtoCheckAuth(end[e], accept)
<1>1. /\ TypeOK' /\ Change(e, f.end, f.out)
      /\ s \in EndRecord /\ m \in Message /\ EndInv(e) /\ Honest(e, m)
  BY AuthChange, ReceivedType DEF IInv, NetHonest
<1>2. phase[e] = "up" /\ (\A d \in Ends \ {e} : phase'[d] = phase[d]) /\ phase'[e] # "freed"
  BY DEF RecvAuth, Receives, Listens, TypeOK
<1>3. PICK t : t = f.end /\ Change(e, t, f.out)
  BY <1>1
<1> HIDE DEF s, m
<1>4. s.handler = "proto" /\ s.st \in {"AUTH", "AUTH_2"}
  BY DEF s, RecvAuth, Receives, Handles, HandledIn, Dispatcher
<1>5. /\ s.isAuth => t.isAuth
      /\ t.st # "EXT_MSG" /\ t.handler \in {"proto", "ext"}
      /\ t.handler = "ext" => t.isAuth /\ s.amAuth
  BY <1>1, <1>3, <1>4 DEF CoreProtoCheckAuth, HandOver, Effect, EndRecord, s
<1>6. /\ Vouched' = IF t.isAuth THEN Vouched \cup {e} ELSE Vouched
      /\ Stage' = [Stage EXCEPT ![e] = StageOf(phase'[e], t)]
      /\ Stage[e] = StageOf(phase[e], s)
  BY <1>2, <1>3, <1>5, ChangeView DEF s
<1>7. Stage[e] = "closed"
  BY <1>2, <1>4, <1>6 DEF StageOf
<1>8. CASE t.handler = "ext"
  <2>1. Peer[e] \in Vouched /\ Vouched' = Vouched \cup {e}
    BY <1>1, <1>5, <1>6, <1>8, PeerAssumption DEF EndInv, Vouched, s
  <2>2. Stage' = [Stage EXCEPT ![e] = "open"]
    BY <1>2, <1>5, <1>6, <1>8 DEF StageOf
  <2>3. QED
    BY <1>7, <2>1, <2>2 DEF Session!Next, Session!Open
<1>9. CASE t.handler = "proto"
  <2>1. Stage' = Stage
    BY <1>2, <1>6, <1>7, <1>9 DEF StageOf, Stage
  <2>2. Vouched' = Vouched \cup {e} \/ Vouched' = Vouched
    BY <1>6
  <2>3. QED
    BY <1>7, <2>1, <2>2 DEF Session!Next, Session!Vouch, Session!avars
<1>10. QED
  BY <1>5, <1>8, <1>9

LEMMA OvertakenRefines ==
  ASSUME TypeOK, IInv, NEW e \in Ends, NEW i \in DOMAIN net[e], NEW accept \in BOOLEAN,
         RecvOvertaken(e, i, accept)
  PROVE  [Session!Next]_Session!avars
<1>1. PICK f, t, out :
        /\ f = Handler(e, net[e][i], accept)
        /\ TypeOK' /\ Change(e, t, out)
        /\ Overtaken(end[e], f, t, out)
  BY OvertakenChange
<1> DEFINE s == end[e]
<1>2. /\ s \in EndRecord /\ phase[e] = "up"
      /\ (\A d \in Ends \ {e} : phase'[d] = phase[d]) /\ phase'[e] # "freed"
      /\ Does(e, net[e][i], s, f) /\ s.handler = "proto"
  BY <1>1, HandlerDoes DEF RecvOvertaken, Receives, Listens, TypeOK
<1> HIDE DEF s
<1>3. /\ s.isAuth => t.isAuth
      /\ t.st # "EXT_MSG" /\ t.handler \in {"proto", "ext"}
      /\ t.handler = "ext" => t.isAuth /\ end[Peer[e]].isAuth
  <2>1. /\ t.isAuth = f.end.isAuth /\ t.amAuth = f.end.amAuth /\ t.handler = f.end.handler
        /\ t.st = "MAP_ACK" /\ t.handler \in {"proto", "ext"}
    BY <1>1 DEF Overtaken, EffectOK, EndRecord
  <2>2. QED
    BY <1>2, <2>1 DEF Does
<1>4. /\ Vouched' = IF t.isAuth THEN Vouched \cup {e} ELSE Vouched
      /\ Stage' = [Stage EXCEPT ![e] = StageOf(phase'[e], t)]
      /\ Stage[e] = StageOf(phase[e], s)
  BY <1>1, <1>2, <1>3, ChangeView DEF s
<1>5. Stage[e] = "closed"
  BY <1>2, <1>4 DEF StageOf
<1>6. CASE t.handler = "ext"
  <2>1. Peer[e] \in Vouched
    BY <1>3, <1>6, PeerAssumption DEF Vouched
  <2>2. Stage' = [Stage EXCEPT ![e] = "open"] /\ Vouched' = Vouched \cup {e}
    BY <1>2, <1>3, <1>4, <1>6 DEF StageOf
  <2>3. QED
    BY <1>5, <2>1, <2>2 DEF Session!Next, Session!Open
<1>7. CASE t.handler = "proto"
  <2>1. Stage' = Stage
    BY <1>2, <1>4, <1>5, <1>7 DEF StageOf, Stage
  <2>2. Vouched' = Vouched \cup {e} \/ Vouched' = Vouched
    BY <1>4
  <2>3. QED
    BY <1>5, <2>1, <2>2 DEF Session!Next, Session!Vouch, Session!avars
<1>8. QED
  BY <1>3, <1>6, <1>7

\* Nor does the session see a late write.
LEMMA LateRefines ==
  ASSUME TypeOK, IInv, NEW e \in Ends, LateWrite(e)
  PROVE  [Session!Next]_Session!avars
<1>1. /\ end[e] \in EndRecord /\ EndInv(e) /\ end[e].late # "none" /\ phase' = phase
  BY DEF TypeOK, IInv, LateWrite
<1>2. PICK t, out : /\ t = [end[e] EXCEPT !.st = end[e].late, !.late = "none"] /\ out = <<>>
                    /\ TypeOK' /\ Change(e, t, out)
  BY LateChange
<1>3. /\ t.isAuth = end[e].isAuth /\ t.handler = end[e].handler
      /\ t.st # "EXT_MSG" /\ end[e].st # "EXT_MSG"
  BY <1>1, <1>2 DEF EndRecord, EndInv, Greeted
<1>4. QED
  BY <1>1, <1>2, <1>3, SameView

LEMMA AuthAckRefines ==
  ASSUME TypeOK, IInv, NEW e \in Ends, NEW i \in DOMAIN net[e],
         RecvAuthAck(e, i)
  PROVE  [Session!Next]_Session!avars
<1> DEFINE s == end[e]
           m == net[e][i]
           f == CoreProtoCheckAuthAck(end[e], net[e][i].arg)
<1>1. /\ TypeOK' /\ Change(e, f.end, f.out)
      /\ s \in EndRecord /\ m \in Message /\ EndInv(e) /\ Honest(e, m)
  BY AuthAckChange, ReceivedType DEF IInv, NetHonest
<1>2. phase[e] = "up" /\ (\A d \in Ends \ {e} : phase'[d] = phase[d]) /\ phase'[e] # "freed"
  BY DEF RecvAuthAck, Receives, Listens, TypeOK
<1>3. PICK t : t = f.end /\ Change(e, t, f.out)
  BY <1>1
<1> HIDE DEF s, m
<1>4. s.handler = "proto" /\ s.st \in {"AUTH", "AUTH_ACK"} /\ m.type = "AUTH_ACK"
  BY DEF s, m, RecvAuthAck, Receives, Handles, HandledIn, Dispatcher
<1>5. /\ t.isAuth = s.isAuth
      /\ t.st # "EXT_MSG" /\ t.handler \in {"proto", "ext"}
      /\ t.handler = "ext" => s.isAuth /\ (s.amAuth \/ m.arg = Ok)
  BY <1>1, <1>3, <1>4 DEF CoreProtoCheckAuthAck, HandOver, Effect, EndRecord, s, m
<1>6. /\ Vouched' = IF t.isAuth THEN Vouched \cup {e} ELSE Vouched
      /\ Stage' = [Stage EXCEPT ![e] = StageOf(phase'[e], t)]
      /\ Stage[e] = StageOf(phase[e], s)
  BY <1>2, <1>3, <1>5, ChangeView DEF s
<1>7. Stage[e] = "closed"
  BY <1>2, <1>4, <1>6 DEF StageOf
<1>8. CASE t.handler = "ext"
  <2>1. Peer[e] \in Vouched /\ Vouched' = Vouched \cup {e}
    BY <1>1, <1>4, <1>5, <1>6, <1>8, PeerAssumption DEF EndInv, Honest, Vouched, s
  <2>2. Stage' = [Stage EXCEPT ![e] = "open"]
    BY <1>2, <1>5, <1>6, <1>8 DEF StageOf
  <2>3. QED
    BY <1>7, <2>1, <2>2 DEF Session!Next, Session!Open
<1>9. CASE t.handler = "proto"
  <2>1. t.st = "EXT_MSG" <=> s.st = "EXT_MSG"
    BY <1>4, <1>5
  <2>2. QED
    BY <1>2, <1>3, <1>4, <1>5, <1>9, <2>1, SameView DEF s
<1>10. QED
  BY <1>5, <1>8, <1>9

LEMMA MapRefines ==
  ASSUME TypeOK, IInv, NEW e \in Ends, NEW i \in DOMAIN net[e], NEW found \in BOOLEAN,
         RecvMap(e, i, found)
  PROVE  [Session!Next]_Session!avars
<1> DEFINE s == end[e]
           m == net[e][i]
           f == CoreProtoMap(end[e], found)
<1>1. /\ TypeOK' /\ Change(e, f.end, f.out)
      /\ s \in EndRecord /\ m \in Message /\ EndInv(e) /\ Honest(e, m)
  BY MapChange, ReceivedType DEF IInv, NetHonest
<1>2. phase[e] = "up" /\ (\A d \in Ends \ {e} : phase'[d] = phase[d]) /\ phase'[e] # "freed"
  BY DEF RecvMap, Receives, Listens, TypeOK
<1>3. PICK t : t = f.end /\ Change(e, t, f.out)
  BY <1>1
<1> HIDE DEF s, m
<1>4. s.handler = "ext" /\ s.st = "MAP" /\ m.type = "MAP"
  BY DEF s, m, RecvMap, Receives, Handles, HandledIn, Dispatcher
<1>5. t.isAuth = s.isAuth /\ t.handler = s.handler
  BY <1>1, <1>3 DEF CoreProtoMap, Effect, EndRecord, s
<1>6. CASE t.st # "EXT_MSG"
  BY <1>2, <1>3, <1>4, <1>5, <1>6, SameView DEF s
<1>7. CASE t.st = "EXT_MSG"
  <2>1. /\ Vouched' = IF t.isAuth THEN Vouched \cup {e} ELSE Vouched
        /\ Stage' = [Stage EXCEPT ![e] = StageOf(phase'[e], t)]
        /\ Stage[e] = StageOf(phase[e], s)
    BY <1>2, <1>3, <1>5, ChangeView DEF s
  <2>2. Vouched' = Vouched
    BY <1>5, <2>1 DEF Vouched, s
  <2>3. Stage[e] = "open" /\ Stage' = [Stage EXCEPT ![e] = "mapped"]
    BY <1>2, <1>4, <1>5, <1>7, <2>1 DEF StageOf
  <2>4. e \in Clients => Stage[Peer[e]] \in {"mapped", "gone"}
    BY <1>1, <1>4 DEF Honest
  <2>5. QED
    BY <2>2, <2>3, <2>4 DEF Session!Next, Session!Attach
<1>8. QED
  BY <1>6, <1>7

LEMMA MapAckRefines ==
  ASSUME TypeOK, IInv, NEW e \in Ends, NEW i \in DOMAIN net[e],
         RecvMapAck(e, i)
  PROVE  [Session!Next]_Session!avars
<1> DEFINE s == end[e]
           m == net[e][i]
           f == CoreProtoMapAck(end[e], net[e][i].arg)
<1>1. /\ TypeOK' /\ Change(e, f.end, f.out)
      /\ s \in EndRecord /\ m \in Message /\ EndInv(e) /\ Honest(e, m)
  BY MapAckChange, ReceivedType DEF IInv, NetHonest
<1>2. phase[e] = "up" /\ (\A d \in Ends \ {e} : phase'[d] = phase[d]) /\ phase'[e] # "freed"
  BY DEF RecvMapAck, Receives, Listens, TypeOK
<1>3. PICK t : t = f.end /\ Change(e, t, f.out)
  BY <1>1
<1> HIDE DEF s, m
<1>4. s.handler = "ext" /\ s.st = "MAP_ACK" /\ m.type = "MAP_ACK"
  BY DEF s, m, RecvMapAck, Receives, Handles, HandledIn, Dispatcher
<1>5. /\ t.isAuth = s.isAuth /\ t.handler = s.handler
      /\ t.st = "EXT_MSG" => m.arg = Ok
  BY <1>1, <1>3, <1>4 DEF CoreProtoMapAck, Effect, EndRecord, s, m
<1>6. CASE t.st # "EXT_MSG"
  BY <1>2, <1>3, <1>4, <1>5, <1>6, SameView DEF s
<1>7. CASE t.st = "EXT_MSG"
  <2>1. /\ Vouched' = IF t.isAuth THEN Vouched \cup {e} ELSE Vouched
        /\ Stage' = [Stage EXCEPT ![e] = StageOf(phase'[e], t)]
        /\ Stage[e] = StageOf(phase[e], s)
    BY <1>2, <1>3, <1>5, ChangeView DEF s
  <2>2. Vouched' = Vouched
    BY <1>5, <2>1 DEF Vouched, s
  <2>3. Stage[e] = "open" /\ Stage' = [Stage EXCEPT ![e] = "mapped"]
    BY <1>2, <1>4, <1>5, <1>7, <2>1 DEF StageOf
  <2>4. e \in Clients => Stage[Peer[e]] \in {"mapped", "gone"}
    <3> SUFFICES ASSUME e \in Clients
                 PROVE  Stage[Peer[e]] \in {"mapped", "gone"}
      OBVIOUS
    <3>1. Peer[e] \in Ends /\ end[Peer[e]].st = "EXT_MSG"
      BY <1>1, <1>4, <1>5, <1>7, PeerAssumption DEF Honest
    <3>2. end[Peer[e]].handler = "ext"
      BY <3>1 DEF IInv, EndInv
    <3>3. QED
      BY <3>1, <3>2 DEF Stage
  <2>5. QED
    BY <2>2, <2>3, <2>4 DEF Session!Next, Session!Attach
<1>8. QED
  BY <1>6, <1>7

LEMMA SessionInit == Init => Session!Init
BY DEF Init, NewEnd, Session!Init, Vouched, Stage

\* The session does not see that MAP is sent.
LEMMA SendMapRefines ==
  ASSUME TypeOK, IInv, NEW e \in Clients, ~ end[e].lep, SendMap(e)
  PROVE  [Session!Next]_Session!avars
<1>1. e \in Ends
  BY ClientsAssumption
<1>2. end[e] \in EndRecord /\ end[e].st # "EXT_MSG" /\ phase' = phase
  BY <1>1 DEF SendMap, IInv, EndInv, TypeOK
<1>3. PICK t, out : /\ t = CoreProtoMapTo(end[e]).end
                    /\ out = CoreProtoMapTo(end[e]).out
                    /\ Change(e, t, out)
  BY <1>1, SendMapChange
<1>4. t.isAuth = end[e].isAuth /\ t.handler = end[e].handler /\ t.st = "MAP_ACK"
  BY <1>2, <1>3 DEF CoreProtoMapTo, Effect, EndRecord
<1> QED  BY <1>1, <1>2, <1>3, <1>4, SameView

LEMMA SessionStep == TypeOK /\ IInv /\ [Next]_vars => [Session!Next]_Session!avars
<1> SUFFICES ASSUME TypeOK, IInv, [Next]_vars
             PROVE  [Session!Next]_Session!avars
  OBVIOUS
<1>1. CASE UNCHANGED vars
  BY <1>1 DEF vars, Session!avars, Vouched, Stage
<1>2. ASSUME NEW e \in Ends, Connect(e)
      PROVE  [Session!Next]_Session!avars
  <2>1. end[e] = NewEnd /\ Change(e, NewEnd, <<Msg("HELLO", version[e])>>)
    BY <1>2, ConnectChange DEF Connect, IInv, EndInv
  <2>2. phase[e] = "idle" /\ phase'[e] = "up" /\ \A d \in Ends \ {e} : phase'[d] = phase[d]
    BY <1>2 DEF Connect, TypeOK
  <2>3. PICK t, out : t = NewEnd /\ out = <<Msg("HELLO", version[e])>>
    OBVIOUS
  <2>4. QED
    BY <2>1, <2>2, <2>3, SameView
<1>3. ASSUME NEW e \in Ends, Receive(e)
      PROVE  [Session!Next]_Session!avars
  <2>1. PICK i \in DOMAIN net[e] :
          \/ RecvHello(e, i) \/ RecvHelloAck(e, i)
          \/ \E accept \in Verdicts(e) : RecvAuth(e, i, accept)
          \/ RecvAuthAck(e, i)
          \/ \E found \in BOOLEAN : RecvMap(e, i, found)
          \/ RecvMapAck(e, i) \/ Ignore(e, i)
    BY <1>3 DEF Receive
  <2>2. CASE RecvHello(e, i)
    BY <2>2, HelloRefines
  <2>3. CASE RecvHelloAck(e, i)
    BY <2>3, HelloAckRefines
  <2>4. CASE \E accept \in Verdicts(e) : RecvAuth(e, i, accept)
    BY <2>4, AuthRefines DEF Verdicts
  <2>5. CASE RecvAuthAck(e, i)
    BY <2>5, AuthAckRefines
  <2>6. CASE \E found \in BOOLEAN : RecvMap(e, i, found)
    BY <2>6, MapRefines
  <2>7. CASE RecvMapAck(e, i)
    BY <2>7, MapAckRefines
  <2>8. CASE Ignore(e, i)
    <3>1. HandOver(end[e]) = end[e]
      BY DEF HandOver, IInv, EndInv, TypeOK, EndRecord
    <3>2. PICK t, out : t = end[e] /\ out = <<>> /\ Change(e, t, out)
      BY <2>8, <3>1, IgnoreChange
    <3>3. phase' = phase
      BY <2>8 DEF Ignore
    <3>4. QED
      BY <3>2, <3>3, SameView
  <2>9. QED
    BY <2>1, <2>2, <2>3, <2>4, <2>5, <2>6, <2>7, <2>8
<1>4. ASSUME NEW e \in Ends, MapTo(e)
      PROVE  [Session!Next]_Session!avars
  BY <1>4, SendMapRefines DEF MapTo
<1>5. ASSUME NEW e \in Ends, Disconnect(e) \/ Break(e) \/ Lose(e) \/ Duplicate(e)
      PROVE  [Session!Next]_Session!avars
  <2>1. PICK t, out : t = end[e] /\ out = <<>> /\ Change(e, t, out)
    BY <1>5, QuietChange
  <2>2. CASE Lose(e) \/ Duplicate(e)
    <3>1. phase' = phase
      BY <2>2 DEF Lose, Duplicate
    <3>2. QED
      BY <2>1, <3>1, SameView
  <2>3. CASE Disconnect(e) \/ Break(e)
    <3>1. phase'[e] = "freed" /\ \A d \in Ends \ {e} : phase'[d] = phase[d]
      BY <2>3 DEF Disconnect, Break, Freed, TypeOK
    <3>2. /\ Vouched' = IF t.isAuth THEN Vouched \cup {e} ELSE Vouched
          /\ Stage' = [Stage EXCEPT ![e] = StageOf(phase'[e], t)]
      BY <2>1, <3>1, ChangeView
    <3>3. Vouched' = Vouched /\ Stage' = [Stage EXCEPT ![e] = "gone"]
      BY <2>1, <3>1, <3>2 DEF Vouched, StageOf
    <3>4. QED
      BY <3>3 DEF Session!Next, Session!Leave
  <2>4. QED
    BY <1>5, <2>2, <2>3
<1>6. ASSUME NEW e \in Ends, Overtake(e)
      PROVE  [Session!Next]_Session!avars
  BY <1>6, SomeOvertaken, OvertakenRefines
<1>7. ASSUME NEW e \in Ends, LateWrite(e)
      PROVE  [Session!Next]_Session!avars
  BY <1>7, LateRefines
<1>8. QED
  BY <1>1, <1>2, <1>3, <1>4, <1>5, <1>6, <1>7 DEF Next

\* The connection protocol implements the authenticated session.
THEOREM ImplementsSession == Spec => SessionSpec
<1>1. Init => Session!Init
  BY SessionInit
<1>2. TypeOK /\ IInv /\ [Next]_vars => [Session!Next]_Session!avars
  BY SessionStep
<1>3. QED
  BY <1>1, <1>2, InvariantCorrect, PTL DEF Spec, SessionSpec, Session!Spec

-----------------------------------------------------------------------------
(* Nothing is ignored: the protocol as a script.  An end that has read k    *)
(* messages of its peer is in a state that k determines but for refusals,   *)
(* its peer has sent a number of messages that its own state determines,    *)
(* and the queue between them holds the ones in between, in order.          *)

\* The messages an end is sent in one handshake.
Script(e) == <<"HELLO", "HELLO_ACK", "AUTH", "AUTH_ACK",
               IF e \in Clients THEN "MAP_ACK" ELSE "MAP">>

\* The STATE s, of a client or not, after k messages; in AUTH after three and
\* in AUTH_2 it has refused its peer.
HasRead(s, client, k) ==
  \/ k = 0 /\ s.st = "HELLO_S" /\ ~ s.isAuth /\ ~ s.amAuth
  \/ k = 1 /\ s.st = "HELLO_ACK_S" /\ ~ s.isAuth /\ ~ s.amAuth
  \/ k = 2 /\ s.st = "AUTH" /\ ~ s.isAuth /\ ~ s.amAuth
  \/ k = 3 /\ s.st = "AUTH" /\ ~ s.isAuth /\ ~ s.amAuth
  \/ k = 3 /\ s.st = "AUTH_ACK" /\ s.isAuth /\ ~ s.amAuth
  \/ k = 4 /\ s.st = "AUTH_2" /\ ~ s.isAuth /\ s.amAuth
  \/ k = 4 /\ s.st = "MAP" /\ s.isAuth /\ s.amAuth
  \/ k = 4 /\ s.st = "MAP_ACK" /\ s.isAuth /\ s.amAuth /\ client
  \/ k = 5 /\ s.st \in {"EXT_MSG", "BAD"} /\ s.isAuth /\ s.amAuth

\* How many messages an end has sent.
HasSent(ph, s, k) ==
  IF ph = "idle" THEN 0
  ELSE IF s.st = "MAP_ACK" THEN 5
  ELSE IF k \in {4, 5} THEN k
  ELSE k + 1

Says(e, m, n) == m.type = Script(e)[n] /\ (n = 2 => m.arg = Ok)

\* The messages q to e are those from a + 1 to b.
Follows(e, q, a, b) ==
  /\ Len(q) = b - a
  /\ \A i \in 1..Len(q) : Says(e, q[i], a + i)

InOrder(e) == Ordered(e) /\ SameVersion(e)

\* Where end e is in its script when each end d has read r[d] messages.
InPlace(e, r) ==
  LET sent == HasSent(phase[Peer[e]], end[Peer[e]], r[Peer[e]])
  IN  /\ HasRead(end[e], e \in Clients, r[e])
      /\ r[e] <= sent
      /\ phase[e] = "idle" => r[e] = 0
      /\ phase[e] = "closing" => r[e] <= 3
      /\ phase[e] \in {"idle", "up"} => Follows(e, net[e], r[e], sent)

Places == {r \in [Ends -> 0..5] : \A e \in Ends : InOrder(e) => InPlace(e, r)}

OrderInv == ~ Impatient => Places # {}

LEMMA ScriptIs ==
  \A e : /\ Script(e)[1] = "HELLO" /\ Script(e)[2] = "HELLO_ACK"
         /\ Script(e)[3] = "AUTH" /\ Script(e)[4] = "AUTH_ACK"
         /\ Script(e)[5] = IF e \in Clients THEN "MAP_ACK" ELSE "MAP"
BY DEF Script

\* The first message of a queue that follows the script is the next one, and
\* the rest follows it too.
LEMMA FirstFollows ==
  ASSUME NEW e, NEW q \in Seq(Message), NEW a \in 0..5, NEW b \in 0..5,
         Follows(e, q, a, b), 1 \in DOMAIN q
  PROVE  /\ a < b /\ a + 1 \in 0..5
         /\ Says(e, q[1], a + 1)
         /\ Follows(e, Drop(q, 1), a + 1, b)
<1> DEFINE front == SubSeq(q, 1, 0)
           rest == SubSeq(q, 2, Len(q))
<1>1. Len(q) = b - a /\ Len(q) \in Nat /\ DOMAIN q = 1..Len(q)
  BY LenProperties DEF Follows
<1>2. a < b /\ Len(q) >= 1
  BY <1>1
<1>3. Says(e, q[1], a + 1)
  BY <1>2 DEF Follows
<1>4. /\ rest \in Seq(Message) /\ Len(rest) = Len(q) - 1
      /\ \A i \in 1..Len(q) - 1 : rest[i] = q[i + 1]
  BY <1>1, <1>2
<1>5. Drop(q, 1) = rest
  <2>1. Drop(q, 1) = front \o rest /\ front = <<>>
    <3>1. Drop(q, 1) = SubSeq(q, 1, 1 - 1) \o SubSeq(q, 1 + 1, Len(q))
      BY DEF Drop
    <3>2. 1 - 1 = 0 /\ 1 + 1 = 2
      OBVIOUS
    <3> QED  BY <3>1, <3>2
  <2> HIDE DEF front, rest
  <2> QED  BY <1>4, <2>1
<1> HIDE DEF rest
<1>6. \A i \in 1..Len(rest) : Says(e, rest[i], (a + 1) + i)
  <2> SUFFICES ASSUME NEW i \in 1..Len(rest)
               PROVE  Says(e, rest[i], (a + 1) + i)
    OBVIOUS
  <2>1. i + 1 \in 1..Len(q) /\ (a + 1) + i = a + (i + 1)
    BY <1>1, <1>4
  <2>2. Says(e, q[i + 1], a + (i + 1))
    BY <2>1 DEF Follows
  <2> QED  BY <1>4, <2>1, <2>2
<1>7. Len(rest) = b - (a + 1)
  BY <1>1, <1>4
<1> QED  BY <1>2, <1>3, <1>5, <1>6, <1>7 DEF Follows

\* A queue that is sent the next messages of the script follows it.
LEMMA SentFollows ==
  ASSUME NEW e, NEW q \in Seq(Message), NEW m \in Seq(Message),
         NEW a \in 0..5, NEW b \in 0..5, NEW c \in 0..5,
         Follows(e, q, a, b), Follows(e, m, b, c)
  PROVE  Follows(e, q \o m, a, c)
<1>1. /\ Len(q) = b - a /\ Len(m) = c - b /\ Len(q) \in Nat /\ Len(m) \in Nat
  BY LenProperties DEF Follows
<1>2. /\ Len(q \o m) = Len(q) + Len(m)
      /\ \A j \in 1..Len(q) + Len(m) :
           (q \o m)[j] = IF j <= Len(q) THEN q[j] ELSE m[j - Len(q)]
  BY ConcatProperties
<1>3. \A i \in 1..Len(q \o m) : Says(e, (q \o m)[i], a + i)
  <2> SUFFICES ASSUME NEW i \in 1..Len(q \o m)
               PROVE  Says(e, (q \o m)[i], a + i)
    OBVIOUS
  <2>1. CASE i <= Len(q)
    BY <1>1, <1>2, <2>1 DEF Follows
  <2>2. CASE i > Len(q)
    <3>1. i - Len(q) \in 1..Len(m) /\ a + i = b + (i - Len(q))
      BY <1>1, <1>2, <2>2
    <3>2. (q \o m)[i] = m[i - Len(q)]
      BY <1>1, <1>2, <2>2
    <3>3. Says(e, m[i - Len(q)], b + (i - Len(q)))
      BY <3>1 DEF Follows
    <3> QED  BY <3>1, <3>2, <3>3
  <2> QED  BY <1>1, <2>1, <2>2
<1>4. Len(q \o m) = c - a
  BY <1>1, <1>2
<1> QED  BY <1>3, <1>4 DEF Follows

\* What an end has read and sent is part of the script.
LEMMA HasSentType ==
  ASSUME NEW ph, NEW s, NEW k \in 0..5
  PROVE  HasSent(ph, s, k) \in 0..5
BY DEF HasSent

\* Nothing sent is the empty part of the script.
LEMMA NothingFollows == \A e, a : a \in 0..5 => Follows(e, <<>>, a, a)
BY DEF Follows

LEMMA OneFollows ==
  ASSUME NEW e, NEW m, NEW a \in 0..4, Says(e, m, a + 1)
  PROVE  Follows(e, <<m>>, a, a + 1)
BY DEF Follows

\* An end is in order with its peer or not at all.
LEMMA PeerInOrder ==
  ASSUME NEW e \in Ends
  PROVE  InOrder(e) <=> InOrder(Peer[e])
BY PeerAssumption DEF InOrder, Ordered, SameVersion

\* Every step is one of an end and its peer.
Only(e) ==
  /\ version' = version
  /\ \A d \in Ends \ {e, Peer[e]} :
       phase'[d] = phase[d] /\ end'[d] = end[d] /\ net'[d] = net[d]

\* A step of e that puts e and its peer in their places leaves all in order.
LEMMA OnlyKeepsPlaces ==
  ASSUME NEW r \in Places, NEW e \in Ends, Only(e), NEW k \in 0..5,
         InOrder(e) => /\ InPlace(e, [r EXCEPT ![e] = k])'
                       /\ InPlace(Peer[e], [r EXCEPT ![e] = k])'
  PROVE  OrderInv'
<1> DEFINE q == [r EXCEPT ![e] = k]
<1>1. q \in [Ends -> 0..5] /\ \A d \in Ends \ {e} : q[d] = r[d]
  BY DEF Places
<1>2. ASSUME NEW d \in Ends, InOrder(d)'
      PROVE  InPlace(d, q)'
  <2>1. InOrder(d)
    BY <1>2 DEF Only, InOrder, Ordered, SameVersion
  <2>2. CASE d \in {e, Peer[e]}
    BY <2>1, <2>2, PeerInOrder
  <2>3. CASE d \notin {e, Peer[e]}
    <3>1. /\ Peer[d] \in Ends \ {e, Peer[e]}
      BY <2>3, PeerAssumption
    <3>2. InPlace(d, r)
      BY <2>1 DEF Places
    <3>3. q[d] = r[d] /\ q[Peer[d]] = r[Peer[d]]
      BY <1>1, <2>3, <3>1
    <3> QED  BY <2>3, <3>1, <3>2, <3>3 DEF InPlace, Only
  <2> QED  BY <2>2, <2>3
<1>3. q \in Places'
  BY <1>1, <1>2 DEF Places
<1> QED  BY <1>3 DEF OrderInv

\* An end that takes the first message of its queue and sends the next ones of
\* the script has read one more.
LEMMA TakeKeepsPlaces ==
  ASSUME TypeOK, NEW r \in Places, NEW e \in Ends, InOrder(e),
         phase[e] = "up", 1 \in DOMAIN net[e],
         NEW f, EffectOK(f), Take(e, 1, f), phase' = phase,
         HasRead(f.end, e \in Clients, r[e] + 1),
         Follows(Peer[e], f.out, HasSent("up", end[e], r[e]), HasSent("up", f.end, r[e] + 1)),
         HasSent("up", end[e], r[e]) <= HasSent("up", f.end, r[e] + 1)
  PROVE  OrderInv'
<1> DEFINE p == Peer[e]
           k == r[e] + 1
           b == HasSent(phase[p], end[p], r[p])
           q == [r EXCEPT ![e] = k]
<1>1. p \in Ends /\ p # e /\ Peer[p] = e
  BY PeerAssumption
<1>2. r \in [Ends -> 0..5] /\ InPlace(e, r) /\ InPlace(p, r)
  BY <1>1, PeerInOrder DEF Places
<1>3. b \in 0..5 /\ r[e] \in 0..5 /\ r[p] \in 0..5
  BY <1>1, <1>2, HasSentType
<1>4. net[e] \in Seq(Message) /\ net[p] \in Seq(Message) /\ f.out \in Seq(Message)
  BY <1>1 DEF TypeOK, EffectOK
<1>5. r[e] < b /\ k \in 0..5 /\ Follows(e, Drop(net[e], 1), k, b)
  <2>1. Follows(e, net[e], r[e], b)
    BY <1>2 DEF InPlace
  <2> QED  BY <1>3, <1>4, <2>1, FirstFollows
<1>6. q[e] = k /\ q[p] = r[p]
  BY <1>1, <1>2
<1>7. /\ version' = version /\ end'[e] = f.end /\ end'[p] = end[p]
      /\ net'[e] = Drop(net[e], 1) /\ net'[p] = Sent(p, f.out)
      /\ \A d \in Ends \ {e, p} : end'[d] = end[d] /\ net'[d] = net[d]
  BY <1>1 DEF Take, TypeOK
<1>8. Only(e)
  BY <1>7 DEF Only
<1>9. InPlace(e, q)'
  <2>1. HasSent(phase'[p], end'[p], q[p]) = b
    BY <1>6, <1>7
  <2> QED  BY <1>3, <1>5, <1>6, <1>7, <2>1 DEF InPlace
<1>10. InPlace(p, q)'
  <2> DEFINE old == HasSent("up", end[e], r[e])
             new == HasSent("up", f.end, k)
  <2>1. HasSent(phase'[e], end'[e], q[e]) = new /\ HasSent(phase[e], end[e], r[e]) = old
    BY <1>6, <1>7
  <2>2. old \in 0..5 /\ new \in 0..5
    BY <1>3, <1>5, HasSentType
  <2>3. phase[p] \in {"idle", "up"} => Follows(p, net'[p], r[p], new)
    <3> SUFFICES ASSUME phase[p] \in {"idle", "up"}
                 PROVE  Follows(p, net'[p], r[p], new)
      OBVIOUS
    <3>1. net'[p] = net[p] \o f.out
      BY <1>7 DEF Sent
    <3>2. Follows(p, net[p], r[p], old)
      BY <1>1, <1>2, <2>1 DEF InPlace
    <3> HIDE DEF old, new
    <3>3. Follows(p, f.out, old, new)
      BY DEF old, new
    <3> QED  BY <1>3, <1>4, <2>2, <3>1, <3>2, <3>3, SentFollows
  <2>4. r[p] <= old /\ old <= new
    BY <1>1, <1>2, <2>1 DEF InPlace
  <2>5. r[p] <= new
    <3> HIDE DEF old, new
    <3> QED  BY <1>3, <2>2, <2>4
  <2> HIDE DEF new, old, q
  <2>6. Peer[p] = e /\ end'[p] = end[p] /\ phase' = phase
    BY <1>1, <1>7
  <2> QED  BY <1>2, <1>6, <2>1, <2>3, <2>5, <2>6 DEF InPlace
<1> QED  BY <1>5, <1>8, <1>9, <1>10, OnlyKeepsPlaces

\* What an end reads is what is next in its script, and its state handles it.
LEMMA NextIsHandled ==
  ASSUME TypeOK, IInv, NEW r \in Places, NEW e \in Ends, InOrder(e),
         phase[e] = "up", 1 \in DOMAIN net[e]
  PROVE  /\ r[e] \in 0..4
         /\ Says(e, net[e][1], r[e] + 1)
         /\ Handles(end[e], net[e][1].type)
         /\ net[e][1] \in Message /\ end[e] \in EndRecord
         /\ HasRead(end[e], e \in Clients, r[e])
         /\ r[e] = 4 => end[e].st = IF e \in Clients THEN "MAP_ACK" ELSE "MAP"
<1> DEFINE p == Peer[e]
           b == HasSent(phase[p], end[p], r[p])
<1>1. p \in Ends /\ p # e /\ Peer[p] = e
  BY PeerAssumption
<1>2. r \in [Ends -> 0..5] /\ InPlace(e, r) /\ InPlace(p, r)
  BY <1>1, PeerInOrder DEF Places
<1>3. b \in 0..5 /\ r[e] \in 0..5 /\ r[p] \in 0..5
  BY <1>1, <1>2, HasSentType
<1>4. net[e] \in Seq(Message) /\ Follows(e, net[e], r[e], b)
  BY <1>2 DEF TypeOK, InPlace
<1>5. r[e] < b /\ Says(e, net[e][1], r[e] + 1)
  <2> HIDE DEF b
  <2> QED  BY <1>3, <1>4, FirstFollows
<1>6. r[e] \in 0..4
  <2> HIDE DEF b
  <2> QED  BY <1>3, <1>5
<1>7. net[e][1] \in Message /\ end[e] \in EndRecord /\ end[p] \in EndRecord
  BY <1>1, ReceivedType DEF TypeOK
<1>8. HasRead(end[e], e \in Clients, r[e]) /\ HasRead(end[p], p \in Clients, r[p])
  BY <1>1, <1>2 DEF InPlace
<1>9. EndInv(e) /\ EndInv(p)
  BY <1>1 DEF IInv
<1>10. e \in Clients <=> p \notin Clients
  BY <1>1, ClientsAssumption
\* The fifth message is the MAP of a client that both ends accept, or the
\* answer of a server to it.
<1>11. ASSUME r[e] = 4
       PROVE  end[e].st = IF e \in Clients THEN "MAP_ACK" ELSE "MAP"
  <2>1. b = 5
    <3> HIDE DEF b
    <3> QED  BY <1>3, <1>5, <1>11
  <2>2. r[p] \in {4, 5} /\ end[p].amAuth
    BY <1>8, <2>1, <1>3 DEF HasSent, HasRead
  <2>3. end[e].isAuth
    BY <1>1, <1>9, <2>2 DEF EndInv
  <2>4. CASE e \in Clients
    <3>1. r[p] = 5
      BY <1>8, <1>10, <2>1, <2>2, <2>4 DEF HasSent, HasRead
    <3>2. r[p] <= HasSent(phase[e], end[e], r[e])
      BY <1>1, <1>2 DEF InPlace
    <3>3. HasSent(phase[e], end[e], r[e]) = IF end[e].st = "MAP_ACK" THEN 5 ELSE 4
      BY <1>11 DEF HasSent
    <3> QED  BY <2>4, <3>1, <3>2, <3>3
  <2>5. CASE e \notin Clients
    BY <1>8, <1>11, <2>3, <2>5 DEF HasRead
  <2> QED  BY <2>4, <2>5
<1>12. Handles(end[e], net[e][1].type)
  <2>1. net[e][1].type = Script(e)[r[e] + 1]
    BY <1>5 DEF Says
  <2>2. \/ r[e] = 0 /\ r[e] + 1 = 1
        \/ r[e] = 1 /\ r[e] + 1 = 2
        \/ r[e] = 2 /\ r[e] + 1 = 3
        \/ r[e] = 3 /\ r[e] + 1 = 4
        \/ r[e] = 4 /\ r[e] + 1 = 5
    BY <1>6
  <2>3. end[e].handler \in {"proto", "ext"}
    BY <1>7 DEF EndRecord
  <2>4. end[e].handler = "ext" <=> end[e].isAuth /\ end[e].amAuth
    BY <1>9 DEF EndInv
  <2>5. CASE r[e] = 0
    BY <1>8, <2>1, <2>3, <2>4, <2>5, ScriptIs DEF HasRead, Handles, HandledIn, Dispatcher
  <2>6. CASE r[e] = 1
    BY <1>8, <2>1, <2>2, <2>3, <2>4, <2>6, ScriptIs DEF HasRead, Handles, HandledIn, Dispatcher
  <2>7. CASE r[e] = 2
    BY <1>8, <2>1, <2>2, <2>3, <2>4, <2>7, ScriptIs DEF HasRead, Handles, HandledIn, Dispatcher
  <2>8. CASE r[e] = 3
    BY <1>8, <2>1, <2>2, <2>3, <2>4, <2>8, ScriptIs DEF HasRead, Handles, HandledIn, Dispatcher
  <2>9. CASE r[e] = 4
    <3>1. end[e].handler = "ext"
      BY <1>8, <2>4, <2>9, <1>11 DEF HasRead
    <3> QED  BY <1>11, <2>1, <2>2, <2>9, <3>1, ScriptIs DEF Handles, HandledIn, Dispatcher
  <2> QED  BY <1>6, <2>5, <2>6, <2>7, <2>8, <2>9
<1> QED  BY <1>5, <1>6, <1>7, <1>8, <1>11, <1>12

\* The type of the message an end reads says how many it has read.
LEMMA TypeIsPlace ==
  ASSUME NEW e, NEW m, NEW k \in 0..4, Says(e, m, k + 1)
  PROVE  /\ m.type = "HELLO" <=> k = 0
         /\ m.type = "HELLO_ACK" <=> k = 1
         /\ m.type = "HELLO_ACK" => m.arg = Ok
         /\ m.type = "AUTH" <=> k = 2
         /\ m.type = "AUTH_ACK" <=> k = 3
         /\ m.type \in {"MAP", "MAP_ACK"} <=> k = 4
<1>1. m.type = Script(e)[k + 1] /\ (k + 1 = 2 => m.arg = Ok)
  BY DEF Says
<1>2. \/ k = 0 /\ k + 1 = 1
      \/ k = 1 /\ k + 1 = 2
      \/ k = 2 /\ k + 1 = 3
      \/ k = 3 /\ k + 1 = 4
      \/ k = 4 /\ k + 1 = 5
  OBVIOUS
<1> QED  BY <1>1, <1>2, ScriptIs

LEMMA HelloInOrder ==
  ASSUME TypeOK, IInv, NEW r \in Places, NEW e \in Ends, InOrder(e),
         1 \in DOMAIN net[e], RecvHello(e, 1)
  PROVE  OrderInv'
<1> DEFINE m == net[e][1]
           f == CoreProtoHello(end[e], HelloCode(version[e], m.arg))
<1>1. phase[e] = "up" /\ m.type = "HELLO" /\ Take(e, 1, f) /\ phase' = phase
  BY DEF RecvHello, Receives, Listens
<1>2. /\ r[e] \in 0..4 /\ Says(e, m, r[e] + 1)
      /\ m \in Message /\ end[e] \in EndRecord
      /\ HasRead(end[e], e \in Clients, r[e])
  BY <1>1, NextIsHandled
<1>3. r[e] = 0 /\ r[e] + 1 = 1
  BY <1>1, <1>2, TypeIsPlace
<1>4. HelloCode(version[e], m.arg) = Ok
  <2>1. Honest(e, m)
    BY DEF IInv, NetHonest
  <2> QED  BY <1>1, <2>1 DEF Honest, InOrder, SameVersion, HelloCode
<1>5. end[e].st = "HELLO_S" /\ ~ end[e].isAuth /\ ~ end[e].amAuth
  BY <1>2, <1>3 DEF HasRead
<1>6. f.end = [end[e] EXCEPT !.st = "HELLO_ACK_S"] /\ f.out = <<Msg("HELLO_ACK", Ok)>>
  BY <1>4, <1>5 DEF CoreProtoHello, Effect, Ok
<1>7. EffectOK(f)
  BY <1>2, <1>5, HelloCodeType, HelloType
<1> HIDE DEF f
<1>8. HasRead(f.end, e \in Clients, r[e] + 1)
  BY <1>2, <1>3, <1>5, <1>6 DEF HasRead, EndRecord
<1>9. HasSent("up", end[e], r[e]) = 1 /\ HasSent("up", f.end, r[e] + 1) = 2
  BY <1>2, <1>3, <1>5, <1>6 DEF HasSent, EndRecord
<1>10. Follows(Peer[e], f.out, 1, 2)
  <2>1. Says(Peer[e], Msg("HELLO_ACK", Ok), 1 + 1)
    BY ScriptIs DEF Says, Msg
  <2> QED  BY <1>6, <2>1, OneFollows
<1> QED  BY <1>1, <1>7, <1>8, <1>9, <1>10, TakeKeepsPlaces

LEMMA HelloAckInOrder ==
  ASSUME TypeOK, IInv, NEW r \in Places, NEW e \in Ends, InOrder(e),
         1 \in DOMAIN net[e], RecvHelloAck(e, 1)
  PROVE  OrderInv'
<1> DEFINE m == net[e][1]
           f == CoreProtoHelloAck(end[e], m.arg)
<1>1. phase[e] = "up" /\ m.type = "HELLO_ACK" /\ Take(e, 1, f) /\ phase' = phase
  BY DEF RecvHelloAck, Receives, Listens
<1>2. /\ r[e] \in 0..4 /\ Says(e, m, r[e] + 1)
      /\ m \in Message /\ end[e] \in EndRecord
      /\ HasRead(end[e], e \in Clients, r[e])
  BY <1>1, NextIsHandled
<1>3. r[e] = 1 /\ r[e] + 1 = 2 /\ m.arg = Ok
  BY <1>1, <1>2, TypeIsPlace
<1>4. end[e].st = "HELLO_ACK_S" /\ ~ end[e].isAuth /\ ~ end[e].amAuth
  BY <1>2, <1>3 DEF HasRead
<1>5. f.end = [end[e] EXCEPT !.st = "AUTH"] /\ f.out = <<Msg("AUTH", Ok)>>
  BY <1>3, <1>4 DEF CoreProtoHelloAck, Effect, Ok
<1>6. EffectOK(f)
  BY <1>2, <1>3, <1>4, CodesAre, HelloAckType
<1> HIDE DEF f
<1>7. HasRead(f.end, e \in Clients, r[e] + 1)
  BY <1>2, <1>3, <1>4, <1>5 DEF HasRead, EndRecord
<1>8. HasSent("up", end[e], r[e]) = 2 /\ HasSent("up", f.end, r[e] + 1) = 3
  BY <1>2, <1>3, <1>4, <1>5 DEF HasSent, EndRecord
<1>9. Follows(Peer[e], f.out, 2, 3)
  <2>1. Says(Peer[e], Msg("AUTH", Ok), 2 + 1)
    BY ScriptIs DEF Says, Msg
  <2> QED  BY <1>5, <2>1, OneFollows
<1> QED  BY <1>1, <1>6, <1>7, <1>8, <1>9, TakeKeepsPlaces

LEMMA AuthInOrder ==
  ASSUME TypeOK, IInv, NEW r \in Places, NEW e \in Ends, InOrder(e), NEW accept \in BOOLEAN,
         1 \in DOMAIN net[e], RecvAuth(e, 1, accept)
  PROVE  OrderInv'
<1> DEFINE m == net[e][1]
           f == CoreProtoCheckAuth(end[e], accept)
           code == IF accept THEN Ok ELSE AuthRefused
<1>1. phase[e] = "up" /\ m.type = "AUTH" /\ Take(e, 1, f) /\ phase' = phase
  BY DEF RecvAuth, Receives, Listens
<1>2. /\ r[e] \in 0..4 /\ Says(e, m, r[e] + 1)
      /\ m \in Message /\ end[e] \in EndRecord
      /\ HasRead(end[e], e \in Clients, r[e])
  BY <1>1, NextIsHandled
<1>3. r[e] = 2 /\ r[e] + 1 = 3
  BY <1>1, <1>2, TypeIsPlace
<1>4. end[e].st = "AUTH" /\ ~ end[e].isAuth /\ ~ end[e].amAuth
  BY <1>2, <1>3 DEF HasRead
<1>5. /\ f.end = IF accept THEN [end[e] EXCEPT !.isAuth = TRUE, !.st = "AUTH_ACK"] ELSE end[e]
      /\ f.out = <<Msg("AUTH_ACK", code)>>
  <2>1. CASE accept
    BY <1>2, <1>4, <2>1 DEF CoreProtoCheckAuth, HandOver, Effect, EndRecord
  <2>2. CASE ~ accept
    BY <1>2, <1>4, <2>2 DEF CoreProtoCheckAuth, HandOver, Effect, EndRecord
  <2> QED  BY <2>1, <2>2
<1>6. EffectOK(f)
  BY <1>2, <1>4, CheckAuthType
<1> HIDE DEF f
<1>7. HasRead(f.end, e \in Clients, r[e] + 1)
  BY <1>2, <1>3, <1>4, <1>5 DEF HasRead, EndRecord
<1>8. HasSent("up", end[e], r[e]) = 3 /\ HasSent("up", f.end, r[e] + 1) = 4
  BY <1>2, <1>3, <1>4, <1>5 DEF HasSent, EndRecord
<1>9. Follows(Peer[e], f.out, 3, 4)
  <2>1. Says(Peer[e], Msg("AUTH_ACK", code), 3 + 1)
    BY ScriptIs DEF Says, Msg
  <2> QED  BY <1>5, <2>1, OneFollows
<1> QED  BY <1>1, <1>6, <1>7, <1>8, <1>9, TakeKeepsPlaces

LEMMA MapInOrder ==
  ASSUME TypeOK, IInv, NEW r \in Places, NEW e \in Ends, InOrder(e), NEW found \in BOOLEAN,
         1 \in DOMAIN net[e], RecvMap(e, 1, found)
  PROVE  OrderInv'
<1> DEFINE m == net[e][1]
           f == CoreProtoMap(end[e], found)
           code == IF found THEN Ok ELSE EP_NO_EXIST
<1>1. phase[e] = "up" /\ m.type = "MAP" /\ Take(e, 1, f) /\ phase' = phase
  BY DEF RecvMap, Receives, Listens
<1>2. /\ r[e] \in 0..4 /\ Says(e, m, r[e] + 1)
      /\ m \in Message /\ end[e] \in EndRecord
      /\ HasRead(end[e], e \in Clients, r[e])
      /\ r[e] = 4 => end[e].st = IF e \in Clients THEN "MAP_ACK" ELSE "MAP"
  BY <1>1, NextIsHandled
<1>3. r[e] = 4 /\ r[e] + 1 = 5
  BY <1>1, <1>2, TypeIsPlace
<1>4. e \notin Clients /\ Peer[e] \in Clients
  <2>1. m.type = Script(e)[5]
    BY <1>2, <1>3 DEF Says
  <2> QED  BY <1>1, <2>1, ScriptIs, ClientsAssumption
<1>5. end[e].st = "MAP" /\ end[e].isAuth /\ end[e].amAuth
  BY <1>2, <1>3, <1>4 DEF HasRead
<1>6. /\ f.end = IF found THEN [end[e] EXCEPT !.lep = TRUE, !.st = "EXT_MSG", !.flag = code]
                 ELSE [end[e] EXCEPT !.st = "BAD", !.flag = code]
      /\ f.out = <<Msg("MAP_ACK", code)>>
  BY DEF CoreProtoMap, Effect
<1>7. EffectOK(f)
  BY <1>2, MapType
<1> HIDE DEF f
<1>8. HasRead(f.end, e \in Clients, r[e] + 1)
  BY <1>2, <1>3, <1>5, <1>6 DEF HasRead, EndRecord
<1>9. HasSent("up", end[e], r[e]) = 4 /\ HasSent("up", f.end, r[e] + 1) = 5
  BY <1>2, <1>3, <1>5, <1>6 DEF HasSent, EndRecord
<1>10. Follows(Peer[e], f.out, 4, 5)
  <2>1. Says(Peer[e], Msg("MAP_ACK", code), 4 + 1)
    BY <1>4, ScriptIs DEF Says, Msg
  <2> QED  BY <1>6, <2>1, OneFollows
<1> QED  BY <1>1, <1>7, <1>8, <1>9, <1>10, TakeKeepsPlaces

LEMMA MapAckInOrder ==
  ASSUME TypeOK, IInv, NEW r \in Places, NEW e \in Ends, InOrder(e),
         1 \in DOMAIN net[e], RecvMapAck(e, 1)
  PROVE  OrderInv'
<1> DEFINE m == net[e][1]
           f == CoreProtoMapAck(end[e], m.arg)
<1>1. phase[e] = "up" /\ m.type = "MAP_ACK" /\ Take(e, 1, f) /\ phase' = phase
  BY DEF RecvMapAck, Receives, Listens
<1>2. /\ r[e] \in 0..4 /\ Says(e, m, r[e] + 1)
      /\ m \in Message /\ end[e] \in EndRecord
      /\ HasRead(end[e], e \in Clients, r[e])
      /\ Handles(end[e], m.type)
      /\ m.arg \in Codes
  BY <1>1, NextIsHandled, ReceivedType
<1>3. r[e] = 4 /\ r[e] + 1 = 5
  BY <1>1, <1>2, TypeIsPlace
<1>4. end[e].st = "MAP_ACK" /\ end[e].isAuth /\ end[e].amAuth /\ end[e].lep
  <2>1. end[e].st = "MAP_ACK"
    BY <1>1, <1>2 DEF Handles, HandledIn
  <2> QED  BY <1>2, <1>3, <2>1 DEF HasRead, IInv, EndInv
<1>5. /\ f.end = IF m.arg = Ok THEN [end[e] EXCEPT !.st = "EXT_MSG"]
                 ELSE [end[e] EXCEPT !.st = "BAD", !.flag = m.arg]
      /\ f.out = <<>>
  <2>1. CASE m.arg = Ok
    BY <1>4, <2>1 DEF CoreProtoMapAck, Effect
  <2>2. CASE m.arg # Ok
    BY <1>4, <2>2 DEF CoreProtoMapAck, Effect
  <2> QED  BY <2>1, <2>2
<1>6. EffectOK(f)
  BY <1>2, MapAckType
<1> HIDE DEF f
<1>7. HasRead(f.end, e \in Clients, r[e] + 1)
  BY <1>2, <1>3, <1>4, <1>5 DEF HasRead, EndRecord
<1>8. HasSent("up", end[e], r[e]) = 5 /\ HasSent("up", f.end, r[e] + 1) = 5
  BY <1>2, <1>3, <1>4, <1>5 DEF HasSent, EndRecord
<1>9. Follows(Peer[e], f.out, 5, 5)
  BY <1>5, NothingFollows
<1> QED  BY <1>1, <1>6, <1>7, <1>8, <1>9, TakeKeepsPlaces

\* A step that leaves what the ends have read, and what e has sent, as it was.
LEMMA QuietKeepsPlaces ==
  ASSUME TypeOK, NEW r \in Places, NEW e \in Ends, InOrder(e),
         version' = version, end' = end, phase[e] # "idle",
         \A d \in Ends \ {e} : phase'[d] = phase[d] /\ net'[d] = net[d],
         \/ phase'[e] = "freed"
         \/ phase'[e] = "closing" /\ r[e] <= 3
  PROVE  OrderInv'
<1> DEFINE p == Peer[e]
           q == [r EXCEPT ![e] = r[e]]
<1>1. p \in Ends /\ p # e /\ Peer[p] = e
  BY PeerAssumption
<1>2. q = r /\ r[e] \in 0..5 /\ InPlace(e, r) /\ InPlace(p, r)
  BY <1>1, PeerInOrder DEF Places
<1>3. Only(e)
  BY DEF Only
<1>4. phase'[p] = phase[p] /\ net'[p] = net[p]
  BY <1>1
<1>5. InPlace(e, r)'
  BY <1>2, <1>4 DEF InPlace
<1>6. InPlace(p, r)'
  <2>1. HasSent(phase'[e], end'[e], r[e]) = HasSent(phase[e], end[e], r[e])
    BY DEF HasSent
  <2> QED  BY <1>1, <1>2, <1>4, <2>1 DEF InPlace
<1> HIDE DEF q
<1> QED  BY <1>2, <1>3, <1>5, <1>6, OnlyKeepsPlaces DEF q

\* An end that sends the next message of its script.
LEMMA SendKeepsPlaces ==
  ASSUME TypeOK, NEW r \in Places, NEW e \in Ends, InOrder(e),
         NEW t \in EndRecord, NEW m \in Message,
         version' = version, end' = [end EXCEPT ![e] = t],
         net' = [net EXCEPT ![Peer[e]] = Sent(Peer[e], <<m>>)],
         phase' = [phase EXCEPT ![e] = "up"],
         HasRead(t, e \in Clients, r[e]), phase[e] \in {"idle", "up"},
         NEW b \in 0..4, HasSent(phase[e], end[e], r[e]) = b,
         HasSent("up", t, r[e]) = b + 1, Says(Peer[e], m, b + 1)
  PROVE  OrderInv'
<1> DEFINE p == Peer[e]
           q == [r EXCEPT ![e] = r[e]]
<1>1. p \in Ends /\ p # e /\ Peer[p] = e
  BY PeerAssumption
<1>2. q = r /\ r \in [Ends -> 0..5] /\ InPlace(e, r) /\ InPlace(p, r)
  BY <1>1, PeerInOrder DEF Places
<1>3. /\ end'[e] = t /\ end'[p] = end[p] /\ phase'[e] = "up" /\ phase'[p] = phase[p]
      /\ net'[e] = net[e] /\ net'[p] = Sent(p, <<m>>)
      /\ \A d \in Ends \ {e, p} : /\ end'[d] = end[d] /\ net'[d] = net[d]
                                  /\ phase'[d] = phase[d]
  BY <1>1 DEF TypeOK
<1>4. Only(e)
  BY <1>3 DEF Only
<1>5. InPlace(e, r)'
  BY <1>2, <1>3 DEF InPlace
<1>6. InPlace(p, r)'
  <2>1. HasSent(phase'[e], end'[e], r[e]) = b + 1
    BY <1>3
  <2>2. r[p] \in 0..5 /\ b \in 0..5 /\ b + 1 \in 0..5
    BY <1>1, <1>2
  <2>3. r[p] <= b /\ b <= b + 1
    BY <1>1, <1>2 DEF InPlace
  <2>4. phase[p] \in {"idle", "up"} => Follows(p, net'[p], r[p], b + 1)
    <3> SUFFICES ASSUME phase[p] \in {"idle", "up"}
                 PROVE  Follows(p, net'[p], r[p], b + 1)
      OBVIOUS
    <3>1. net'[p] = net[p] \o <<m>>
      BY <1>3 DEF Sent
    <3>2. Follows(p, net[p], r[p], b)
      BY <1>1, <1>2 DEF InPlace
    <3>3. Follows(p, <<m>>, b, b + 1)
      BY OneFollows
    <3>4. net[p] \in Seq(Message) /\ <<m>> \in Seq(Message)
      <4> HIDE DEF Message
      <4> QED  BY <1>1 DEF TypeOK
    <3>5. Follows(p, net[p] \o <<m>>, r[p], b + 1)
      <4> DEFINE old == net[p]
                 new == <<m>>
                 c == b + 1
      <4>1. /\ old \in Seq(Message) /\ new \in Seq(Message) /\ c \in 0..5
            /\ Follows(p, old, r[p], b) /\ Follows(p, new, b, c)
        BY <2>2, <3>2, <3>3, <3>4
      <4> HIDE DEF old, new, c
      <4>2. Follows(p, old \o new, r[p], c)
        BY <2>2, <4>1, SentFollows
      <4> QED  BY <4>2 DEF old, new, c
    <3> QED  BY <3>1, <3>5
  <2>5. r[p] <= b + 1
    BY <2>2, <2>3
  <2> QED  BY <1>1, <1>2, <1>3, <2>1, <2>4, <2>5 DEF InPlace
<1>7. r[e] \in 0..5
  BY <1>2
<1> HIDE DEF q
<1> QED  BY <1>2, <1>4, <1>5, <1>6, <1>7, OnlyKeepsPlaces DEF q

LEMMA AuthAckInOrder ==
  ASSUME TypeOK, IInv, NEW r \in Places, NEW e \in Ends, InOrder(e),
         1 \in DOMAIN net[e], RecvAuthAck(e, 1)
  PROVE  OrderInv'
<1> DEFINE m == net[e][1]
           f == CoreProtoCheckAuthAck(end[e], m.arg)
<1>1. phase[e] = "up" /\ m.type = "AUTH_ACK" /\ Take(e, 1, f)
  BY DEF RecvAuthAck, Receives, Listens
<1>2. /\ r[e] \in 0..4 /\ Says(e, m, r[e] + 1)
      /\ m \in Message /\ end[e] \in EndRecord
      /\ HasRead(end[e], e \in Clients, r[e])
      /\ m.arg \in Codes
  BY <1>1, NextIsHandled, ReceivedType
<1>3. r[e] = 3 /\ r[e] + 1 = 4
  BY <1>1, <1>2, TypeIsPlace
<1>4. /\ ~ end[e].amAuth
      /\ \/ end[e].st = "AUTH" /\ ~ end[e].isAuth
         \/ end[e].st = "AUTH_ACK" /\ end[e].isAuth
  BY <1>2, <1>3 DEF HasRead
<1>5. EffectOK(f)
  BY <1>2, CheckAuthAckType
<1>6. CASE m.arg = Ok
  <2>1. /\ f.end.st = IF end[e].st = "AUTH_ACK" THEN "MAP" ELSE "AUTH_2"
        /\ f.end.amAuth /\ (f.end.isAuth <=> end[e].isAuth)
        /\ f.out = <<>>
    BY <1>2, <1>4, <1>6 DEF CoreProtoCheckAuthAck, HandOver, Effect, EndRecord
  <2>2. phase' = phase
    BY <1>6 DEF RecvAuthAck
  <2> HIDE DEF f
  <2>3. HasRead(f.end, e \in Clients, r[e] + 1)
    BY <1>3, <1>4, <2>1 DEF HasRead
  <2>4. HasSent("up", end[e], r[e]) = 4 /\ HasSent("up", f.end, r[e] + 1) = 4
    BY <1>3, <1>4, <2>1 DEF HasSent
  <2>5. Follows(Peer[e], f.out, 4, 4)
    BY <2>1, NothingFollows
  <2> QED  BY <1>1, <1>5, <2>2, <2>3, <2>4, <2>5, TakeKeepsPlaces
<1>7. CASE m.arg # Ok
  <2>1. f.end = end[e] /\ f.out = <<>>
    BY <1>2, <1>4, <1>7 DEF CoreProtoCheckAuthAck, HandOver, Effect, EndRecord
  <2>2. phase' = [phase EXCEPT ![e] = "closing"]
    BY <1>7 DEF RecvAuthAck
  <2> HIDE DEF f
  <2>3. Peer[e] \in Ends /\ Peer[e] # e
    BY PeerAssumption
  <2>4. end' = end /\ version' = version
    BY <1>1, <2>1 DEF Take, TypeOK
  <2>5. Sent(Peer[e], <<>>) = net[Peer[e]]
    <3>1. net[Peer[e]] \in Seq(Message)
      BY <2>3 DEF TypeOK
    <3>2. net[Peer[e]] \o <<>> = net[Peer[e]]
      <4> HIDE DEF Message
      <4> QED  BY <3>1, EmptySeq, ConcatEmptySeq
    <3> QED  BY <3>2 DEF Sent
  <2>6. \A d \in Ends \ {e} : phase'[d] = phase[d] /\ net'[d] = net[d]
    BY <1>1, <2>1, <2>2, <2>3, <2>5 DEF Take, TypeOK
  <2>7. phase'[e] = "closing" /\ r[e] <= 3 /\ phase[e] # "idle"
    BY <1>1, <1>3, <2>2 DEF TypeOK
  <2> QED  BY <2>4, <2>6, <2>7, QuietKeepsPlaces
<1> QED  BY <1>6, <1>7

LEMMA ConnectInOrder ==
  ASSUME TypeOK, IInv, NEW r \in Places, NEW e \in Ends, InOrder(e), Connect(e)
  PROVE  OrderInv'
<1> DEFINE m == Msg("HELLO", version[e])
<1>1. /\ phase[e] = "idle" /\ version' = version
      /\ phase' = [phase EXCEPT ![e] = "up"]
      /\ end' = [end EXCEPT ![e] = NewEnd]
      /\ net' = [net EXCEPT ![Peer[e]] = Sent(Peer[e], <<m>>)]
  BY DEF Connect
<1>2. r[e] = 0 /\ NewEnd \in EndRecord /\ m \in Message
  BY <1>1, NewEndType DEF Places, InPlace, Msg, Message, TypeOK
<1>3. HasRead(NewEnd, e \in Clients, r[e])
  BY <1>2 DEF HasRead, NewEnd
<1>4. HasSent(phase[e], end[e], r[e]) = 0 /\ HasSent("up", NewEnd, r[e]) = 0 + 1
  BY <1>1, <1>2 DEF HasSent, NewEnd
<1>5. Says(Peer[e], m, 0 + 1)
  BY ScriptIs DEF Says, Msg
<1>6. PICK b \in 0..4 : b = 0
  OBVIOUS
<1>7. /\ HasSent(phase[e], end[e], r[e]) = b
       /\ HasSent("up", NewEnd, r[e]) = b + 1 /\ Says(Peer[e], m, b + 1)
       /\ phase[e] \in {"idle", "up"}
  BY <1>1, <1>4, <1>5, <1>6
<1> HIDE DEF m
<1> QED  BY <1>1, <1>2, <1>3, <1>7, SendKeepsPlaces

LEMMA MapToInOrder ==
  ASSUME TypeOK, IInv, ~ Impatient, NEW r \in Places, NEW e \in Ends, InOrder(e), MapTo(e)
  PROVE  OrderInv'
<1> DEFINE m == Msg("MAP", Ok)
           t == [end[e] EXCEPT !.lep = TRUE, !.st = "MAP_ACK"]
<1>1. e \in Clients /\ Peer[e] \notin Clients /\ end[e].st = "MAP"
  BY ClientsAssumption DEF MapTo
<1>2. end[e] \in EndRecord /\ r[e] \in 0..5 /\ InPlace(e, r) /\ phase[e] \in {"up", "closing"}
  BY DEF TypeOK, Places, MapTo, SendMap
<1>3. HasRead(end[e], e \in Clients, r[e])
  BY <1>2 DEF InPlace
<1>4. r[e] = 4 /\ end[e].isAuth /\ end[e].amAuth
  BY <1>1, <1>2, <1>3 DEF HasRead
<1>5. phase[e] = "up"
  BY <1>2, <1>4 DEF InPlace
<1>6. /\ version' = version /\ phase' = phase
      /\ end' = [end EXCEPT ![e] = t]
      /\ net' = [net EXCEPT ![Peer[e]] = Sent(Peer[e], <<m>>)]
  BY <1>5 DEF MapTo, SendMap, CoreProtoMapTo, Effect
<1>7. phase' = [phase EXCEPT ![e] = "up"]
  BY <1>5, <1>6 DEF TypeOK
<1>8. t \in EndRecord /\ t.st = "MAP_ACK" /\ t.isAuth /\ t.amAuth
  BY <1>2, <1>4 DEF EndRecord, ConnStates
<1>9. m \in Message
  BY CodesAre DEF Message, Msg, MsgTypes
<1> HIDE DEF t
<1>10. HasRead(t, e \in Clients, r[e])
  BY <1>1, <1>4, <1>8 DEF HasRead
<1>11. HasSent(phase[e], end[e], r[e]) = 4 /\ HasSent("up", t, r[e]) = 4 + 1
  BY <1>1, <1>4, <1>5, <1>8 DEF HasSent
<1>12. Says(Peer[e], m, 4 + 1)
  BY <1>1, ScriptIs DEF Says, Msg
<1>13. PICK b \in 0..4 : b = 4
  OBVIOUS
<1>14. /\ HasSent(phase[e], end[e], r[e]) = b
       /\ HasSent("up", t, r[e]) = b + 1 /\ Says(Peer[e], m, b + 1)
       /\ phase[e] \in {"idle", "up"}
  BY <1>5, <1>11, <1>12, <1>13
<1> HIDE DEF m
<1> QED  BY <1>6, <1>7, <1>8, <1>9, <1>10, <1>14, SendKeepsPlaces

\* A step of end e leaves the other connections alone.
LEMMA StepIsLocal ==
  ASSUME TypeOK, NEW e \in Ends,
         \/ Connect(e) \/ Receive(e) \/ MapTo(e) \/ Disconnect(e)
         \/ Overtake(e) \/ LateWrite(e)
         \/ Break(e) \/ Lose(e) \/ Duplicate(e)
  PROVE  Only(e)
<1> USE PeerAssumption DEF Only, TypeOK
<1>1. ASSUME NEW i, NEW f, Take(e, i, f),
             phase' = phase \/ phase' = [phase EXCEPT ![e] = "closing"]
      PROVE  Only(e)
  BY <1>1 DEF Take
<1>2. CASE Connect(e)
  BY <1>2 DEF Connect
<1>3. CASE Receive(e)
  <2>1. PICK i \in DOMAIN net[e] :
          \/ RecvHello(e, i) \/ RecvHelloAck(e, i)
          \/ \E accept \in Verdicts(e) : RecvAuth(e, i, accept)
          \/ RecvAuthAck(e, i)
          \/ \E found \in BOOLEAN : RecvMap(e, i, found)
          \/ RecvMapAck(e, i) \/ Ignore(e, i)
    BY <1>3 DEF Receive
  <2>2. \E f : Take(e, i, f) /\ (phase' = phase \/ phase' = [phase EXCEPT ![e] = "closing"])
    BY <2>1 DEF RecvHello, RecvHelloAck, RecvAuth, RecvAuthAck, RecvMap, RecvMapAck, Ignore
  <2> QED  BY <1>1, <2>2
<1>4. CASE MapTo(e)
  BY <1>4 DEF MapTo, SendMap
<1>5. CASE Overtake(e)
  <2>1. PICK i \in DOMAIN net[e], accept \in BOOLEAN : RecvOvertaken(e, i, accept)
    BY <1>5, SomeOvertaken
  <2>2. /\ \E f : Take(e, i, f)
        /\ phase' = phase \/ phase' = [phase EXCEPT ![e] = "closing"]
    BY <2>1 DEF RecvOvertaken
  <2> QED  BY <1>1, <2>2
<1>8. CASE LateWrite(e)
  BY <1>8 DEF LateWrite
<1>6. CASE Disconnect(e) \/ Break(e)
  BY <1>6 DEF Disconnect, Break, Freed
<1>7. CASE Lose(e) \/ Duplicate(e)
  BY <1>7 DEF Lose, Duplicate
<1> QED  BY <1>2, <1>3, <1>4, <1>5, <1>6, <1>7, <1>8

\* A local endpoint is attached when the MAP is sent or answered, and no handler
\* is about to write the state over.
Attached(s) == s.late = "none" /\ (s.lep => s.st \in {"MAP_ACK", "EXT_MSG", "BAD"})

AllAttached == ~ Impatient => \A e \in Ends : Attached(end[e])

LEMMA OneAttached ==
  ASSUME TypeOK, AllAttached, NEW e \in Ends, NEW t, NEW out, Change(e, t, out), Attached(t)
  PROVE  AllAttached'
<1>1. end'[e] = t /\ \A d \in Ends \ {e} : end'[d] = end[d]
  BY DEF Change, TypeOK
<1>2. QED
  BY <1>1 DEF AllAttached

LEMMA HandOverAttached ==
  \A s \in EndRecord :
    HandOver(s).st = s.st /\ HandOver(s).lep = s.lep /\ HandOver(s).late = s.late
BY DEF HandOver, EndRecord

\* Each handler, on an end in a state in which the dispatch calls it.
LEMMA HandlersAttached ==
  ASSUME NEW s \in EndRecord, Attached(s), NEW code \in Codes, NEW ok \in BOOLEAN
  PROVE  /\ s.st \in HandledIn["HELLO"] => Attached(CoreProtoHello(s, code).end)
         /\ s.st \in HandledIn["HELLO_ACK"] => Attached(CoreProtoHelloAck(s, code).end)
         /\ s.st \in HandledIn["AUTH"] => Attached(CoreProtoCheckAuth(s, ok).end)
         /\ s.st \in HandledIn["AUTH_ACK"] => Attached(CoreProtoCheckAuthAck(s, code).end)
         /\ Attached(CoreProtoMap(s, ok).end)
         /\ s.st \in HandledIn["MAP_ACK"] => Attached(CoreProtoMapAck(s, code).end)
         /\ Attached(CoreProtoMapTo(s).end)
<1>1. s.st \in HandledIn["HELLO"] => Attached(CoreProtoHello(s, code).end)
  BY DEF CoreProtoHello, Effect, HandledIn, EndRecord, Attached
<1>2. s.st \in HandledIn["HELLO_ACK"] => Attached(CoreProtoHelloAck(s, code).end)
  BY DEF CoreProtoHelloAck, Effect, HandledIn, EndRecord, Attached
<1>3. ASSUME s.st \in HandledIn["AUTH"] PROVE Attached(CoreProtoCheckAuth(s, ok).end)
  <2> DEFINE known == s.isAuth \/ ok
             st == CASE known /\ s.st = "AUTH_2" -> "MAP"
                     [] known /\ s.st = "AUTH"   -> "AUTH_ACK"
                     [] OTHER                    -> s.st
             t == [s EXCEPT !.isAuth = known, !.st = st]
  <2>1. s.st \in {"AUTH", "AUTH_2"} /\ ~ s.lep /\ s.late = "none"
    BY <1>3 DEF HandledIn, Attached, EndRecord
  <2>2. t \in EndRecord /\ t.lep = s.lep /\ t.late = s.late
    BY <2>1 DEF EndRecord, ConnStates
  <2>3. CoreProtoCheckAuth(s, ok).end = HandOver(t)
    BY <2>1 DEF CoreProtoCheckAuth, Effect
  <2> HIDE DEF t, st, known
  <2>4. QED
    BY <2>1, <2>2, <2>3, HandOverAttached DEF Attached
<1>4. ASSUME s.st \in HandledIn["AUTH_ACK"] PROVE Attached(CoreProtoCheckAuthAck(s, code).end)
  <2> DEFINE st == IF code = Ok /\ s.st = "AUTH_ACK" THEN "MAP" ELSE "AUTH_2"
             t == [s EXCEPT !.amAuth = TRUE, !.st = st]
  <2>1. ~ s.lep /\ s.late = "none"
    BY <1>4 DEF HandledIn, Attached, EndRecord
  <2>2. t \in EndRecord /\ t.lep = s.lep /\ t.late = s.late
    BY DEF EndRecord, ConnStates
  <2>3. CoreProtoCheckAuthAck(s, code).end = HandOver(IF code = Ok THEN t ELSE s)
    BY DEF CoreProtoCheckAuthAck, Effect
  <2> HIDE DEF t, st
  <2>4. QED
    BY <2>1, <2>2, <2>3, HandOverAttached DEF Attached
<1>5. Attached(CoreProtoMap(s, ok).end)
  BY DEF CoreProtoMap, Effect, EndRecord, Attached
<1>6. s.st \in HandledIn["MAP_ACK"] => Attached(CoreProtoMapAck(s, code).end)
  BY DEF CoreProtoMapAck, Effect, HandledIn, EndRecord, Attached
<1>7. Attached(CoreProtoMapTo(s).end)
  BY DEF CoreProtoMapTo, Effect, EndRecord, Attached
<1>8. QED
  BY <1>1, <1>2, <1>3, <1>4, <1>5, <1>6, <1>7

LEMMA AttachedStep == TypeOK /\ IInv /\ AllAttached /\ [Next]_vars => AllAttached'
<1> SUFFICES ASSUME TypeOK, IInv, AllAttached, [Next]_vars, ~ Impatient PROVE AllAttached'
  BY DEF AllAttached
<1>1. \A e \in Ends : end[e] \in EndRecord /\ Attached(end[e])
  BY DEF TypeOK, AllAttached
<1>2. CASE UNCHANGED vars
  BY <1>2 DEF vars, AllAttached
<1>3. ASSUME NEW e \in Ends, Connect(e) PROVE AllAttached'
  <2>1. Change(e, NewEnd, <<Msg("HELLO", version[e])>>) /\ Attached(NewEnd)
    BY <1>3, ConnectChange DEF Attached, NewEnd
  <2>2. PICK t, out : t = NewEnd /\ out = <<Msg("HELLO", version[e])>>
    OBVIOUS
  <2>3. QED
    BY <2>1, <2>2, OneAttached
<1>4. ASSUME NEW e \in Ends, Receive(e) PROVE AllAttached'
  <2>1. PICK i \in DOMAIN net[e] :
          \/ RecvHello(e, i) \/ RecvHelloAck(e, i)
          \/ \E accept \in Verdicts(e) : RecvAuth(e, i, accept)
          \/ RecvAuthAck(e, i)
          \/ \E found \in BOOLEAN : RecvMap(e, i, found)
          \/ RecvMapAck(e, i) \/ Ignore(e, i)
    BY <1>4 DEF Receive
  <2>2. CASE RecvHello(e, i)
    <3>1. PICK t, out : t = CoreProtoHello(end[e], HelloCode(version[e], net[e][i].arg)).end
                        /\ Change(e, t, out)
      BY <2>2, HelloChange
    <3>2. end[e].st \in HandledIn["HELLO"]
      BY <2>2 DEF RecvHello, Receives, Handles
    <3>3. QED
      BY <1>1, <3>1, <3>2, HelloCodeType, HandlersAttached, OneAttached
  <2>3. CASE RecvHelloAck(e, i)
    <3>1. PICK t, out : t = CoreProtoHelloAck(end[e], net[e][i].arg).end /\ Change(e, t, out)
      BY <2>3, HelloAckChange
    <3>2. end[e].st \in HandledIn["HELLO_ACK"] /\ net[e][i].arg \in Codes
      BY <2>3, ReceivedType DEF RecvHelloAck, Receives, Handles
    <3>3. QED
      BY <1>1, <3>1, <3>2, HandlersAttached, OneAttached
  <2>4. CASE \E accept \in Verdicts(e) : RecvAuth(e, i, accept)
    <3>1. PICK accept \in BOOLEAN : RecvAuth(e, i, accept)
      BY <2>4 DEF Verdicts
    <3>2. PICK t, out : t = CoreProtoCheckAuth(end[e], accept).end /\ Change(e, t, out)
      BY <3>1, AuthChange
    <3>3. end[e].st \in HandledIn["AUTH"]
      BY <3>1 DEF RecvAuth, Receives, Handles
    <3>4. QED
      BY <1>1, <3>2, <3>3, CodesAre, HandlersAttached, OneAttached
  <2>5. CASE RecvAuthAck(e, i)
    <3>1. PICK t, out : t = CoreProtoCheckAuthAck(end[e], net[e][i].arg).end /\ Change(e, t, out)
      BY <2>5, AuthAckChange
    <3>2. end[e].st \in HandledIn["AUTH_ACK"] /\ net[e][i].arg \in Codes
      BY <2>5, ReceivedType DEF RecvAuthAck, Receives, Handles
    <3>3. QED
      BY <1>1, <3>1, <3>2, HandlersAttached, OneAttached
  <2>6. CASE \E found \in BOOLEAN : RecvMap(e, i, found)
    <3>1. PICK found \in BOOLEAN : RecvMap(e, i, found)
      BY <2>6
    <3>2. PICK t, out : t = CoreProtoMap(end[e], found).end /\ Change(e, t, out)
      BY <3>1, MapChange
    <3>3. QED
      BY <1>1, <3>2, CodesAre, HandlersAttached, OneAttached
  <2>7. CASE RecvMapAck(e, i)
    <3>1. PICK t, out : t = CoreProtoMapAck(end[e], net[e][i].arg).end /\ Change(e, t, out)
      BY <2>7, MapAckChange
    <3>2. end[e].st \in HandledIn["MAP_ACK"] /\ net[e][i].arg \in Codes
      BY <2>7, ReceivedType DEF RecvMapAck, Receives, Handles
    <3>3. QED
      BY <1>1, <3>1, <3>2, HandlersAttached, OneAttached
  <2>8. CASE Ignore(e, i)
    <3>1. PICK t, out : (t = end[e] \/ t = HandOver(end[e])) /\ Change(e, t, out)
      BY <2>8, IgnoreChange
    <3>2. QED
      BY <1>1, <3>1, HandOverAttached, OneAttached DEF Attached
  <2>9. QED
    BY <2>1, <2>2, <2>3, <2>4, <2>5, <2>6, <2>7, <2>8
<1>5. ASSUME NEW e \in Ends, MapTo(e) PROVE AllAttached'
  <2>1. PICK t, out : t = CoreProtoMapTo(end[e]).end /\ Change(e, t, out)
    BY <1>5, SendMapChange DEF MapTo
  <2>2. QED
    BY <1>1, <2>1, CodesAre, HandlersAttached, OneAttached
<1>6. ASSUME NEW e \in Ends, Disconnect(e) \/ Break(e) \/ Lose(e) \/ Duplicate(e) PROVE AllAttached'
  <2>1. PICK t, out : t = end[e] /\ Change(e, t, out)
    BY <1>6, QuietChange
  <2>2. QED
    BY <1>1, <2>1, OneAttached
<1>7. ASSUME NEW e \in Ends, Overtake(e) PROVE AllAttached'
  <2>1. PICK i \in DOMAIN net[e] : RecvAuthOvertaken(e, i)
    BY <1>7 DEF Overtake
  <2>2. PICK f : f = CoreProtoCheckAuth(end[e], TRUE)
    OBVIOUS
  <2>3. PICK g : g = CoreProtoMapTo(f.end)
    OBVIOUS
  <2>4. end' = [end EXCEPT ![e] = g.end]
    BY <2>1, <2>2, <2>3 DEF RecvAuthOvertaken, Take, Effect
  <2>5. end[e].st \in HandledIn["AUTH"]
    BY <2>1 DEF RecvAuthOvertaken, HandledIn
  <2>6. Attached(f.end) /\ f.end \in EndRecord
    BY <1>1, <2>2, <2>5, CodesAre, HandlersAttached, CheckAuthType DEF EffectOK
  <2>7. Attached(g.end)
    BY <2>3, <2>6, CodesAre, HandlersAttached
  <2>8. QED
    BY <1>1, <2>4, <2>7 DEF AllAttached, TypeOK
<1>8. ASSUME NEW e \in Ends, LateWrite(e) PROVE AllAttached'
  BY <1>1, <1>8 DEF Attached, LateWrite
<1>9. QED
  BY <1>2, <1>3, <1>4, <1>5, <1>6, <1>7, <1>8 DEF Next

LEMMA OrderInit == Init => OrderInv
<1> SUFFICES ASSUME Init
             PROVE  Places # {}
  BY DEF OrderInv
<1> DEFINE r == [e \in Ends |-> 0]
<1>1. ASSUME NEW e \in Ends
      PROVE  InPlace(e, r)
  <2>1. Peer[e] \in Ends
    BY PeerAssumption
  <2>2. /\ r[e] = 0 /\ r[Peer[e]] = 0 /\ phase[e] = "idle" /\ phase[Peer[e]] = "idle"
        /\ end[e] = NewEnd /\ net[e] = <<>>
    BY <2>1 DEF Init
  <2>3. HasSent(phase[Peer[e]], end[Peer[e]], r[Peer[e]]) = 0
    BY <2>2 DEF HasSent
  <2>4. HasRead(end[e], e \in Clients, r[e])
    BY <2>2 DEF HasRead, NewEnd
  <2> HIDE DEF r
  <2> QED  BY <2>2, <2>3, <2>4, NothingFollows DEF InPlace
<1>2. r \in Places
  BY <1>1 DEF Places
<1> QED  BY <1>2

LEMMA OrderStep == TypeOK /\ IInv /\ AllAttached /\ OrderInv /\ [Next]_vars => OrderInv'
<1> SUFFICES ASSUME TypeOK, IInv, AllAttached, OrderInv, [Next]_vars, ~ Impatient
             PROVE  OrderInv'
  BY DEF OrderInv
<1>1. PICK r : r \in Places
  BY DEF OrderInv
<1>2. CASE UNCHANGED vars
  <2>1. version' = version /\ phase' = phase /\ end' = end /\ net' = net
    BY <1>2 DEF vars
  <2>2. r \in Places'
    BY <1>1, <2>1 DEF Places, InPlace, InOrder, Ordered, SameVersion
  <2> QED  BY <2>2 DEF OrderInv
<1>3. CASE Next
  <2>1. PICK e \in Ends :
          \/ Connect(e) \/ Receive(e) \/ MapTo(e) \/ Disconnect(e)
          \/ Overtake(e) \/ LateWrite(e)
          \/ Break(e) \/ Lose(e) \/ Duplicate(e)
    BY <1>3 DEF Next
  <2>2. Only(e)
    BY <2>1, StepIsLocal
  <2>3. CASE ~ InOrder(e)
    <3>1. r[e] \in 0..5
      BY <1>1 DEF Places
    <3> QED  BY <1>1, <2>2, <2>3, <3>1, OnlyKeepsPlaces
  <2>4. CASE InOrder(e)
    <3>1. Faults[e] \cap {"lose", "reorder", "duplicate"} = {}
      BY <2>4 DEF InOrder, Ordered
    <3>2. \A i \in Deliverable(e) : i = 1 /\ 1 \in DOMAIN net[e]
      BY <3>1 DEF Deliverable
    <3>3. CASE Connect(e)
      BY <1>1, <2>4, <3>3, ConnectInOrder
    <3>4. CASE Receive(e)
      <4>1. PICK i \in DOMAIN net[e] :
              \/ RecvHello(e, i) \/ RecvHelloAck(e, i)
              \/ \E accept \in Verdicts(e) : RecvAuth(e, i, accept)
              \/ RecvAuthAck(e, i)
              \/ \E found \in BOOLEAN : RecvMap(e, i, found)
              \/ RecvMapAck(e, i) \/ Ignore(e, i)
        BY <3>4 DEF Receive
      <4>2. i \in Deliverable(e) /\ phase[e] = "up"
        BY <4>1 DEF RecvHello, RecvHelloAck, RecvAuth, RecvAuthAck, RecvMap, RecvMapAck,
                    Ignore, Receives, Listens
      <4>3. i = 1 /\ 1 \in DOMAIN net[e]
        BY <3>2, <4>2
      <4>4. CASE RecvHello(e, i)
        BY <1>1, <2>4, <4>3, <4>4, HelloInOrder
      <4>5. CASE RecvHelloAck(e, i)
        BY <1>1, <2>4, <4>3, <4>5, HelloAckInOrder
      <4>6. CASE \E accept \in Verdicts(e) : RecvAuth(e, i, accept)
        <5>1. PICK accept \in BOOLEAN : RecvAuth(e, i, accept)
          BY <4>6 DEF Verdicts
        <5> QED  BY <1>1, <2>4, <4>3, <5>1, AuthInOrder
      <4>7. CASE RecvAuthAck(e, i)
        BY <1>1, <2>4, <4>3, <4>7, AuthAckInOrder
      <4>8. CASE \E found \in BOOLEAN : RecvMap(e, i, found)
        BY <1>1, <2>4, <4>3, <4>8, MapInOrder
      <4>9. CASE RecvMapAck(e, i)
        BY <1>1, <2>4, <4>3, <4>9, MapAckInOrder
      <4>10. CASE Ignore(e, i)
        BY <1>1, <2>4, <4>2, <4>3, <4>10, NextIsHandled DEF Ignore
      <4> QED  BY <4>1, <4>4, <4>5, <4>6, <4>7, <4>8, <4>9, <4>10
    <3>5. CASE MapTo(e)
      BY <1>1, <2>4, <3>5, MapToInOrder
    <3>6. CASE Overtake(e)
      <4>1. PICK i \in DOMAIN net[e] : RecvAuthOvertaken(e, i)
        BY <3>6 DEF Overtake
      <4>2. /\ phase[e] = "up" /\ i \in Deliverable(e)
            /\ net[e][i].type = "AUTH" /\ end[e].st = "AUTH_2"
        BY <4>1 DEF RecvAuthOvertaken, Receives, Listens
      <4>3. i = 1 /\ 1 \in DOMAIN net[e]
        BY <3>2, <4>2
      <4>4. /\ r[e] \in 0..4 /\ Says(e, net[e][1], r[e] + 1)
            /\ HasRead(end[e], e \in Clients, r[e])
        BY <1>1, <2>4, <4>2, <4>3, NextIsHandled
      <4>5. r[e] = 2
        BY <4>2, <4>3, <4>4, TypeIsPlace
      <4> QED  BY <4>2, <4>4, <4>5 DEF HasRead
    <3>7. CASE Disconnect(e) \/ Break(e)
      <4>1. Freed(e) /\ phase[e] # "idle"
        BY <3>7 DEF Disconnect, Break, Listens
      <4>2. /\ version' = version /\ end' = end /\ phase'[e] = "freed"
            /\ \A d \in Ends \ {e} : phase'[d] = phase[d] /\ net'[d] = net[d]
        BY <4>1 DEF Freed, TypeOK
      <4> QED  BY <1>1, <2>4, <4>1, <4>2, QuietKeepsPlaces
    <3>8. CASE Lose(e) \/ Duplicate(e)
      BY <3>1, <3>8 DEF Lose, Duplicate
    <3>9. CASE LateWrite(e)
      BY <3>9 DEF LateWrite, AllAttached, Attached
    <3> QED  BY <2>1, <3>3, <3>4, <3>5, <3>6, <3>7, <3>8, <3>9
  <2> QED  BY <2>3, <2>4
<1> QED  BY <1>2, <1>3

\* On a transport that keeps the order and loses nothing, an end of two cores of
\* one version is always in the state that handles the message it reads next,
\* for any number of connections and whatever the access modules decide: nothing
\* core_on_proto_message and core_on_message are given is forgotten.
THEOREM NothingIsIgnored == Spec => []NothingIgnored
<1>1. TypeOK /\ IInv /\ OrderInv => NothingIgnored
  <2> SUFFICES ASSUME TypeOK, IInv, OrderInv, ~ Impatient, NEW e \in Ends,
                      Ordered(e), version[e] = version[Peer[e]],
                      phase[e] = "up", net[e] # <<>>
               PROVE  Handles(end[e], Head(net[e]).type)
    BY DEF NothingIgnored
  <2>1. PICK r : r \in Places
    BY DEF OrderInv
  <2>2. 1 \in DOMAIN net[e] /\ Head(net[e]) = net[e][1]
    <3>1. net[e] \in Seq(Message)
      BY DEF TypeOK
    <3> HIDE DEF Message
    <3> QED  BY <3>1
  <2> QED  BY <2>1, <2>2, NextIsHandled DEF InOrder, SameVersion
<1>2. Init => TypeOK /\ IInv /\ AllAttached /\ OrderInv
  BY TypeInit, InvariantInit, OrderInit DEF Init, AllAttached, Attached, NewEnd
<1>3. TypeOK /\ IInv /\ AllAttached /\ OrderInv /\ [Next]_vars
        => (TypeOK /\ IInv /\ AllAttached /\ OrderInv)'
  BY TypeStep, InvariantStep, AttachedStep, OrderStep
<1> QED  BY <1>1, <1>2, <1>3, PTL DEF Spec

-----------------------------------------------------------------------------
(* Never stuck: as long as a connection in order has not settled, one of   *)
(* its ends has something to do.                                           *)

MayConnect(e) == e \notin Clients /\ phase[e] = "idle" /\ phase[Peer[e]] # "idle"

MayReceive(e) == Listens(e) /\ net[e] # <<>> /\ Handles(end[e], Head(net[e]).type)

MayMap(e) == e \in Clients /\ phase[e] = "up" /\ end[e].st = "MAP" /\ ~ end[e].lep

MayDisconnect(e) ==
  \/ phase[e] = "closing"
  \/ Listens(e) /\ phase[Peer[e]] \in {"closing", "freed"}

MayGoOn(e) == MayConnect(e) \/ MayReceive(e) \/ MayMap(e) \/ MayDisconnect(e)

\* The MAP is answered, or the STATE is freed.
Settled(e) == phase[e] = "freed" \/ end[e].st \in {"EXT_MSG", "BAD"}

NeverStuck ==
  ~ Impatient =>
    \A e \in Ends :
      InOrder(e) /\ phase[e] # "idle" =>
        \/ Settled(e) /\ Settled(Peer[e])
        \/ MayGoOn(e) \/ MayGoOn(Peer[e])

\* A server is only opened for a client.
ServersFollow ==
  \A e \in Ends : e \notin Clients /\ phase[e] # "idle" => phase[Peer[e]] # "idle"

LEMMA FollowStep == TypeOK /\ ServersFollow /\ [Next]_vars => ServersFollow'
<1> SUFFICES ASSUME TypeOK, ServersFollow, [Next]_vars PROVE ServersFollow'
  OBVIOUS
<1>1. ASSUME NEW d \in Ends
      PROVE  /\ phase[d] # "idle" => phase'[d] # "idle"
             /\ phase[d] = "idle" /\ phase'[d] # "idle" => Connect(d)
  <2>1. CASE UNCHANGED vars
    BY <2>1 DEF vars
  <2>2. CASE Next
    <3>1. PICK e \in Ends :
            \/ Connect(e) \/ Receive(e) \/ MapTo(e) \/ Disconnect(e)
            \/ Overtake(e) \/ LateWrite(e)
            \/ Break(e) \/ Lose(e) \/ Duplicate(e)
      BY <2>2 DEF Next
    <3>2. CASE Connect(e)
      BY <3>2 DEF Connect, TypeOK
    <3>3. ASSUME phase[e] # "idle", phase' = phase \/ \E p \in {"closing", "freed"} :
                                                       phase' = [phase EXCEPT ![e] = p]
          PROVE  /\ phase[d] # "idle" => phase'[d] # "idle"
                 /\ phase[d] = "idle" /\ phase'[d] # "idle" => Connect(d)
      BY <3>3 DEF TypeOK
    <3>4. CASE Receive(e)
      BY <3>3, <3>4
         DEF Receive, RecvHello, RecvHelloAck, RecvAuth, RecvAuthAck, RecvMap, RecvMapAck, Ignore,
             Receives, Listens
    <3>5. CASE Overtake(e)
      <4>1. PICK i \in DOMAIN net[e], accept \in BOOLEAN : RecvOvertaken(e, i, accept)
        BY <3>5, SomeOvertaken
      <4>2. QED
        BY <3>3, <4>1 DEF RecvOvertaken, Receives, Listens
    <3>6. CASE Disconnect(e) \/ Break(e)
      BY <3>3, <3>6 DEF Disconnect, Break, Freed, Listens
    <3>7. CASE MapTo(e) \/ LateWrite(e) \/ Lose(e) \/ Duplicate(e)
      <4>1. phase' = phase
        BY <3>7 DEF MapTo, SendMap, LateWrite, Lose, Duplicate
      <4>2. QED
        BY <4>1
    <3>8. QED
      BY <3>1, <3>2, <3>4, <3>5, <3>6, <3>7
  <2>3. QED
    BY <2>1, <2>2
<1>2. ASSUME NEW e \in Ends, e \notin Clients, phase'[e] # "idle" PROVE phase'[Peer[e]] # "idle"
  <2>1. Peer[e] \in Ends
    BY PeerAssumption
  <2>2. phase[Peer[e]] # "idle"
    BY <1>1, <1>2 DEF Connect, ServersFollow
  <2>3. QED
    BY <1>1, <2>1, <2>2
<1>3. QED
  BY <1>2 DEF ServersFollow

\* When nothing is in flight on a connection in order, only core_map can go on.
LEMMA QuietIsSettled ==
  ASSUME TypeOK, IInv, NEW r \in Places, NEW e \in Clients, InOrder(e),
         phase[e] = "up", phase[Peer[e]] = "up", net[e] = <<>>, net[Peer[e]] = <<>>
  PROVE  end[e].st \in {"MAP", "EXT_MSG", "BAD"}
<1> DEFINE p == Peer[e]
           a == r[e]
           b == r[p]
<1>1. e \in Ends /\ p \in Ends /\ Peer[p] = e /\ p \notin Clients
  BY ClientsAssumption, PeerAssumption
<1>2. a \in 0..5 /\ b \in 0..5 /\ InPlace(e, r) /\ InPlace(p, r)
  BY <1>1, PeerInOrder DEF Places
<1>3. HasRead(end[e], TRUE, a) /\ HasRead(end[p], FALSE, b)
  BY <1>1, <1>2 DEF InPlace, HasRead
<1>4. HasSent("up", end[p], b) = a /\ HasSent("up", end[e], a) = b
  <2>1. Follows(e, <<>>, a, HasSent("up", end[p], b))
    BY <1>1, <1>2 DEF InPlace
  <2>2. Follows(p, <<>>, b, HasSent("up", end[e], a))
    BY <1>1, <1>2 DEF InPlace
  <2>3. HasSent("up", end[p], b) \in 0..5 /\ HasSent("up", end[e], a) \in 0..5
    BY <1>2, HasSentType
  <2>4. \A d, x, y : x \in 0..5 /\ y \in 0..5 /\ Follows(d, <<>>, x, y) => x = y
    BY DEF Follows
  <2> HIDE DEF a, b
  <2> QED  BY <1>2, <2>1, <2>2, <2>3, <2>4
<1>5. end[e].isAuth \/ ~ end[p].amAuth
  <2>1. EndInv(p)
    BY <1>1 DEF IInv
  <2> QED  BY <1>1, <2>1 DEF EndInv
<1> HIDE DEF p, a, b
<1>6. end[p].st # "MAP_ACK"
  BY <1>3 DEF HasRead
<1>7. end[e].st # "MAP_ACK"
  <2> SUFFICES ASSUME end[e].st = "MAP_ACK"
               PROVE  FALSE
    OBVIOUS
  <2>1. a = 4 /\ b = 5
    BY <1>3, <1>4 DEF HasRead, HasSent
  <2> QED  BY <1>4, <1>6, <2>1 DEF HasSent
<1>8. a = (IF b \in {4, 5} THEN b ELSE b + 1) /\ b = (IF a \in {4, 5} THEN a ELSE a + 1)
  BY <1>4, <1>6, <1>7 DEF HasSent
<1>9. a \in {4, 5} /\ b = a
  BY <1>2, <1>8
<1>10. a = 4 => end[p].amAuth
  BY <1>3, <1>9 DEF HasRead
<1> QED  BY <1>3, <1>5, <1>7, <1>9, <1>10 DEF HasRead

\* With both ends open, a message that waits is handled; when none does, what
\* the client's state says is true of both.
LEMMA OpenGoesOn ==
  ASSUME TypeOK, IInv, AllAttached, ~ Impatient, NEW r \in Places, NEW e \in Clients, InOrder(e),
         phase[e] = "up", phase[Peer[e]] = "up"
  PROVE  \/ Settled(e) /\ Settled(Peer[e])
         \/ MayGoOn(e) \/ MayGoOn(Peer[e])
<1> DEFINE p == Peer[e]
<1>1. e \in Ends /\ p \in Ends /\ Peer[p] = e /\ InOrder(p)
  BY ClientsAssumption, PeerAssumption, PeerInOrder
<1>2. ASSUME NEW d \in {e, p}, net[d] # <<>> PROVE MayReceive(d)
  <2>1. d \in Ends /\ InOrder(d) /\ phase[d] = "up"
    BY <1>1
  <2>2. 1 \in DOMAIN net[d] /\ Head(net[d]) = net[d][1]
    <3>1. net[d] \in Seq(Message)
      BY <2>1 DEF TypeOK
    <3> HIDE DEF Message
    <3>2. QED
      BY <1>2, <3>1
  <2>3. QED
    BY <1>2, <2>1, <2>2, NextIsHandled DEF MayReceive, Listens, AllAttached, Attached
<1>3. CASE net[e] = <<>> /\ net[p] = <<>>
  <2>1. end[e].st \in {"MAP", "EXT_MSG", "BAD"}
    BY <1>3, QuietIsSettled
  <2>2. CASE end[e].st = "MAP"
    BY <1>1, <2>2 DEF MayGoOn, MayMap, AllAttached, Attached
  <2>3. CASE end[e].st \in {"EXT_MSG", "BAD"}
    BY <1>1, <2>3 DEF IInv, EndInv, Settled
  <2>4. QED
    BY <2>1, <2>2, <2>3
<1>4. QED
  BY <1>2, <1>3 DEF MayGoOn

LEMMA GoesOn ==
  ASSUME TypeOK, IInv, OrderInv, ServersFollow, AllAttached
  PROVE  NeverStuck
<1> SUFFICES ASSUME ~ Impatient, NEW e \in Ends, InOrder(e), phase[e] # "idle"
             PROVE  \/ Settled(e) /\ Settled(Peer[e])
                    \/ MayGoOn(e) \/ MayGoOn(Peer[e])
  BY DEF NeverStuck
<1> DEFINE p == Peer[e]
<1>1. /\ p \in Ends /\ Peer[p] = e /\ InOrder(p)
      /\ e \in Clients <=> p \notin Clients
      /\ phase[e] \in {"up", "closing", "freed"} /\ phase[p] \in {"idle", "up", "closing", "freed"}
  BY PeerAssumption, ClientsAssumption, PeerInOrder DEF TypeOK
<1>2. PICK r : r \in Places
  BY DEF OrderInv
<1>3. CASE phase[e] = "up" /\ phase[p] = "up"
  <2>1. CASE e \in Clients
    BY <1>2, <1>3, <2>1, OpenGoesOn
  <2>2. CASE p \in Clients
    <3>1. \/ Settled(p) /\ Settled(Peer[p])
          \/ MayGoOn(p) \/ MayGoOn(Peer[p])
      BY <1>1, <1>2, <1>3, <2>2, OpenGoesOn
    <3>2. QED
      BY <1>1, <3>1
  <2>3. QED
    BY <1>1, <2>1, <2>2
<1>4. CASE phase[p] = "idle"
  <2>1. p \notin Clients
    BY <1>1, <1>4 DEF ServersFollow
  <2>2. QED
    BY <1>1, <1>4, <2>1 DEF MayGoOn, MayConnect
<1>5. CASE "closing" \in {phase[e], phase[p]}
  BY <1>5 DEF MayGoOn, MayDisconnect
<1>6. CASE phase[e] = "freed" /\ phase[p] \in {"up", "freed"}
  BY <1>1, <1>6 DEF Settled, MayGoOn, MayDisconnect, Listens, AllAttached, Attached
<1>7. CASE phase[e] = "up" /\ phase[p] = "freed"
  BY <1>1, <1>7 DEF MayGoOn, MayDisconnect, Listens, AllAttached, Attached
<1>8. QED
  BY <1>1, <1>3, <1>4, <1>5, <1>6, <1>7

\* Nobody waits on everybody: on a transport that keeps the order and loses
\* nothing but may break, whatever the access modules decide and the queries
\* find, a connection of two cores of one version that has not settled on both
\* ends always has a message that its receiver handles (core_on_proto_message,
\* core_on_message), a MAP for core_map to send, a server to accept, or an end
\* to disconnect.  It is the part of Settles that needs no fairness.
THEOREM ConnectionNeverStuck == Spec => []NeverStuck
<1>1. Init => TypeOK /\ IInv /\ OrderInv /\ ServersFollow /\ AllAttached
  <2>1. Init => ServersFollow /\ AllAttached
    BY DEF Init, ServersFollow, AllAttached, Attached, NewEnd
  <2>2. QED
    BY <2>1, TypeInit, InvariantInit, OrderInit
<1>2. TypeOK /\ IInv /\ OrderInv /\ ServersFollow /\ AllAttached /\ [Next]_vars
        => (TypeOK /\ IInv /\ OrderInv /\ ServersFollow /\ AllAttached)'
  BY TypeStep, InvariantStep, OrderStep, FollowStep, AttachedStep
<1>3. QED
  BY <1>1, <1>2, GoesOn, PTL DEF Spec
=============================================================================
