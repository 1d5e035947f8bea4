---------------------------- MODULE CoreMapProofs ----------------------------
(***************************************************************************)
(* Theorems about CoreMap, for any threads, modules and connections, and   *)
(* whatever ends the waits: what Handshake guarantees survives core_map,   *)
(* and a call maps at most one of the connections it opened.  Of a call    *)
(* that is alone, that it returns 0 only when it is mapped.                *)
(*                                                                         *)
(* Handshake lets core_map send its MAP after the second token, or at any  *)
(* time once, if it is Impatient; here a thread may send it early in any   *)
(* case.  Every step still changes at most one end, as EndStep says, and   *)
(* what one thread or the rest of the system does spares the connections   *)
(* of the other threads.                                                   *)
(***************************************************************************)
EXTENDS CoreMap, HandshakeProofs, FiniteSetTheorems

-----------------------------------------------------------------------------
(* What the handlers leave of an end. *)

\* The states of an end that the peer has accepted.
Reached == {"AUTH_2", "MAP", "MAP_ACK", "EXT_MSG", "BAD"}

AcceptedLate(s) ==
  s.amAuth => s.st \in Reached /\ s.late \in Reached \cup {"none"}

\* The flag of a client is that of its MAP, if it failed.
FlagIsFailure(e, s) == e \in Clients => (s.flag # Ok <=> s.st = "BAD")

\* What the receive thread of e may make of its STATE.
Handled(e, s, t) ==
  /\ t \in EndRecord
  /\ AcceptedLate(t) /\ FlagIsFailure(e, t)
  /\ t.late = "none" /\ (e \in Clients => t.lep = s.lep)

LEMMA ReceiveHandles ==
  ASSUME TypeOK, IInv, NEW e \in Ends, Receive(e),
         AcceptedLate(end[e]), FlagIsFailure(e, end[e])
  PROVE  \E t : /\ Handled(e, end[e], t)
                /\ phase[e] = "up" /\ end' = [end EXCEPT ![e] = t]
                /\ \/ phase' = phase
                   \/ phase' = [phase EXCEPT ![e] = "closing"] /\ ~ t.amAuth
<1> DEFINE s == end[e]
<1>1. PICK i \in DOMAIN net[e] :
        \/ RecvHello(e, i) \/ RecvHelloAck(e, i)
        \/ \E accept \in Verdicts(e) : RecvAuth(e, i, accept)
        \/ RecvAuthAck(e, i)
        \/ \E found \in BOOLEAN : RecvMap(e, i, found)
        \/ RecvMapAck(e, i) \/ Ignore(e, i)
  BY DEF Receive
<1> USE DEF Reached
<1>2. s \in EndRecord /\ s.late = "none" /\ EndInv(e) /\ net[e][i] \in Message /\ Honest(e, net[e][i])
      /\ (net[e][i].type # "HELLO" => net[e][i].arg \in Codes)
  BY <1>1, ReceivedType
     DEF IInv, NetHonest, RecvHello, RecvHelloAck, RecvAuth, RecvAuthAck, RecvMap, RecvMapAck,
         Ignore, Receives, Listens
<1>3. CASE RecvHello(e, i)
  <2> DEFINE code == HelloCode(version[e], net[e][i].arg)
             t == CoreProtoHello(s, code).end
  <2>1. /\ s.st \in {"HELLO_S", "HELLO_2"} /\ phase[e] = "up" /\ phase' = phase
        /\ end' = [end EXCEPT ![e] = t]
    BY <1>3 DEF RecvHello, Receives, Listens, Handles, HandledIn, Take
  <2>2. t \in EndRecord
    BY <1>2, HelloCodeType, HelloType DEF EffectOK
  <2>3. t.amAuth = s.amAuth /\ t.lep = s.lep /\ t.late = "none" /\ t.flag = s.flag /\ t.st # "BAD"
    BY <1>2, <2>1 DEF CoreProtoHello, Effect, EndRecord
  <2> HIDE DEF t
  <2>4. Handled(e, s, t)
    BY <2>1, <2>2, <2>3 DEF Handled, AcceptedLate, FlagIsFailure
  <2> QED  BY <2>1, <2>4
<1>4. CASE RecvHelloAck(e, i)
  <2> DEFINE t == CoreProtoHelloAck(s, net[e][i].arg).end
  <2>1. /\ s.st \in {"HELLO_S", "HELLO_ACK_S"} /\ phase[e] = "up" /\ phase' = phase
        /\ end' = [end EXCEPT ![e] = t] /\ net[e][i].arg \in Codes
    BY <1>2, <1>4 DEF RecvHelloAck, Receives, Listens, Handles, HandledIn, Take
  <2>2. t \in EndRecord
    BY <1>2, <2>1, HelloAckType DEF EffectOK
  <2>3. t.amAuth = s.amAuth /\ t.lep = s.lep /\ t.late = "none" /\ t.flag = s.flag /\ t.st # "BAD"
    BY <1>2, <2>1 DEF CoreProtoHelloAck, Effect, EndRecord
  <2> HIDE DEF t
  <2>4. Handled(e, s, t)
    BY <2>1, <2>2, <2>3 DEF Handled, AcceptedLate, FlagIsFailure
  <2> QED  BY <2>1, <2>4
<1>5. CASE \E accept \in Verdicts(e) : RecvAuth(e, i, accept)
  <2>1. PICK accept \in BOOLEAN : RecvAuth(e, i, accept)
    BY <1>5 DEF Verdicts
  <2> DEFINE t == CoreProtoCheckAuth(s, accept).end
  <2>2. /\ s.st \in {"AUTH", "AUTH_2"} /\ phase[e] = "up" /\ phase' = phase
        /\ end' = [end EXCEPT ![e] = t]
    BY <2>1 DEF RecvAuth, Receives, Listens, Handles, HandledIn, Take
  <2>3. t \in EndRecord
    BY <1>2, CheckAuthType DEF EffectOK
  <2>4. /\ t.amAuth = s.amAuth /\ t.lep = s.lep /\ t.late = "none" /\ t.flag = s.flag /\ t.st # "BAD"
        /\ s.st = "AUTH_2" => t.st \in {"AUTH_2", "MAP"}
    BY <1>2, <2>2 DEF CoreProtoCheckAuth, HandOver, Effect, EndRecord
  <2> HIDE DEF t
  <2>5. Handled(e, s, t)
    BY <2>2, <2>3, <2>4 DEF Handled, AcceptedLate, FlagIsFailure
  <2> QED  BY <2>2, <2>5
<1>6. CASE RecvAuthAck(e, i)
  <2> DEFINE t == CoreProtoCheckAuthAck(s, net[e][i].arg).end
  <2>1. /\ s.st \in {"AUTH", "AUTH_ACK"} /\ phase[e] = "up"
        /\ end' = [end EXCEPT ![e] = t] /\ net[e][i].arg \in Codes
    BY <1>2, <1>6 DEF RecvAuthAck, Receives, Listens, Handles, HandledIn, Take
  <2>2. ~ s.amAuth
    BY <2>1 DEF AcceptedLate
  <2>3. t \in EndRecord
    BY <1>2, <2>1, CheckAuthAckType DEF EffectOK
  <2>4. /\ t.lep = s.lep /\ t.late = "none" /\ t.flag = s.flag /\ t.st # "BAD"
        /\ t.amAuth => t.st \in {"AUTH_2", "MAP"}
        /\ net[e][i].arg # Ok => ~ t.amAuth
    BY <1>2, <2>1, <2>2 DEF CoreProtoCheckAuthAck, HandOver, Effect, EndRecord
  <2>5. \/ phase' = phase
        \/ phase' = [phase EXCEPT ![e] = "closing"] /\ net[e][i].arg # Ok
    BY <1>6 DEF RecvAuthAck
  <2> HIDE DEF t
  <2>6. Handled(e, s, t)
    BY <2>1, <2>3, <2>4 DEF Handled, AcceptedLate, FlagIsFailure
  <2> QED  BY <2>1, <2>4, <2>5, <2>6
<1>7. CASE \E found \in BOOLEAN : RecvMap(e, i, found)
  <2>1. PICK found \in BOOLEAN : RecvMap(e, i, found)
    BY <1>7
  <2> DEFINE t == CoreProtoMap(s, found).end
  <2>2. /\ phase[e] = "up" /\ phase' = phase /\ end' = [end EXCEPT ![e] = t]
        /\ e \notin Clients
    BY <1>2, <2>1 DEF RecvMap, Receives, Listens, Take, Honest
  <2>3. t \in EndRecord
    BY <1>2, MapType DEF EffectOK
  <2>4. t.st \in {"EXT_MSG", "BAD"} /\ t.late = "none"
    BY <1>2 DEF CoreProtoMap, Effect, EndRecord
  <2> HIDE DEF t
  <2>5. Handled(e, s, t)
    BY <2>2, <2>3, <2>4 DEF Handled, AcceptedLate, FlagIsFailure
  <2> QED  BY <2>2, <2>5
<1>8. CASE RecvMapAck(e, i)
  <2> DEFINE t == CoreProtoMapAck(s, net[e][i].arg).end
  <2>1. /\ s.st = "MAP_ACK" /\ phase[e] = "up" /\ phase' = phase
        /\ end' = [end EXCEPT ![e] = t] /\ net[e][i].arg \in Codes
    BY <1>2, <1>8 DEF RecvMapAck, Receives, Listens, Handles, HandledIn, Take
  <2>2. t \in EndRecord
    BY <1>2, <2>1, MapAckType DEF EffectOK
  <2>3. s.lep
    BY <1>2, <2>1 DEF EndInv
  <2>4. /\ t.lep = s.lep /\ t.late = "none" /\ t.st \in {"EXT_MSG", "BAD"}
        /\ IF t.st = "BAD" THEN t.flag # Ok ELSE t.flag = s.flag
    BY <1>2, <2>1, <2>3 DEF CoreProtoMapAck, Effect, EndRecord
  <2> HIDE DEF t
  <2>5. Handled(e, s, t)
    BY <2>1, <2>2, <2>4 DEF Handled, AcceptedLate, FlagIsFailure
  <2> QED  BY <2>1, <2>5
<1>9. CASE Ignore(e, i)
  <2>1. HandOver(s) = s
    BY <1>2 DEF HandOver, EndInv, EndRecord
  <2>2. phase[e] = "up" /\ phase' = phase /\ end' = [end EXCEPT ![e] = s]
    BY <1>9, <2>1 DEF Ignore, Listens, Take, Effect
  <2>3. Handled(e, s, s)
    BY <1>2 DEF Handled
  <2> QED  BY <2>2, <2>3
<1> QED  BY <1>1, <1>3, <1>4, <1>5, <1>6, <1>7, <1>8, <1>9

-----------------------------------------------------------------------------
(* What a step makes of the ends. *)

\* The transport breaks no connection.
NoBreak == \A e \in Ends : "break" \notin Faults[e]

\* core_proto_map_to has run on a STATE.
Marked(s, t) ==
  /\ t \in EndRecord /\ AcceptedLate(t)
  /\ t.lep /\ t.st = "MAP_ACK" /\ t.flag = s.flag

\* A step changes at most one end.
EndStep(e) ==
  \/ \E t : /\ Handled(e, end[e], t)
            /\ phase[e] = "up" /\ end' = [end EXCEPT ![e] = t]
            /\ \/ phase' = phase
               \/ phase' = [phase EXCEPT ![e] = "closing"] /\ ~ t.amAuth
  \/ phase[e] = "idle" /\ phase' = [phase EXCEPT ![e] = "up"] /\ end' = end
  \/ \E t : /\ e \in Clients /\ ~ end[e].lep /\ Marked(end[e], t)
            /\ end' = [end EXCEPT ![e] = t]
            /\ \/ phase[e] = "up" /\ phase' = phase
               \/ phase[e] = "closing" /\ phase' = phase /\ t.amAuth = end[e].amAuth
               \/ /\ phase[e] = "up" /\ phase' = [phase EXCEPT ![e] = "closing"]
                  /\ ~ t.amAuth
  \/ LateWrite(e)
  \/ /\ end' = end /\ phase' = [phase EXCEPT ![e] = "freed"]
     /\ \/ phase[e] = "closing"
        \/ phase[e] = "up" /\ phase[Peer[e]] \in {"closing", "freed"}
        \/ phase[e] = "up" /\ "break" \in Faults[e]
  \/ end' = end /\ phase' = phase

\* A connection that does not break is cut only by an end that is refused.
Cut(e) ==
  phase[e] \in {"closing", "freed"} =>
    \/ ~ end[e].amAuth
    \/ /\ phase[e] = "freed" /\ phase[Peer[e]] \in {"closing", "freed"}
       /\ ~ end[Peer[e]].amAuth

Late(e) ==
  /\ AcceptedLate(end[e]) /\ FlagIsFailure(e, end[e])
  /\ NoBreak => Cut(e)

LateInv == \A e \in Ends : Late(e)

LEMMA EndStepKeepsLate ==
  ASSUME TypeOK, IInv, LateInv, NEW e \in Ends, EndStep(e)
  PROVE  LateInv'
<1>1. \A d \in Ends : Peer[d] \in Ends /\ Peer[d] # d /\ Peer[Peer[d]] = d
  BY PeerAssumption
<1>2. Late(e) /\ EndInv(e) /\ end[e] \in EndRecord
  BY DEF LateInv, IInv, TypeOK
<1>3. \A d \in Ends : phase[d] \in {"idle", "up", "closing", "freed"}
  BY DEF TypeOK
<1>4. CASE \E t : /\ Handled(e, end[e], t)
                  /\ phase[e] = "up" /\ end' = [end EXCEPT ![e] = t]
                  /\ \/ phase' = phase
                     \/ phase' = [phase EXCEPT ![e] = "closing"] /\ ~ t.amAuth
  <2>1. PICK t : /\ Handled(e, end[e], t)
                 /\ phase[e] = "up" /\ end' = [end EXCEPT ![e] = t]
                 /\ \/ phase' = phase
                    \/ phase' = [phase EXCEPT ![e] = "closing"] /\ ~ t.amAuth
    BY <1>4
  <2>2. /\ end'[e] = t /\ \A d \in Ends \ {e} : end'[d] = end[d] /\ phase'[d] = phase[d]
        /\ phase'[e] = "up" \/ (phase'[e] = "closing" /\ ~ t.amAuth)
    BY <2>1 DEF TypeOK
  <2>3. Late(e)'
    BY <2>1, <2>2 DEF Late, Handled, Cut, AcceptedLate, FlagIsFailure
  <2>4. ASSUME NEW d \in Ends, d # e
        PROVE  Late(d)'
    <3>1. Late(d) /\ end'[d] = end[d] /\ phase'[d] = phase[d]
      BY <2>2, <2>4 DEF LateInv
    <3>2. NoBreak => Cut(d)'
      <4>1. Peer[d] # e => end'[Peer[d]] = end[Peer[d]] /\ phase'[Peer[d]] = phase[Peer[d]]
        BY <1>1, <2>2
      <4>2. Peer[d] = e => phase[Peer[d]] = "up"
        BY <2>1
      <4> QED  BY <3>1, <4>1, <4>2 DEF Cut, Late
    <3> QED  BY <3>1, <3>2 DEF Late
  <2> QED  BY <2>3, <2>4 DEF LateInv
<1>5. CASE phase[e] = "idle" /\ phase' = [phase EXCEPT ![e] = "up"] /\ end' = end
  <2>1. phase'[e] = "up" /\ \A d \in Ends \ {e} : phase'[d] = phase[d]
    BY <1>5 DEF TypeOK
  <2> QED  BY <1>1, <1>5, <2>1 DEF LateInv, Late, Cut
<1>6. CASE \E t : /\ e \in Clients /\ ~ end[e].lep /\ Marked(end[e], t)
                  /\ end' = [end EXCEPT ![e] = t]
                  /\ \/ phase[e] = "up" /\ phase' = phase
                     \/ phase[e] = "closing" /\ phase' = phase /\ t.amAuth = end[e].amAuth
                     \/ /\ phase[e] = "up" /\ phase' = [phase EXCEPT ![e] = "closing"]
                        /\ ~ t.amAuth
  <2>1. PICK t : /\ e \in Clients /\ ~ end[e].lep /\ Marked(end[e], t)
                 /\ end' = [end EXCEPT ![e] = t]
                 /\ \/ phase[e] = "up" /\ phase' = phase
                    \/ phase[e] = "closing" /\ phase' = phase /\ t.amAuth = end[e].amAuth
                    \/ /\ phase[e] = "up" /\ phase' = [phase EXCEPT ![e] = "closing"]
                       /\ ~ t.amAuth
    BY <1>6
  <2>2. /\ end'[e] = t /\ \A d \in Ends \ {e} : end'[d] = end[d] /\ phase'[d] = phase[d]
        /\ \/ phase[e] = "up" /\ phase'[e] = "up"
           \/ phase[e] = "closing" /\ phase'[e] = "closing" /\ t.amAuth = end[e].amAuth
           \/ phase[e] = "up" /\ phase'[e] = "closing" /\ ~ t.amAuth
    BY <2>1 DEF TypeOK
  <2>3. end[e].st # "BAD"
    BY <1>2, <2>1 DEF EndInv
  <2>4. t.flag = Ok
    BY <1>2, <2>1, <2>3 DEF Late, FlagIsFailure, Marked
  <2>5. NoBreak => Cut(e)'
    BY <1>2, <2>2 DEF Late, Cut
  <2>6. ASSUME NEW d \in Ends, d # e, NoBreak
        PROVE  Cut(d)'
    <3>1. Cut(d) /\ end'[d] = end[d] /\ phase'[d] = phase[d]
      BY <2>2, <2>6 DEF LateInv, Late
    <3>2. CASE Peer[d] # e
      <4>1. end'[Peer[d]] = end[Peer[d]] /\ phase'[Peer[d]] = phase[Peer[d]]
        BY <1>1, <2>2, <3>2
      <4> QED  BY <3>1, <4>1 DEF Cut
    <3>3. CASE Peer[d] = e
      BY <2>2, <3>1, <3>3 DEF Cut
    <3> QED  BY <3>2, <3>3
  <2>7. AcceptedLate(end'[e]) /\ FlagIsFailure(e, end'[e])
    BY <2>1, <2>2, <2>4 DEF FlagIsFailure, Marked
  <2>8. \A d \in Ends \ {e} : AcceptedLate(end'[d]) /\ FlagIsFailure(d, end'[d])
    BY <2>2 DEF LateInv, Late
  <2> QED  BY <2>5, <2>6, <2>7, <2>8 DEF LateInv, Late
<1>9. CASE LateWrite(e)
  <2>1. PICK t : t = [end[e] EXCEPT !.st = end[e].late, !.late = "none"]
    OBVIOUS
  <2>2. /\ phase' = phase /\ end'[e] = t
        /\ \A d \in Ends \ {e} : end'[d] = end[d]
    BY <1>9, <2>1 DEF LateWrite, TypeOK
  <2>3. /\ t.amAuth = end[e].amAuth /\ t.flag = end[e].flag
        /\ t.st = end[e].late /\ t.late = "none"
    BY <1>2, <2>1 DEF EndRecord
  <2>4. /\ end[e].late # "none" /\ end[e].late \in Greeted \cup {"MAP"}
        /\ end[e].st = "MAP_ACK"
    BY <1>2, <1>9 DEF LateWrite, EndInv
  <2>5. AcceptedLate(t) /\ FlagIsFailure(e, t)
    BY <1>2, <2>3, <2>4 DEF Late, AcceptedLate, FlagIsFailure, Greeted
  <2>6. \A d \in Ends : end'[d].amAuth = end[d].amAuth
    BY <2>2, <2>3
  <2>7. ASSUME NEW d \in Ends
        PROVE  NoBreak => Cut(d)'
    BY <1>1, <2>2, <2>6 DEF LateInv, Late, Cut
  <2>8. \A d \in Ends : AcceptedLate(end'[d]) /\ FlagIsFailure(d, end'[d])
    BY <2>2, <2>5 DEF LateInv, Late
  <2> QED  BY <2>7, <2>8 DEF LateInv, Late
<1>7. CASE /\ end' = end /\ phase' = [phase EXCEPT ![e] = "freed"]
           /\ \/ phase[e] = "closing"
              \/ phase[e] = "up" /\ phase[Peer[e]] \in {"closing", "freed"}
              \/ phase[e] = "up" /\ "break" \in Faults[e]
  <2>1. phase'[e] = "freed" /\ \A d \in Ends \ {e} : phase'[d] = phase[d]
    BY <1>7 DEF TypeOK
  <2>2. ASSUME NoBreak
        PROVE  Cut(e)'
    <3>1. Late(Peer[e]) /\ Peer[e] \in Ends /\ Peer[Peer[e]] = e /\ phase'[Peer[e]] = phase[Peer[e]]
      BY <1>1, <2>1 DEF LateInv
    <3>2. CASE phase[e] = "closing"
      BY <1>2, <1>7, <2>2, <3>2 DEF Late, Cut
    <3>3. CASE phase[e] = "up" /\ phase[Peer[e]] \in {"closing", "freed"}
      BY <1>7, <2>1, <2>2, <3>1, <3>3 DEF Late, Cut
    <3> QED  BY <1>7, <2>2, <3>2, <3>3 DEF NoBreak
  <2>3. ASSUME NoBreak, NEW d \in Ends, d # e
        PROVE  Cut(d)'
    <3>1. Late(d) /\ Cut(d) /\ phase'[d] = phase[d]
      BY <2>1, <2>3 DEF LateInv, Late
    <3>2. phase[Peer[d]] \in {"closing", "freed"} => phase'[Peer[d]] \in {"closing", "freed"}
      BY <1>1, <2>1
    <3> QED  BY <1>7, <3>1, <3>2 DEF Cut
  <2> QED  BY <1>7, <2>2, <2>3 DEF LateInv, Late
<1>8. CASE end' = end /\ phase' = phase
  BY <1>8 DEF LateInv, Late, Cut
<1> QED  BY <1>4, <1>5, <1>6, <1>7, <1>8, <1>9 DEF EndStep

LEMMA LateInit == Init => LateInv
<1> SUFFICES ASSUME Init
             PROVE  LateInv
  OBVIOUS
<1>1. ASSUME NEW e \in Ends
      PROVE  end[e] = NewEnd /\ phase[e] = "idle"
  BY DEF Init
<1> QED  BY <1>1 DEF LateInv, Late, Cut, AcceptedLate, FlagIsFailure, NewEnd

\* The steps as steps of the ends.
LEMMA SendMapIsEndStep ==
  ASSUME TypeOK, LateInv, NEW e \in Clients, ~ end[e].lep, SendMap(e)
  PROVE  EndStep(e)
<1> DEFINE t == [end[e] EXCEPT !.lep = TRUE, !.st = "MAP_ACK"]
<1>1. e \in Ends /\ end[e] \in EndRecord /\ AcceptedLate(end[e])
  BY ClientsAssumption DEF TypeOK, LateInv, Late
<1>2. end' = [end EXCEPT ![e] = t] /\ phase' = phase /\ phase[e] \in {"up", "closing"}
  BY DEF SendMap, CoreProtoMapTo, Effect
<1>3. Marked(end[e], t) /\ t.amAuth = end[e].amAuth
  BY <1>1 DEF Marked, AcceptedLate, Reached, EndRecord, ConnStates
<1> QED  BY <1>2, <1>3 DEF EndStep

LEMMA HandlerReaches ==
  ASSUME TypeOK, NEW e \in Ends, NEW i \in DOMAIN net[e], NEW accept \in BOOLEAN,
         net[e][i].type \in {"HELLO", "HELLO_ACK", "AUTH", "AUTH_ACK"},
         Receives(e, i, net[e][i].type), AcceptedLate(end[e])
  PROVE  LET f == Handler(e, net[e][i], accept)
         IN  /\ f.end.amAuth => f.end.st \in Reached
             /\ net[e][i].type = "AUTH_ACK" /\ net[e][i].arg # Ok => ~ f.end.amAuth
<1> DEFINE s == end[e]
           m == net[e][i]
           f == Handler(e, m, accept)
<1>1. s \in EndRecord /\ s.st \in HandledIn[m.type] /\ (s.amAuth => s.st \in Reached)
  BY DEF TypeOK, Receives, Handles, AcceptedLate
<1> HIDE DEF s, m
<1>2. CASE m.type = "HELLO"
  <2>1. ~ s.amAuth
    BY <1>1, <1>2 DEF HandledIn, Reached
  <2>2. f.end.amAuth = s.amAuth
    BY <1>1, <1>2 DEF Handler, CoreProtoHello, Effect, EndRecord, s
  <2> QED  BY <1>2, <2>1, <2>2 DEF m
<1>3. CASE m.type = "HELLO_ACK"
  <2>1. ~ s.amAuth
    BY <1>1, <1>3 DEF HandledIn, Reached
  <2>2. f.end.amAuth = s.amAuth
    BY <1>1, <1>3 DEF Handler, CoreProtoHelloAck, Effect, EndRecord, s
  <2> QED  BY <1>3, <2>1, <2>2 DEF m
<1>4. CASE m.type = "AUTH"
  <2>1. s.amAuth => s.st = "AUTH_2"
    BY <1>1, <1>4 DEF HandledIn, Reached
  <2>2. f.end.amAuth = s.amAuth /\ (s.st = "AUTH_2" => f.end.st \in {"AUTH_2", "MAP"})
    BY <1>1, <1>4 DEF Handler, CoreProtoCheckAuth, HandOver, Effect, EndRecord, s
  <2> QED  BY <1>4, <2>1, <2>2 DEF m, Reached
<1>5. CASE m.type = "AUTH_ACK"
  <2>1. ~ s.amAuth
    BY <1>1, <1>5 DEF HandledIn, Reached
  <2>2. IF m.arg = Ok THEN f.end.st \in {"AUTH_2", "MAP"} ELSE f.end.amAuth = s.amAuth
    BY <1>1, <1>5 DEF Handler, CoreProtoCheckAuthAck, HandOver, Effect, EndRecord, s
  <2> QED  BY <1>5, <2>1, <2>2 DEF m, Reached
<1>6. m.type \in {"HELLO", "HELLO_ACK", "AUTH", "AUTH_ACK"}
  BY DEF m
<1> QED  BY <1>2, <1>3, <1>4, <1>5, <1>6 DEF m

LEMMA OvertakenIsEndStep ==
  ASSUME TypeOK, IInv, LateInv, NEW e \in Ends, NEW i \in DOMAIN net[e],
         NEW accept \in BOOLEAN, RecvOvertaken(e, i, accept)
  PROVE  EndStep(e) /\ e \in Clients
<1> DEFINE s == end[e]
           m == net[e][i]
<1>1. PICK f, t, out :
        /\ f = Handler(e, m, accept)
        /\ TypeOK' /\ Change(e, t, out)
        /\ Overtaken(s, f, t, out)
  BY OvertakenChange
<1>2. /\ e \in Clients /\ ~ s.lep /\ phase[e] = "up" /\ s.late = "none"
      /\ m.type \in {"HELLO", "HELLO_ACK", "AUTH", "AUTH_ACK"} /\ Receives(e, i, m.type)
      /\ phase' = IF m.type = "AUTH_ACK" /\ m.arg # Ok
                  THEN [phase EXCEPT ![e] = "closing"] ELSE phase
  BY DEF RecvOvertaken, Receives, Listens
<1>3. /\ Does(e, m, s, f)
      /\ f.end.amAuth => f.end.st \in Reached
      /\ m.type = "AUTH_ACK" /\ m.arg # Ok => ~ f.end.amAuth
  BY <1>1, <1>2, HandlerDoes, HandlerReaches DEF LateInv, Late
<1>4. s \in EndRecord /\ f.end \in EndRecord /\ t \in EndRecord
  BY <1>1 DEF TypeOK, Overtaken, EffectOK
<1> HIDE DEF s, m
<1>5. f.end.late = "none" /\ f.end.flag = s.flag
  BY <1>2, <1>3, <1>4 DEF Does, EndRecord
<1>6. /\ t.lep /\ t.st = "MAP_ACK" /\ t.flag = f.end.flag /\ t.amAuth = f.end.amAuth
      /\ t.late \in {"none", f.end.st}
  BY <1>1, <1>4, <1>5 DEF Overtaken, EndRecord
<1>7. Marked(s, t)
  BY <1>3, <1>4, <1>5, <1>6 DEF Marked, AcceptedLate, Reached
<1>8. end' = [end EXCEPT ![e] = t]
  BY <1>1 DEF Change
<1> QED  BY <1>2, <1>3, <1>6, <1>7, <1>8 DEF EndStep, s, m

LEMMA ConnectIsEndStep ==
  ASSUME TypeOK, IInv, NEW e \in Ends, Connect(e)
  PROVE  EndStep(e)
<1>1. end[e] = NewEnd
  BY DEF Connect, IInv, EndInv
<1>2. end' = end
  BY <1>1 DEF Connect, TypeOK
<1> QED  BY <1>2 DEF Connect, EndStep

LEMMA QuietIsEndStep ==
  ASSUME TypeOK, NEW e \in Ends, Disconnect(e) \/ Break(e) \/ Lose(e) \/ Duplicate(e)
  PROVE  EndStep(e)
BY DEF Disconnect, Break, Listens, Freed, Lose, Duplicate, EndStep

-----------------------------------------------------------------------------
(* The calls of core_map. *)

Stations == {"init", "connect", "wait1", "wait2", "map_to", "wait3", "return", "done"}

MapTypes ==
  /\ pc \in [Threads -> Stations]
  /\ attempt \in [Threads -> Nat]
  /\ \A t \in Threads : attempt[t] \in DOMAIN Tries[t]
  /\ result \in [Threads -> Codes \cup {NoResult}]

\* A connection that will not be mapped any more.
Over(e) ==
  \/ phase[e] = "idle"
  \/ phase[e] = "freed" /\ end[e].st # "EXT_MSG"
  \/ end[e].st = "BAD"

CallInv(t) ==
  /\ \A i \in DOMAIN Tries[t] : i > attempt[t] => phase[Tries[t][i]] = "idle"
  /\ pc[t] \in {"init", "connect"} => phase[Conn(t)] = "idle"
  /\ pc[t] \in {"wait2", "map_to", "wait3", "return"} => phase[Conn(t)] # "idle"
  /\ pc[t] \in {"init", "connect", "wait1", "wait2", "map_to"} => ~ end[Conn(t)].lep
  /\ pc[t] # "done" => result[t] = NoResult
  /\ NoBreak =>
       /\ \A i \in DOMAIN Tries[t] : i < attempt[t] => Over(Tries[t][i])
       /\ result[t] \in Codes \ {Ok} => Over(Conn(t))

MapInv ==
  /\ TypeOK /\ IInv /\ LateInv
  /\ MapTypes /\ \A t \in Threads : CallInv(t)

\* The connections of the calls.
LEMMA TriesAre ==
  ASSUME NEW t \in Threads, NEW i \in DOMAIN Tries[t]
  PROVE  /\ Tries[t][i] \in Clients \cap Local /\ Tries[t][i] \in Ends
         /\ DOMAIN Tries[t] = 1..Len(Tries[t]) /\ Len(Tries[t]) \in Nat
<1>1. Tries[t] \in Seq(Clients \cap Local)
  BY TriesAssumption
<1> QED  BY <1>1, ClientsAssumption

\* What the rest of the system leaves of a connection core_map opened.
Spared(d) ==
  /\ (phase[d] = "idle") <=> (phase'[d] = "idle")
  /\ end'[d].lep = end[d].lep
  /\ Over(d) => Over(d)'

\* An end of which nothing is known but that it is not changed.
LEMMA SameIsSpared ==
  ASSUME NEW d, phase'[d] = phase[d], end'[d] = end[d]
  PROVE  Spared(d)
BY DEF Spared, Over

LEMMA ElsewhereSpares ==
  ASSUME TypeOK, IInv, LateInv, NEW e \in Ends, Elsewhere(e)
  PROVE  /\ TypeOK' /\ IInv' /\ LateInv' /\ EndStep(e)
         /\ \A d \in Clients \cap Local : Spared(d)
<1>1. Next
  BY DEF Elsewhere, Next
<1>2. TypeOK' /\ IInv' /\ Onward
  BY <1>1, TypeStep, InvariantStep, OnwardStep
<1>3. ASSUME EndStep(e)
      PROVE  \A d \in Ends \ {e} : Spared(d)
  <2>1. \A d \in Ends \ {e} : phase'[d] = phase[d] /\ end'[d] = end[d]
    BY <1>3 DEF EndStep, LateWrite, TypeOK
  <2> QED  BY <2>1, SameIsSpared
<1>4. \A d \in Clients \cap Local : d \in Ends
  BY ClientsAssumption
<1>5. CASE /\ e \notin Clients \cap Local
           /\ Connect(e) \/ MapTo(e) \/ Overtake(e)
  <2>1. EndStep(e)
    BY <1>5, ConnectIsEndStep, SendMapIsEndStep, SomeOvertaken, OvertakenIsEndStep DEF MapTo
  <2> QED  BY <1>2, <1>3, <1>4, <1>5, <2>1, EndStepKeepsLate
<1>6. CASE Receive(e)
  <2>1. AcceptedLate(end[e]) /\ FlagIsFailure(e, end[e])
    BY DEF LateInv, Late
  <2>2. PICK t : /\ Handled(e, end[e], t)
                 /\ phase[e] = "up" /\ end' = [end EXCEPT ![e] = t]
                 /\ \/ phase' = phase
                    \/ phase' = [phase EXCEPT ![e] = "closing"] /\ ~ t.amAuth
    BY <1>6, <2>1, ReceiveHandles
  <2>3. EndStep(e)
    BY <2>2 DEF EndStep
  <2>4. ASSUME e \in Clients
        PROVE  Spared(e)
    <3>1. end'[e] = t /\ phase'[e] \in {"up", "closing"} /\ t.lep = end[e].lep
      BY <2>2, <2>4 DEF Handled, TypeOK
    <3>2. end[e].st = "BAD" => end'[e].st = "BAD"
      <4>1. end[e].late = "none"
        BY <1>6 DEF Receive, RecvHello, RecvHelloAck, RecvAuth, RecvAuthAck, RecvMap,
                    RecvMapAck, Ignore, Receives, Listens
      <4> QED  BY <1>2 DEF Onward, Further, Rank
    <3> QED  BY <2>2, <3>1, <3>2 DEF Spared, Over
  <2> QED  BY <1>2, <1>3, <1>4, <2>3, <2>4, EndStepKeepsLate
<1>8. CASE LateWrite(e)
  <2>1. EndStep(e)
    BY <1>8 DEF EndStep
  <2>2. /\ phase' = phase /\ phase[e] = "up" /\ end[e].st = "MAP_ACK"
        /\ end'[e].lep = end[e].lep
    BY <1>8 DEF LateWrite, IInv, EndInv, TypeOK, EndRecord
  <2>3. Spared(e)
    BY <2>2 DEF Spared, Over
  <2> QED  BY <1>2, <1>3, <1>4, <2>1, <2>3, EndStepKeepsLate
<1>7. CASE Disconnect(e) \/ Break(e) \/ Lose(e) \/ Duplicate(e)
  <2>1. EndStep(e)
    BY <1>7, QuietIsEndStep
  <2>2. /\ end' = end
        /\ \/ phase'[e] = phase[e]
           \/ phase[e] \in {"up", "closing"} /\ phase'[e] = "freed"
    BY <1>7 DEF Disconnect, Break, Listens, Freed, Lose, Duplicate, TypeOK
  <2>3. Spared(e)
    BY <2>2 DEF Spared, Over
  <2> QED  BY <1>2, <1>3, <1>4, <2>1, <2>3, EndStepKeepsLate
<1> QED  BY <1>5, <1>6, <1>7, <1>8 DEF Elsewhere

\* A call whose connections are spared and which does not move is as it was.
LEMMA SparedKeepsCall ==
  ASSUME MapTypes, NEW t \in Threads, CallInv(t),
         pc'[t] = pc[t], attempt'[t] = attempt[t], result'[t] = result[t],
         \A i \in DOMAIN Tries[t] : Spared(Tries[t][i])
  PROVE  CallInv(t)'
<1>1. Conn(t)' = Conn(t)
  BY DEF Conn
<1>2. attempt[t] \in DOMAIN Tries[t] /\ Conn(t) = Tries[t][attempt[t]]
  BY DEF MapTypes, Conn
<1>3. Spared(Conn(t))
  BY <1>2
<1>4. /\ (phase'[Conn(t)] = "idle") <=> (phase[Conn(t)] = "idle")
      /\ end'[Conn(t)].lep = end[Conn(t)].lep
      /\ Over(Conn(t)) => Over(Conn(t))'
  BY <1>3 DEF Spared
<1>5. Over(Conn(t)') <=> Over(Conn(t))
  BY <1>1
<1> QED  BY <1>1, <1>4 DEF CallInv, Spared, Over

\* A thread in core_map touches no connection but its own.
OnlyConn(t) ==
  /\ \A d \in Ends \ {Conn(t)} : phase'[d] = phase[d] /\ end'[d] = end[d]
  /\ \A u \in Threads \ {t} :
       pc'[u] = pc[u] /\ attempt'[u] = attempt[u] /\ result'[u] = result[u]

LEMMA OwnCall ==
  ASSUME MapInv, NEW t \in Threads, OnlyConn(t), NEW u \in Threads, u # t
  PROVE  CallInv(u)'
<1>1. attempt[t] \in DOMAIN Tries[t] /\ Conn(t) = Tries[t][attempt[t]]
  BY DEF MapInv, MapTypes, Conn
<1>2. ASSUME NEW i \in DOMAIN Tries[u]
      PROVE  Spared(Tries[u][i])
  <2>1. Tries[u][i] # Conn(t) /\ Tries[u][i] \in Ends
    BY <1>1, OwnConnections, TriesAre
  <2>2. phase'[Tries[u][i]] = phase[Tries[u][i]] /\ end'[Tries[u][i]] = end[Tries[u][i]]
    BY <2>1 DEF OnlyConn
  <2> QED  BY <2>2, SameIsSpared
<1>3. pc'[u] = pc[u] /\ attempt'[u] = attempt[u] /\ result'[u] = result[u]
  BY DEF OnlyConn
<1>4. MapTypes /\ CallInv(u)
  BY DEF MapInv
<1> QED  BY <1>2, <1>3, <1>4, SparedKeepsCall

\* What one step of a thread must do to keep the invariant.
LEMMA CallKeeps ==
  ASSUME MapInv, NEW t \in Threads, OnlyConn(t),
         TypeOK', IInv', LateInv', MapTypes', CallInv(t)'
  PROVE  MapInv'
<1>1. \A u \in Threads : CallInv(u)'
  BY OwnCall
<1> QED  BY <1>1 DEF MapInv

\* A step of a thread that leaves the connections as they are.
LEMMA StillKeeps ==
  ASSUME MapInv, UNCHANGED vars
  PROVE  TypeOK' /\ IInv' /\ LateInv' /\ \A d \in Ends : phase'[d] = phase[d] /\ end'[d] = end[d]
<1>1. TypeOK' /\ IInv'
  BY TypeStep, InvariantStep DEF MapInv
<1>2. phase' = phase /\ end' = end
  BY DEF vars
<1> QED  BY <1>1, <1>2 DEF MapInv, LateInv, Late, Cut

\* The thread goes on in core_map and its connection is as it was.
LEMMA GotoStill ==
  ASSUME MapInv, NEW t \in Threads, NEW from, NEW to \in Stations, Goto(t, from, to),
         UNCHANGED <<vars, attempt, result>>,
         from # "done", to # "done",
         to = "connect" => from = "init",
         to # "init",
         to \in {"wait2", "map_to", "wait3", "return"} => phase[Conn(t)] # "idle",
         to \in {"wait1", "wait2", "map_to"} =>
           from \in {"init", "connect", "wait1", "wait2", "map_to"}
  PROVE  MapInv'
<1>1. UNCHANGED vars /\ attempt' = attempt /\ result' = result
  OBVIOUS
<1>2. TypeOK' /\ IInv' /\ LateInv' /\ \A d \in Ends : phase'[d] = phase[d] /\ end'[d] = end[d]
  BY <1>1, StillKeeps
<1>3. pc' = [pc EXCEPT ![t] = to] /\ pc[t] = from
  BY DEF Goto
<1>4. MapTypes /\ MapTypes'
  BY <1>1, <1>3 DEF MapInv, MapTypes
<1>5. pc'[t] = to /\ \A u \in Threads \ {t} : pc'[u] = pc[u]
  BY <1>3, <1>4 DEF MapTypes
<1>6. OnlyConn(t)
  BY <1>1, <1>2, <1>5 DEF OnlyConn
<1>7. Conn(t)' = Conn(t) /\ phase' = phase /\ end' = end
  BY <1>1 DEF Conn, vars
<1>8. CallInv(t)
  BY DEF MapInv
<1>9. CallInv(t)'
  BY <1>1, <1>3, <1>5, <1>7, <1>8 DEF CallInv, Over
<1> QED  BY <1>2, <1>4, <1>6, <1>9, CallKeeps

\* core_map returns a code; a connection whose code is not 0 will not be mapped.
LEMMA ReturnKeeps ==
  ASSUME MapInv, NEW t \in Threads, pc[t] # "done", NEW code \in Codes, Return(t, code),
         UNCHANGED vars, NoBreak /\ code # Ok => Over(Conn(t))
  PROVE  MapInv'
<1>1. TypeOK' /\ IInv' /\ LateInv' /\ \A d \in Ends : phase'[d] = phase[d] /\ end'[d] = end[d]
  BY StillKeeps
<1>2. phase' = phase /\ end' = end
  BY DEF vars
<1>3. MapTypes /\ CallInv(t) /\ IInv /\ TypeOK
  BY DEF MapInv
<1>4. DOMAIN Tries[t] = 1..Len(Tries[t]) /\ Len(Tries[t]) \in Nat
  BY <1>3, TriesAre DEF MapTypes
<1>5. CASE code = Ok \/ attempt[t] = Len(Tries[t])
  <2>1. /\ result' = [result EXCEPT ![t] = code]
        /\ pc' = [pc EXCEPT ![t] = "done"]
        /\ attempt' = attempt
    BY <1>5 DEF Return
  <2>2. MapTypes'
    BY <1>3, <2>1 DEF MapTypes, Stations
  <2>3. pc'[t] = "done" /\ result'[t] = code /\ Conn(t)' = Conn(t)
    BY <1>3, <2>1 DEF MapTypes, Conn
  <2>4. OnlyConn(t)
    BY <1>1, <1>3, <2>1 DEF OnlyConn, MapTypes
  <2>5. CallInv(t)'
    BY <1>2, <1>3, <2>1, <2>3 DEF CallInv, Over
  <2> QED  BY <1>1, <2>2, <2>4, <2>5, CallKeeps
<1>6. CASE ~ (code = Ok \/ attempt[t] = Len(Tries[t]))
  <2>1. /\ attempt' = [attempt EXCEPT ![t] = @ + 1]
        /\ pc' = [pc EXCEPT ![t] = "init"]
        /\ result' = result
    BY <1>6 DEF Return
  <2>2. /\ attempt[t] \in DOMAIN Tries[t] /\ attempt[t] \in Nat
        /\ attempt'[t] = attempt[t] + 1 /\ pc'[t] = "init"
        /\ \A u \in Threads \ {t} : attempt'[u] = attempt[u] /\ pc'[u] = pc[u]
    BY <1>3, <2>1 DEF MapTypes
  <2>3. attempt'[t] \in DOMAIN Tries[t]
    BY <1>4, <1>6, <2>2
  <2>4. MapTypes'
    <3>1. attempt' \in [Threads -> Nat] /\ pc' \in [Threads -> Stations]
      BY <1>3, <2>1 DEF MapTypes, Stations
    <3>2. \A u \in Threads : attempt'[u] \in DOMAIN Tries[u]
      BY <1>3, <2>2, <2>3 DEF MapTypes
    <3> QED  BY <1>3, <2>1, <3>1, <3>2 DEF MapTypes
  <2>5. OnlyConn(t)
    BY <1>1, <2>1, <2>2 DEF OnlyConn
  <2> DEFINE c == Tries[t][attempt'[t]]
  <2>6. c \in Ends /\ phase[c] = "idle"
    BY <1>3, <1>4, <2>2, <2>3, TriesAre DEF CallInv
  <2>7. ~ end[c].lep
    BY <1>3, <2>6 DEF IInv, EndInv, NewEnd
  <2>8. Conn(t)' = c
    BY DEF Conn
  <2>9. \A i \in DOMAIN Tries[t] : i > attempt'[t] => phase[Tries[t][i]] = "idle"
    BY <1>3, <1>4, <2>2 DEF CallInv
  <2>10. NoBreak => \A i \in DOMAIN Tries[t] : i < attempt'[t] => Over(Tries[t][i])
    <3> SUFFICES ASSUME NoBreak, NEW i \in DOMAIN Tries[t], i < attempt'[t]
                 PROVE  Over(Tries[t][i])
      OBVIOUS
    <3>1. i < attempt[t] \/ i = attempt[t]
      BY <1>4, <2>2
    <3> QED  BY <1>3, <1>6, <3>1 DEF CallInv, Conn
  <2>11. result'[t] = NoResult
    BY <1>3, <2>1 DEF CallInv
  <2> HIDE DEF c
  <2>12. CallInv(t)'
    BY <1>2, <2>2, <2>6, <2>7, <2>8, <2>9, <2>10, <2>11, TriesAssumption DEF CallInv, Over
  <2> QED  BY <1>1, <2>4, <2>5, <2>12, CallKeeps
<1> QED  BY <1>5, <1>6

\* core_map changes the STATE of its own connection.
LEMMA MoveKeeps ==
  ASSUME MapInv, NEW t \in Threads, NEW from, NEW to \in Stations, Goto(t, from, to),
         UNCHANGED <<attempt, result>>, EndStep(Conn(t)), TypeOK', IInv',
         \/ from = "connect" /\ to = "wait1" /\ end' = end
         \/ to = "wait3" /\ phase'[Conn(t)] # "idle" /\ from # "done"
  PROVE  MapInv'
<1> DEFINE c == Conn(t)
<1>1. MapTypes /\ CallInv(t) /\ TypeOK /\ IInv /\ LateInv
  BY DEF MapInv
<1>2. attempt[t] \in DOMAIN Tries[t] /\ c = Tries[t][attempt[t]] /\ c \in Ends
  BY <1>1, TriesAre DEF MapTypes, Conn
<1>3. LateInv'
  BY <1>1, <1>2, EndStepKeepsLate
<1>4. /\ attempt' = attempt /\ result' = result
      /\ pc' = [pc EXCEPT ![t] = to] /\ pc[t] = from
  BY DEF Goto
<1>5. /\ pc'[t] = to /\ MapTypes'
      /\ \A u \in Threads \ {t} : pc'[u] = pc[u]
  BY <1>1, <1>4 DEF MapTypes
<1>6. \A d \in Ends \ {c} : phase'[d] = phase[d] /\ end'[d] = end[d]
  BY <1>1 DEF EndStep, LateWrite, TypeOK
<1>7. OnlyConn(t)
  BY <1>4, <1>5, <1>6 DEF OnlyConn
<1>8. c' = c
  BY <1>4 DEF Conn
<1>9. ASSUME NEW i \in DOMAIN Tries[t], i # attempt[t]
      PROVE  /\ phase'[Tries[t][i]] = phase[Tries[t][i]]
             /\ Over(Tries[t][i]) => Over(Tries[t][i])'
  <2>1. Tries[t][i] # c /\ Tries[t][i] \in Ends
    BY <1>2, <1>9, OwnConnections, TriesAre
  <2>2. /\ phase'[Tries[t][i]] = phase[Tries[t][i]]
        /\ end'[Tries[t][i]] = end[Tries[t][i]]
    BY <1>6, <2>1
  <2> QED  BY <2>2 DEF Over
<1>10. attempt[t] \in Nat /\ \A i \in DOMAIN Tries[t] : i \in Nat
  BY <1>1, TriesAre DEF MapTypes
<1>11. result[t] = NoResult
  BY <1>1, <1>4 DEF CallInv
<1>12. CASE from = "connect" /\ to = "wait1" /\ end' = end
  <2>1. ~ end'[c].lep
    BY <1>1, <1>4, <1>12 DEF CallInv
  <2>2. pc'[t] = "wait1" /\ result'[t] = NoResult /\ attempt'[t] = attempt[t]
    BY <1>4, <1>5, <1>11, <1>12
  <2>3. \A i \in DOMAIN Tries[t] : i > attempt[t] => phase'[Tries[t][i]] = "idle"
    BY <1>1, <1>9, <1>10 DEF CallInv
  <2>4. NoBreak => \A i \in DOMAIN Tries[t] : i < attempt[t] => Over(Tries[t][i])'
    BY <1>1, <1>9, <1>10 DEF CallInv
  <2>5. CallInv(t)'
    BY <1>8, <2>1, <2>2, <2>3, <2>4, TriesAssumption DEF CallInv
  <2> QED  BY <1>1, <1>3, <1>5, <1>7, <2>5, CallKeeps
<1>13. CASE to = "wait3" /\ phase'[Conn(t)] # "idle" /\ from # "done"
  <2>1. phase'[c] # "idle"
    BY <1>13
  <2>2. pc'[t] = "wait3" /\ result'[t] = NoResult /\ attempt'[t] = attempt[t]
    BY <1>4, <1>5, <1>11, <1>13
  <2>3. \A i \in DOMAIN Tries[t] : i > attempt[t] => phase'[Tries[t][i]] = "idle"
    BY <1>1, <1>9, <1>10 DEF CallInv
  <2>4. NoBreak => \A i \in DOMAIN Tries[t] : i < attempt[t] => Over(Tries[t][i])'
    BY <1>1, <1>9, <1>10 DEF CallInv
  <2>5. CallInv(t)'
    BY <1>8, <2>1, <2>2, <2>3, <2>4, TriesAssumption DEF CallInv
  <2> QED  BY <1>1, <1>3, <1>5, <1>7, <2>5, CallKeeps
<1> QED  BY <1>12, <1>13

\* A connection whose call read an error, or read a freed STATE, is over.
LEMMA FailedIsOver ==
  ASSUME MapInv, NoBreak, NEW e \in Clients,
         phase[e] = "freed" \/ end[e].flag # Ok
  PROVE  Over(e)
<1>1. e \in Ends /\ Peer[e] \in Ends
  BY ClientsAssumption, PeerAssumption
<1>2. Late(e) /\ EndInv(e) /\ EndInv(Peer[e])
  BY <1>1 DEF MapInv, LateInv, IInv
<1>3. CASE phase[e] = "freed"
  <2>1. end[e].st = "EXT_MSG" => end[e].amAuth /\ end[Peer[e]].amAuth
    BY <1>2 DEF EndInv
  <2> QED  BY <1>2, <1>3, <2>1 DEF Late, Cut, Over
<1>4. CASE end[e].flag # Ok
  BY <1>2, <1>4 DEF Late, FlagIsFailure, Over
<1> QED  BY <1>3, <1>4

LEMMA CallStep ==
  ASSUME MapInv, NEW t \in Threads, CallMap(t)
  PROVE  MapInv'
<1> DEFINE c == Conn(t)
<1>1. MapTypes /\ CallInv(t) /\ TypeOK /\ IInv /\ LateInv
  BY DEF MapInv
<1>2. c \in Clients \cap Local /\ c \in Ends
  BY <1>1, TriesAre DEF MapTypes, Conn
<1>3. CASE SyncInit(t)
  <2>1. Goto(t, "init", "connect") /\ UNCHANGED <<vars, attempt, result>>
    BY <1>3 DEF SyncInit
  <2> QED  BY <2>1, GotoStill DEF Stations
<1>4. CASE FcConnect(t)
  <2>1. Goto(t, "connect", "wait1") /\ UNCHANGED <<attempt, result>>
    BY <1>4 DEF FcConnect
  <2>2. CASE UNCHANGED vars
    BY <2>1, <2>2, GotoStill DEF Stations
  <2>3. CASE Connect(c)
    <3>1. EndStep(c)
      BY <1>1, <1>2, <2>3, ConnectIsEndStep
    <3>2. Next
      BY <1>2, <2>3 DEF Next
    <3>3. TypeOK' /\ IInv'
      BY <1>1, <3>2, TypeStep, InvariantStep
    <3>4. end' = end
      BY <1>1, <1>2, <2>3 DEF Connect, IInv, EndInv, TypeOK
    <3> QED  BY <2>1, <3>1, <3>3, <3>4, MoveKeeps DEF Stations
  <2> QED  BY <1>4, <2>2, <2>3 DEF FcConnect
<1>5. CASE WaitHello(t)
  <2>1. pc[t] = "wait1" /\ UNCHANGED vars
    BY <1>5 DEF WaitHello
  <2>2. CASE phase[c] = "idle"
    <3>1. Return(t, EP_ERROR) /\ EP_ERROR \in Codes /\ Over(c)
      BY <1>5, <2>2 DEF WaitHello, EP_ERROR, Codes, WrongVersion, Over
    <3> QED  BY <2>1, <3>1, ReturnKeeps
  <2>3. CASE phase[c] # "idle"
    <3>1. Goto(t, "wait1", "wait2") /\ UNCHANGED <<vars, attempt, result>>
      BY <1>5, <2>3 DEF WaitHello
    <3> QED  BY <2>3, <3>1, GotoStill DEF Stations
  <2> QED  BY <2>2, <2>3
<1>6. CASE WaitAccess(t)
  <2>1. Goto(t, "wait2", "map_to") /\ UNCHANGED <<vars, attempt, result>>
    BY <1>6 DEF WaitAccess
  <2>2. phase[c] # "idle"
    BY <1>1, <2>1 DEF CallInv, Goto
  <2> QED  BY <2>1, <2>2, GotoStill DEF Stations
<1>7. CASE SendMapTo(t)
  <2>1. Goto(t, "map_to", "wait3") /\ UNCHANGED <<attempt, result>>
    BY <1>7 DEF SendMapTo
  <2>2. phase[c] # "idle" /\ ~ end[c].lep
    BY <1>1, <2>1 DEF CallInv, Goto
  <2>3. CASE phase[c] = "freed"
    BY <1>7, <2>1, <2>2, <2>3, GotoStill DEF SendMapTo, Stations
  <2>4. CASE phase[c] # "freed"
    <3>1. SendMap(c) /\ c \in Clients
      BY <1>2, <1>7, <2>4 DEF SendMapTo
    <3>2. EndStep(c) /\ TypeOK' /\ IInv' /\ phase' = phase
      BY <1>1, <1>2, <2>2, <3>1, SendMapIsEndStep, SendMapChange, SendMapKeeps DEF SendMap
    <3> QED  BY <2>1, <2>2, <3>2, MoveKeeps DEF Stations
  <2> QED  BY <2>3, <2>4
<1>8. CASE MapOvertakes(t)
  <2>1. PICK i \in DOMAIN net[c], accept \in BOOLEAN : RecvOvertaken(c, i, accept)
    BY <1>1, <1>2, <1>8, AuthOvertaken DEF MapOvertakes, Verdicts
  <2>2. EndStep(c) /\ TypeOK' /\ IInv'
    BY <1>1, <1>2, <2>1, OvertakenIsEndStep, OvertakenChange, OvertakenKeeps
  <2>3. phase'[c] # "idle"
    BY <1>1, <1>2, <2>1 DEF RecvOvertaken, Receives, Listens, TypeOK
  <2>4. PICK from \in {"wait2", "map_to"} : Goto(t, from, "wait3")
    BY <1>8 DEF MapOvertakes
  <2>5. UNCHANGED <<attempt, result>>
    BY <1>8 DEF MapOvertakes
  <2> QED  BY <2>2, <2>3, <2>4, <2>5, MoveKeeps DEF Stations
<1>9. CASE WaitMapped(t)
  <2>1. Goto(t, "wait3", "return") /\ UNCHANGED <<vars, attempt, result>>
    BY <1>9 DEF WaitMapped
  <2>2. phase[c] # "idle"
    BY <1>1, <2>1 DEF CallInv, Goto
  <2> QED  BY <2>1, <2>2, GotoStill DEF Stations
<1>10. CASE ReturnFlag(t)
  <2>1. PICK code \in IF phase[c] = "freed" THEN Codes ELSE {end[c].flag} : Return(t, code)
    BY <1>10 DEF ReturnFlag
  <2>2. code \in Codes /\ pc[t] # "done" /\ UNCHANGED vars
    BY <1>1, <1>2, <1>10, <2>1 DEF ReturnFlag, TypeOK, EndRecord
  <2>3. NoBreak /\ code # Ok => Over(c)
    BY <1>2, <2>1, FailedIsOver
  <2> QED  BY <2>1, <2>2, <2>3, ReturnKeeps
<1> QED  BY <1>3, <1>4, <1>5, <1>6, <1>7, <1>8, <1>9, <1>10 DEF CallMap

LEMMA MapInvInit == MapInit => MapInv
<1> SUFFICES ASSUME MapInit
             PROVE  MapInv
  OBVIOUS
<1>1. TypeOK /\ IInv /\ LateInv
  BY TypeInit, InvariantInit, LateInit DEF MapInit
<1>2. ASSUME NEW t \in Threads
      PROVE  1 \in DOMAIN Tries[t] /\ pc[t] = "init" /\ attempt[t] = 1 /\ result[t] = NoResult
  <2>1. Tries[t] \in Seq(Clients \cap Local) /\ Tries[t] # <<>>
    BY TriesAssumption
  <2>2. 1 \in DOMAIN Tries[t]
    BY <2>1, EmptySeq, LenProperties
  <2> QED  BY <2>2 DEF MapInit
<1>3. MapTypes
  BY <1>2 DEF MapInit, MapTypes, Stations
<1>4. ASSUME NEW t \in Threads
      PROVE  CallInv(t)
  <2>1. \A i \in DOMAIN Tries[t] : /\ i \in Nat /\ i >= 1
                                   /\ phase[Tries[t][i]] = "idle" /\ ~ end[Tries[t][i]].lep
    BY TriesAre DEF MapInit, Init, NewEnd
  <2>2. Conn(t) = Tries[t][1]
    BY <1>2 DEF Conn
  <2> QED  BY <1>2, <2>1, <2>2, TriesAssumption DEF CallInv
<1> QED  BY <1>1, <1>3, <1>4 DEF MapInv

LEMMA MapInvStep == MapInv /\ [MapNext]_allVars => MapInv'
<1> SUFFICES ASSUME MapInv, [MapNext]_allVars
             PROVE  MapInv'
  OBVIOUS
<1>1. CASE UNCHANGED allVars
  <2>1. UNCHANGED vars /\ pc' = pc /\ attempt' = attempt /\ result' = result
    BY <1>1 DEF allVars, mapVars
  <2>2. phase' = phase /\ end' = end
    BY <2>1 DEF vars
  <2>3. TypeOK' /\ IInv' /\ LateInv'
    BY <2>1, StillKeeps
  <2> QED  BY <2>1, <2>2, <2>3 DEF MapInv, MapTypes, CallInv, Conn, Over
<1>2. ASSUME NEW t \in Threads, CallMap(t)
      PROVE  MapInv'
  BY <1>2, CallStep
<1>3. ASSUME NEW e \in Ends, Others(e)
      PROVE  MapInv'
  <2>1. Elsewhere(e) /\ pc' = pc /\ attempt' = attempt /\ result' = result
    BY <1>3 DEF Others, Posting
  <2>2. TypeOK' /\ IInv' /\ LateInv' /\ \A d \in Clients \cap Local : Spared(d)
    BY <2>1, ElsewhereSpares DEF MapInv
  <2>3. ASSUME NEW t \in Threads
        PROVE  CallInv(t)'
    <3>1. \A i \in DOMAIN Tries[t] : Spared(Tries[t][i])
      BY <2>2, TriesAre
    <3> QED  BY <2>1, <3>1, SparedKeepsCall DEF MapInv
  <2> QED  BY <2>1, <2>2, <2>3 DEF MapInv, MapTypes
<1> QED  BY <1>1, <1>2, <1>3 DEF MapNext

\* The connections agree as in Handshake; those a call has not come to are idle;
\* those it has left, and the last one if it failed, will not be mapped any more.
THEOREM MapInvCorrect == MapSpec => []MapInv
BY MapInvInit, MapInvStep, PTL DEF MapSpec

-----------------------------------------------------------------------------
(* What follows. *)

\* core_map may be woken by another connection's token, at end of file or by a
\* timeout, and send its MAP in whatever state its connection is: the ends are
\* still authenticated as they claim, the versions still agree, and what a client
\* learned of its MAP is still what happened at its server.
THEOREM HoweverWoken ==
  MapSpec => [](MutualAuthentication /\ VersionGate /\ ClientAgreesWithServer)
<1>1. IInv => MutualAuthentication /\ VersionGate /\ ClientAgreesWithServer
  <2> SUFFICES ASSUME IInv
               PROVE  MutualAuthentication /\ VersionGate /\ ClientAgreesWithServer
    OBVIOUS
  <2>1. \A e \in Ends : EndInv(e)
    BY DEF IInv
  <2>2. MutualAuthentication
    BY <2>1 DEF EndInv, MutualAuthentication
  <2>3. VersionGate
    BY <2>1 DEF EndInv, SameVersion, VersionGate
  <2>4. ClientAgreesWithServer
    BY <2>1, ClientsAssumption DEF EndInv, ClientAgreesWithServer
  <2> QED  BY <2>2, <2>3, <2>4
<1>2. MapInv => MutualAuthentication /\ VersionGate /\ ClientAgreesWithServer
  BY <1>1 DEF MapInv
<1> QED  BY <1>2, MapInvCorrect, PTL

LEMMA OneOver ==
  ASSUME MapInv, NEW e \in Clients, Over(e)
  PROVE  end[e].st # "EXT_MSG"
BY ClientsAssumption DEF MapInv, IInv, EndInv, Over, NewEnd

LEMMA InvImpliesOne ==
  ASSUME NoBreak, MapInv
  PROVE  OneMappingPerCall
<1> SUFFICES ASSUME NEW t \in Threads
             PROVE  LET mapped == {i \in DOMAIN Tries[t] : end[Tries[t][i]].st = "EXT_MSG"}
                    IN  /\ Cardinality(mapped) <= 1
                        /\ result[t] \in Codes \ {Ok} => mapped = {}
  BY DEF OneMappingPerCall
<1> DEFINE mapped == {i \in DOMAIN Tries[t] : end[Tries[t][i]].st = "EXT_MSG"}
<1>1. CallInv(t) /\ MapTypes
  BY DEF MapInv
<1>2. attempt[t] \in Nat /\ \A i \in DOMAIN Tries[t] : i \in Nat /\ Tries[t][i] \in Clients
  BY <1>1, TriesAre DEF MapTypes
<1>3. mapped \subseteq {attempt[t]}
  <2> SUFFICES ASSUME NEW i \in DOMAIN Tries[t], i # attempt[t]
               PROVE  end[Tries[t][i]].st # "EXT_MSG"
    OBVIOUS
  <2>1. Over(Tries[t][i])
    BY <1>1, <1>2 DEF CallInv, Over
  <2> QED  BY <1>2, <2>1, OneOver
<1>4. Cardinality(mapped) <= 1
  <2>1. IsFiniteSet({attempt[t]}) /\ Cardinality({attempt[t]}) = 1
    BY FS_Singleton
  <2>2. Cardinality(mapped) \in Nat /\ Cardinality(mapped) <= Cardinality({attempt[t]})
    BY <1>3, <2>1, FS_Subset, FS_CardinalityType
  <2> QED  BY <2>1, <2>2
<1>5. result[t] \in Codes \ {Ok} => mapped = {}
  <2> SUFFICES ASSUME result[t] \in Codes \ {Ok}
               PROVE  end[Conn(t)].st # "EXT_MSG"
    BY <1>3 DEF Conn
  <2>1. Over(Conn(t)) /\ Conn(t) \in Clients
    BY <1>1, <1>2 DEF CallInv, Conn, MapTypes
  <2> QED  BY <2>1, OneOver
<1> QED  BY <1>4, <1>5

\* Where no connection breaks of itself, a core_map_all_modules maps at most one
\* of the connections it opened, and none if it returns an error, whatever ended
\* its waits: a late MAP_ACK maps nothing behind its back.
THEOREM OneMapping ==
  ASSUME NoBreak
  PROVE  MapSpec => []OneMappingPerCall
<1>1. MapInv => OneMappingPerCall
  BY InvImpliesOne
<1> QED  BY <1>1, MapInvCorrect, PTL

\* What core_map may do to its connections that Handshake allows only one that is
\* impatient: send its MAP in whatever state a connection is, or in the middle of
\* whatever handler.
Hurry ==
  \/ \E e \in Clients : ~ end[e].lep /\ SendMap(e)
  \/ \E e \in Clients : \E i \in DOMAIN net[e], accept \in Verdicts(e) :
       RecvOvertaken(e, i, accept)

LEMMA MapIsHandshake ==
  ASSUME MapInv, MapNext
  PROVE  [Next]_vars \/ Hurry
<1>1. ASSUME NEW t \in Threads, CallMap(t)
      PROVE  [Next]_vars \/ Hurry
  <2> DEFINE c == Conn(t)
  <2>1. c \in Clients /\ c \in Ends
    BY TriesAre DEF MapInv, MapTypes, Conn
  <2>2. CASE FcConnect(t)
    BY <2>1, <2>2 DEF FcConnect, Next
  <2>3. CASE MapOvertakes(t)
    <3>1. PICK i \in DOMAIN net[c] :
            \/ RecvAuthOvertaken(c, i)
            \/ \E accept \in Verdicts(c) : RecvOvertaken(c, i, accept)
      BY <2>3 DEF MapOvertakes
    <3>2. RecvAuthOvertaken(c, i) => Next
      BY <2>1 DEF Next, Overtake
    <3> QED  BY <2>1, <3>1, <3>2 DEF Hurry
  <2>4. CASE SendMapTo(t)
    <3>1. ~ end[c].lep
      BY <2>4 DEF SendMapTo, Goto, MapInv, CallInv
    <3> QED  BY <2>1, <2>4, <3>1 DEF SendMapTo, Hurry
  <2>5. CASE SyncInit(t) \/ WaitHello(t) \/ WaitAccess(t) \/ WaitMapped(t) \/ ReturnFlag(t)
    BY <2>5 DEF SyncInit, WaitHello, WaitAccess, WaitMapped, ReturnFlag
  <2> QED  BY <1>1, <2>2, <2>3, <2>4, <2>5 DEF CallMap
<1>2. ASSUME NEW e \in Ends, Others(e)
      PROVE  Next
  BY <1>2 DEF Others, Elsewhere, Next
<1> QED  BY <1>1, <1>2 DEF MapNext

\* However core_map is woken, what its MAP ended in is final, and a connection goes
\* back to an earlier state of the protocol only by the write of a handler that
\* core_map overtook, never to one earlier than the handler began in.
THEOREM NeverBackHoweverWoken == MapSpec => NeverBack
<1>1. MapInv /\ [MapNext]_allVars => Onward
  <2> SUFFICES ASSUME MapInv, [MapNext]_allVars
               PROVE  Onward
    OBVIOUS
  <2>1. [Next]_vars \/ Hurry
    BY MapIsHandshake DEF allVars
  <2>2. CASE Hurry
    BY <2>2, SendMapOnward, OvertakenOnward, ClientsAssumption DEF MapInv, Hurry, Verdicts
  <2> QED  BY <2>1, <2>2, OnwardStep DEF MapInv
<1>2. MapInv /\ [MapNext]_allVars =>
        [\A e \in Ends :
           /\ \/ Rank(end[e].st) <= Rank(end'[e].st)
              \/ end[e].st = "MAP_ACK" /\ end'[e].st = end[e].late
           /\ end'[e].late \notin {"none", end[e].late} =>
                /\ ~ end[e].lep /\ end'[e].lep
                /\ Rank(end[e].st) < Rank(end'[e].late)
           /\ Rank(end[e].st) = 6 => end'[e].st = end[e].st
           /\ end[e].isAuth => end'[e].isAuth
           /\ end[e].amAuth => end'[e].amAuth]_vars
  BY <1>1 DEF Onward, Further
<1> QED  BY <1>2, MapInvCorrect, PTL DEF MapSpec, NeverBack

\* The connections of a core whose core_map is woken by whatever token still
\* implement the authenticated session: nothing is attached that was not opened,
\* nothing opened that the peer did not vouch for.
THEOREM SessionHoweverWoken == MapSpec => SessionSpec
<1>1. MapInit => Session!Init
  BY SessionInit DEF MapInit
<1>2. MapInv /\ [MapNext]_allVars => [Session!Next]_Session!avars
  <2> SUFFICES ASSUME MapInv, [MapNext]_allVars
               PROVE  [Session!Next]_Session!avars
    OBVIOUS
  <2>1. [Next]_vars \/ Hurry
    BY MapIsHandshake DEF allVars
  <2>2. CASE Hurry
    BY <2>2, SendMapRefines, OvertakenRefines, ClientsAssumption DEF MapInv, Hurry, Verdicts
  <2> QED  BY <2>1, <2>2, SessionStep DEF MapInv
<1> QED  BY <1>1, <1>2, MapInvCorrect, PTL DEF MapSpec, SessionSpec, Session!Spec

-----------------------------------------------------------------------------
(* The handshake of a core_map in a hurry. *)

Hasty == INSTANCE Handshake WITH Impatient <- TRUE

LEMMA HastyCodes ==
  /\ Hasty!Ok = Ok /\ Hasty!NewEnd = NewEnd
  /\ \A type, arg : Hasty!Msg(type, arg) = Msg(type, arg)
  /\ \A s, out, posts : Hasty!Effect(s, out, posts) = Effect(s, out, posts)
  /\ \A s : Hasty!HandOver(s) = HandOver(s)
  /\ \A own, theirs : Hasty!HelloCode(own, theirs) = HelloCode(own, theirs)
  /\ \A s, type : Hasty!Handles(s, type) <=> Handles(s, type)
<1>1. /\ Hasty!Ok = Ok /\ Hasty!WrongVersion = WrongVersion
      /\ Hasty!AuthRefused = AuthRefused /\ Hasty!EP_NO_EXIST = EP_NO_EXIST
  BY DEF Hasty!Ok, Ok, Hasty!WrongVersion, WrongVersion, Hasty!AuthRefused, AuthRefused,
         Hasty!EP_NO_EXIST, EP_NO_EXIST
<1>2. Hasty!NewEnd = NewEnd
  BY <1>1 DEF Hasty!NewEnd, NewEnd
<1>3. \A type, arg : Hasty!Msg(type, arg) = Msg(type, arg)
  BY DEF Hasty!Msg, Msg
<1>4. \A s, out, posts : Hasty!Effect(s, out, posts) = Effect(s, out, posts)
  BY DEF Hasty!Effect, Effect
<1>5. \A s : Hasty!HandOver(s) = HandOver(s)
  BY DEF Hasty!HandOver, HandOver
<1>6. \A own, theirs : Hasty!HelloCode(own, theirs) = HelloCode(own, theirs)
  BY <1>1 DEF Hasty!HelloCode, HelloCode
<1>7. Hasty!HandledIn = HandledIn /\ \A type : Hasty!Dispatcher(type) = Dispatcher(type)
  BY DEF Hasty!HandledIn, HandledIn, Hasty!Dispatcher, Dispatcher
<1>8. \A s, type : Hasty!Handles(s, type) <=> Handles(s, type)
  BY <1>7 DEF Hasty!Handles, Handles
<1> QED  BY <1>1, <1>2, <1>3, <1>4, <1>5, <1>6, <1>8

LEMMA HastyHandlers ==
  /\ \A s, code : Hasty!CoreProtoHello(s, code) = CoreProtoHello(s, code)
  /\ \A s, code : Hasty!CoreProtoHelloAck(s, code) = CoreProtoHelloAck(s, code)
  /\ \A s, accept : Hasty!CoreProtoCheckAuth(s, accept) = CoreProtoCheckAuth(s, accept)
  /\ \A s, code : Hasty!CoreProtoCheckAuthAck(s, code) = CoreProtoCheckAuthAck(s, code)
  /\ \A s : Hasty!CoreProtoMapTo(s) = CoreProtoMapTo(s)
  /\ \A s, found : Hasty!CoreProtoMap(s, found) = CoreProtoMap(s, found)
  /\ \A s, code : Hasty!CoreProtoMapAck(s, code) = CoreProtoMapAck(s, code)
<1>1. Hasty!AuthRefused = AuthRefused /\ Hasty!EP_NO_EXIST = EP_NO_EXIST
  BY DEF Hasty!AuthRefused, AuthRefused, Hasty!EP_NO_EXIST, EP_NO_EXIST
<1>2. \A s, code : Hasty!CoreProtoHello(s, code) = CoreProtoHello(s, code)
  BY HastyCodes DEF Hasty!CoreProtoHello, CoreProtoHello
<1>3. \A s, code : Hasty!CoreProtoHelloAck(s, code) = CoreProtoHelloAck(s, code)
  BY HastyCodes DEF Hasty!CoreProtoHelloAck, CoreProtoHelloAck
<1>4. \A s, accept : Hasty!CoreProtoCheckAuth(s, accept) = CoreProtoCheckAuth(s, accept)
  BY <1>1, HastyCodes DEF Hasty!CoreProtoCheckAuth, CoreProtoCheckAuth
<1>5. \A s, code : Hasty!CoreProtoCheckAuthAck(s, code) = CoreProtoCheckAuthAck(s, code)
  BY HastyCodes DEF Hasty!CoreProtoCheckAuthAck, CoreProtoCheckAuthAck
<1>6. \A s : Hasty!CoreProtoMapTo(s) = CoreProtoMapTo(s)
  BY HastyCodes DEF Hasty!CoreProtoMapTo, CoreProtoMapTo
<1>7. \A s, found : Hasty!CoreProtoMap(s, found) = CoreProtoMap(s, found)
  BY <1>1, HastyCodes DEF Hasty!CoreProtoMap, CoreProtoMap
<1>8. \A s, code : Hasty!CoreProtoMapAck(s, code) = CoreProtoMapAck(s, code)
  BY HastyCodes DEF Hasty!CoreProtoMapAck, CoreProtoMapAck
<1> QED  BY <1>2, <1>3, <1>4, <1>5, <1>6, <1>7, <1>8

LEMMA HastyQueues ==
  /\ \A q, i : Hasty!Drop(q, i) = Drop(q, i)
  /\ \A e : Hasty!Deliverable(e) = Deliverable(e) /\ Hasty!Verdicts(e) = Verdicts(e)
  /\ \A p, msgs : Hasty!Sent(p, msgs) = Sent(p, msgs)
  /\ \A e, i, f : Hasty!Take(e, i, f) <=> Take(e, i, f)
  /\ \A e, i, type : Hasty!Receives(e, i, type) <=> Receives(e, i, type)
  /\ \A e : (Hasty!Freed(e) <=> Freed(e)) /\ (Hasty!Listens(e) <=> Listens(e))
<1>1. /\ \A q, i : Hasty!Drop(q, i) = Drop(q, i)
      /\ \A p, msgs : Hasty!Sent(p, msgs) = Sent(p, msgs)
  BY DEF Hasty!Drop, Drop, Hasty!Sent, Sent
<1>2. \A e : Hasty!Deliverable(e) = Deliverable(e) /\ Hasty!Verdicts(e) = Verdicts(e)
  BY DEF Hasty!Deliverable, Deliverable, Hasty!Verdicts, Verdicts
<1>3. \A e, i, f : Hasty!Take(e, i, f) <=> Take(e, i, f)
  BY <1>1 DEF Hasty!Take, Take
<1>4. \A e : (Hasty!Freed(e) <=> Freed(e)) /\ (Hasty!Listens(e) <=> Listens(e))
  BY DEF Hasty!Freed, Freed, Hasty!Listens, Listens
<1>5. \A e, i, type : Hasty!Receives(e, i, type) <=> Receives(e, i, type)
  BY <1>2, <1>4, HastyCodes DEF Hasty!Receives, Receives
<1> QED  BY <1>1, <1>2, <1>3, <1>4, <1>5

LEMMA HastyReceive == \A e : Hasty!Receive(e) <=> Receive(e)
<1> SUFFICES ASSUME NEW e
             PROVE  Hasty!Receive(e) <=> Receive(e)
  OBVIOUS
<1>1. \A i : Hasty!RecvHello(e, i) <=> RecvHello(e, i)
  BY HastyCodes, HastyHandlers, HastyQueues DEF Hasty!RecvHello, RecvHello
<1>2. \A i : Hasty!RecvHelloAck(e, i) <=> RecvHelloAck(e, i)
  BY HastyHandlers, HastyQueues DEF Hasty!RecvHelloAck, RecvHelloAck
<1>3. \A i, accept : Hasty!RecvAuth(e, i, accept) <=> RecvAuth(e, i, accept)
  BY HastyHandlers, HastyQueues DEF Hasty!RecvAuth, RecvAuth
<1>4. \A i : Hasty!RecvAuthAck(e, i) <=> RecvAuthAck(e, i)
  BY HastyCodes, HastyHandlers, HastyQueues DEF Hasty!RecvAuthAck, RecvAuthAck
<1>5. \A i, found : Hasty!RecvMap(e, i, found) <=> RecvMap(e, i, found)
  BY HastyHandlers, HastyQueues DEF Hasty!RecvMap, RecvMap
<1>6. \A i : Hasty!RecvMapAck(e, i) <=> RecvMapAck(e, i)
  BY HastyHandlers, HastyQueues DEF Hasty!RecvMapAck, RecvMapAck
<1>7. \A i : Hasty!Ignore(e, i) <=> Ignore(e, i)
  BY HastyCodes, HastyQueues DEF Hasty!Ignore, Ignore
<1>8. Hasty!Verdicts(e) = Verdicts(e)
  BY HastyQueues
<1> QED  BY <1>1, <1>2, <1>3, <1>4, <1>5, <1>6, <1>7, <1>8 DEF Hasty!Receive, Receive

\* core_proto_map_to in the middle of a handler.
LEMMA HastyOvertake ==
  ASSUME NEW e
  PROVE  /\ Hasty!LateWrite(e) <=> LateWrite(e)
         /\ \A i \in DOMAIN net[e], accept \in Verdicts(e) :
              RecvOvertaken(e, i, accept) => Hasty!Overtake(e)
         /\ Overtake(e) => Hasty!Overtake(e)
<1>1. Hasty!LateWrite(e) <=> LateWrite(e)
  BY DEF Hasty!LateWrite, LateWrite
<1>2. \A i : RecvAuthOvertaken(e, i) => Hasty!RecvAuthOvertaken(e, i)
  BY HastyCodes, HastyHandlers, HastyQueues DEF RecvAuthOvertaken, Hasty!RecvAuthOvertaken
<1>3. \A m, accept : Hasty!Handler(e, m, accept) = Handler(e, m, accept)
  BY HastyCodes, HastyHandlers DEF Hasty!Handler, Handler
<1>4. ASSUME NEW i, NEW accept, RecvOvertaken(e, i, accept)
      PROVE  Hasty!RecvOvertaken(e, i, accept)
  <2>1. PICK m, f, g : /\ m = net[e][i]
                       /\ f = Handler(e, m, accept)
                       /\ g = CoreProtoMapTo(f.end)
    OBVIOUS
  <2>2. Hasty!Handler(e, m, accept) = f /\ Hasty!CoreProtoMapTo(f.end) = g
    BY <1>3, <2>1, HastyHandlers
  <2>3. PICK mixed, after :
          /\ mixed = {f.out \o g.out, g.out \o f.out}
          /\ after = IF m.type = "AUTH" /\ e \notin Guarded THEN {f.out \o g.out} ELSE mixed
    OBVIOUS
  <2> DEFINE Body ==
        /\ e \in Clients
        /\ ~ end[e].lep
        /\ m.type \in {"HELLO", "HELLO_ACK", "AUTH", "AUTH_ACK"}
        /\ Receives(e, i, m.type)
        /\ \/ \E out \in mixed : Take(e, i, Effect(g.end, out, 0))
           \/ \E out \in after : Take(e, i, Effect(g.end, out, f.posts))
           \/ /\ f.end.st # end[e].st
              /\ \E out \in after :
                   Take(e, i, Effect([g.end EXCEPT !.late = f.end.st], out, f.posts))
        /\ phase' = IF m.type = "AUTH_ACK" /\ m.arg # Ok
                    THEN [phase EXCEPT ![e] = "closing"] ELSE phase
  <2>4. Body
    BY <1>4, <2>1, <2>3 DEF RecvOvertaken
  <2>5. \A out, posts, t :
          Take(e, i, Effect(t, out, posts)) <=> Hasty!Take(e, i, Hasty!Effect(t, out, posts))
    BY HastyCodes, HastyQueues
  <2>6. /\ Hasty!Receives(e, i, m.type) <=> Receives(e, i, m.type)
        /\ Hasty!Ok = Ok
    BY HastyCodes, HastyQueues
  <2>7. /\ e \in Clients
        /\ ~ end[e].lep
        /\ m.type \in {"HELLO", "HELLO_ACK", "AUTH", "AUTH_ACK"}
        /\ Hasty!Receives(e, i, m.type)
        /\ \/ \E out \in mixed : Hasty!Take(e, i, Hasty!Effect(g.end, out, 0))
           \/ \E out \in after : Hasty!Take(e, i, Hasty!Effect(g.end, out, f.posts))
           \/ /\ f.end.st # end[e].st
              /\ \E out \in after :
                   Hasty!Take(e, i, Hasty!Effect([g.end EXCEPT !.late = f.end.st], out, f.posts))
        /\ phase' = IF m.type = "AUTH_ACK" /\ m.arg # Hasty!Ok
                    THEN [phase EXCEPT ![e] = "closing"] ELSE phase
    BY <2>4, <2>5, <2>6
  <2> HIDE DEF Body
  <2> DEFINE fh == Hasty!Handler(e, net[e][i], accept)
             gh == Hasty!CoreProtoMapTo(fh.end)
             both == {fh.out \o gh.out, gh.out \o fh.out}
             then == IF net[e][i].type = "AUTH" /\ e \notin Guarded
                     THEN {fh.out \o gh.out} ELSE both
  <2>8. fh = f /\ gh = g
    BY <2>1, <2>2
  <2>9. both = mixed /\ then = after
    <3> HIDE DEF fh, gh
    <3> QED  BY <2>1, <2>3, <2>8
  <2>10. /\ e \in Clients
         /\ ~ end[e].lep
         /\ net[e][i].type \in {"HELLO", "HELLO_ACK", "AUTH", "AUTH_ACK"}
         /\ Hasty!Receives(e, i, net[e][i].type)
         /\ \/ \E out \in both : Hasty!Take(e, i, Hasty!Effect(gh.end, out, 0))
            \/ \E out \in then : Hasty!Take(e, i, Hasty!Effect(gh.end, out, fh.posts))
            \/ /\ fh.end.st # end[e].st
               /\ \E out \in then :
                    Hasty!Take(e, i, Hasty!Effect([gh.end EXCEPT !.late = fh.end.st], out, fh.posts))
         /\ phase' = IF net[e][i].type = "AUTH_ACK" /\ net[e][i].arg # Hasty!Ok
                     THEN [phase EXCEPT ![e] = "closing"] ELSE phase
    <3> HIDE DEF fh, gh, both, then
    <3> QED  BY <2>1, <2>7, <2>8, <2>9
  <2> QED  BY <2>10 DEF Hasty!RecvOvertaken
<1>5. Hasty!Verdicts(e) = Verdicts(e)
  BY HastyQueues
<1> QED  BY <1>1, <1>2, <1>4, <1>5 DEF Overtake, Hasty!Overtake

LEMMA HastySendMap ==
  \A e : /\ Hasty!SendMap(e) <=> SendMap(e)
         /\ e \in Clients /\ ~ end[e].lep /\ SendMap(e) => Hasty!MapTo(e)
         /\ MapTo(e) => Hasty!MapTo(e)
<1>1. \A e : Hasty!SendMap(e) <=> SendMap(e)
  BY HastyHandlers, HastyQueues DEF Hasty!SendMap, SendMap
<1> QED  BY <1>1 DEF Hasty!MapTo, MapTo

LEMMA HastyNext == [Next]_vars => [Hasty!Next]_(Hasty!vars)
<1> SUFFICES ASSUME [Next]_vars
             PROVE  [Hasty!Next]_(Hasty!vars)
  OBVIOUS
<1>1. CASE UNCHANGED vars
  BY <1>1 DEF vars, Hasty!vars
<1>2. \A e : Connect(e) => Hasty!Connect(e)
  BY HastyCodes, HastyQueues DEF Connect, Hasty!Connect
<1>3. \A e : (Overtake(e) => Hasty!Overtake(e)) /\ (LateWrite(e) => Hasty!LateWrite(e))
  BY HastyOvertake
<1>4. \A e : Disconnect(e) => Hasty!Disconnect(e)
  BY HastyQueues DEF Disconnect, Hasty!Disconnect
<1>5. \A e : Break(e) => Hasty!Break(e)
  BY HastyQueues DEF Break, Hasty!Break
<1>6. \A e : Lose(e) => Hasty!Lose(e)
  BY HastyQueues DEF Lose, Hasty!Lose
<1>7. \A e : Duplicate(e) => Hasty!Duplicate(e)
  BY DEF Duplicate, Hasty!Duplicate
<1>8. CASE Next
  BY <1>2, <1>3, <1>4, <1>5, <1>6, <1>7, <1>8, HastyReceive, HastySendMap DEF Next, Hasty!Next
<1> QED  BY <1>1, <1>8

\* What core_map makes of its connections is what Handshake allows a core_map
\* whose waits may end at any time: no step of the calls, woken by whatever token,
\* is one that Handshake does not have.
THEOREM MapImplementsHandshake == MapSpec => Hasty!Spec
<1>1. MapInit => Hasty!Init
  BY HastyCodes DEF MapInit, Init, Hasty!Init
<1>2. MapInv /\ [MapNext]_allVars => [Hasty!Next]_(Hasty!vars)
  <2> SUFFICES ASSUME MapInv, [MapNext]_allVars
               PROVE  [Hasty!Next]_(Hasty!vars)
    OBVIOUS
  <2>1. CASE [Next]_vars
    BY <2>1, HastyNext
  <2>2. CASE Hurry
    BY <2>2, HastySendMap, HastyOvertake, ClientsAssumption DEF Hasty!Next, Hurry
  <2> QED  BY <2>1, <2>2, MapIsHandshake DEF allVars
<1> QED  BY <1>1, <1>2, MapInvCorrect, PTL DEF MapSpec, Hasty!Spec

-----------------------------------------------------------------------------
(* A call that is alone. *)

\* A core without access modules refuses nobody.
Unrefused ==
  \A e \in Ends : Peer[e] \notin Guarded =>
    \A i \in DOMAIN net[e] : net[e][i].type = "AUTH_ACK" => net[e][i].arg = Ok

\* A step that sends no refusal from such a core leaves none in flight.
LEMMA ChangeKeepsUnrefused ==
  ASSUME TypeOK, Unrefused, NEW e \in Ends, NEW t, NEW out, Change(e, t, out),
         \A k \in DOMAIN out :
           e \notin Guarded /\ out[k].type = "AUTH_ACK" => out[k].arg = Ok
  PROVE  Unrefused'
<1> SUFFICES ASSUME NEW d \in Ends, Peer[d] \notin Guarded, NEW j \in DOMAIN net'[d],
                    net'[d][j].type = "AUTH_ACK"
             PROVE  net'[d][j].arg = Ok
  BY DEF Unrefused
<1>1. CASE \E k \in DOMAIN net[d] : net'[d][j] = net[d][k]
  BY <1>1 DEF Unrefused
<1>2. CASE d = Peer[e] /\ \E k \in DOMAIN out : net'[d][j] = out[k]
  <2>1. e \notin Guarded
    BY <1>2, PeerAssumption
  <2> QED  BY <1>2, <2>1
<1> QED  BY <1>1, <1>2 DEF Change, NetFrom

LEMMA UnrefusedStep == TypeOK /\ Unrefused /\ [Next]_vars => Unrefused'
<1> SUFFICES ASSUME TypeOK, Unrefused, [Next]_vars
             PROVE  Unrefused'
  OBVIOUS
<1>1. CASE UNCHANGED vars
  BY <1>1 DEF vars, Unrefused
<1>2. ASSUME NEW e \in Ends, NEW t, NEW type \in MsgTypes, NEW arg,
             Change(e, t, <<Msg(type, arg)>>),
             e \notin Guarded /\ type = "AUTH_ACK" => arg = Ok
      PROVE  Unrefused'
  <2> DEFINE out == <<Msg(type, arg)>>
  <2>1. \A k \in DOMAIN out : e \notin Guarded /\ out[k].type = "AUTH_ACK" => out[k].arg = Ok
    BY <1>2 DEF Msg
  <2> HIDE DEF out
  <2>2. Change(e, t, out)
    BY <1>2 DEF out
  <2> QED  BY <2>1, <2>2, ChangeKeepsUnrefused
<1>3. ASSUME NEW e \in Ends, NEW t, Change(e, t, <<>>)
      PROVE  Unrefused'
  <2>1. DOMAIN <<>> = {}
    OBVIOUS
  <2> QED  BY <1>3, <2>1, ChangeKeepsUnrefused
<1>4. ASSUME NEW e \in Ends, NEW i \in DOMAIN net[e],
             \/ RecvHello(e, i) \/ RecvHelloAck(e, i)
             \/ \E accept \in Verdicts(e) : RecvAuth(e, i, accept)
             \/ RecvAuthAck(e, i)
             \/ \E found \in BOOLEAN : RecvMap(e, i, found)
             \/ RecvMapAck(e, i) \/ Ignore(e, i)
      PROVE  Unrefused'
  <2> DEFINE s == end[e]
             a == net[e][i].arg
  <2>1. CASE RecvHello(e, i)
    <3> DEFINE f == CoreProtoHello(s, HelloCode(version[e], a))
    <3>1. Change(e, f.end, f.out)
      BY <2>1, HelloChange
    <3>2. f.out = <<Msg("HELLO_ACK", HelloCode(version[e], a))>>
      BY DEF CoreProtoHello, Effect
    <3> HIDE DEF f
    <3> QED  BY <1>2, <3>1, <3>2 DEF MsgTypes
  <2>2. CASE RecvHelloAck(e, i)
    <3> DEFINE f == CoreProtoHelloAck(s, a)
    <3>1. Change(e, f.end, f.out)
      BY <2>2, HelloAckChange
    <3>2. f.out = <<Msg("AUTH", Ok)>>
      BY DEF CoreProtoHelloAck, Effect
    <3> HIDE DEF f
    <3> QED  BY <1>2, <3>1, <3>2 DEF MsgTypes
  <2>3. CASE \E accept \in Verdicts(e) : RecvAuth(e, i, accept)
    <3>1. PICK accept \in BOOLEAN : RecvAuth(e, i, accept) /\ (e \notin Guarded => accept)
      BY <2>3 DEF Verdicts
    <3> DEFINE f == CoreProtoCheckAuth(s, accept)
               code == IF s.isAuth \/ accept THEN Ok ELSE AuthRefused
    <3>2. Change(e, f.end, f.out)
      BY <3>1, AuthChange
    <3>3. f.out = <<Msg("AUTH_ACK", code)>>
      BY DEF CoreProtoCheckAuth, Effect
    <3>4. e \notin Guarded => code = Ok
      BY <3>1
    <3> HIDE DEF f, code
    <3> QED  BY <1>2, <3>2, <3>3, <3>4 DEF MsgTypes
  <2>4. CASE RecvAuthAck(e, i)
    <3> DEFINE f == CoreProtoCheckAuthAck(s, a)
    <3>1. Change(e, f.end, f.out)
      BY <2>4, AuthAckChange
    <3>2. f.out = <<>>
      BY DEF CoreProtoCheckAuthAck, Effect
    <3> HIDE DEF f
    <3> QED  BY <1>3, <3>1, <3>2
  <2>5. CASE \E found \in BOOLEAN : RecvMap(e, i, found)
    <3>1. PICK found \in BOOLEAN : RecvMap(e, i, found)
      BY <2>5
    <3> DEFINE f == CoreProtoMap(s, found)
               code == IF found THEN Ok ELSE EP_NO_EXIST
    <3>2. Change(e, f.end, f.out)
      BY <3>1, MapChange
    <3>3. f.out = <<Msg("MAP_ACK", code)>>
      BY DEF CoreProtoMap, Effect
    <3> HIDE DEF f, code
    <3> QED  BY <1>2, <3>2, <3>3 DEF MsgTypes
  <2>6. CASE RecvMapAck(e, i)
    <3> DEFINE f == CoreProtoMapAck(s, a)
    <3>1. Change(e, f.end, f.out)
      BY <2>6, MapAckChange
    <3>2. f.out = <<>>
      BY DEF CoreProtoMapAck, Effect
    <3> HIDE DEF f
    <3> QED  BY <1>3, <3>1, <3>2
  <2>7. CASE Ignore(e, i)
    BY <1>3, <2>7, IgnoreChange
  <2> QED  BY <1>4, <2>1, <2>2, <2>3, <2>4, <2>5, <2>6, <2>7
<1>5. ASSUME NEW e \in Ends, Connect(e)
      PROVE  Unrefused'
  BY <1>2, <1>5, ConnectChange DEF MsgTypes
<1>6. ASSUME NEW e \in Ends, MapTo(e)
      PROVE  Unrefused'
  <2> DEFINE f == CoreProtoMapTo(end[e])
  <2>1. Change(e, f.end, f.out)
    BY <1>6, SendMapChange DEF MapTo
  <2>2. f.out = <<Msg("MAP", Ok)>>
    BY DEF CoreProtoMapTo, Effect
  <2> HIDE DEF f
  <2> QED  BY <1>2, <2>1, <2>2 DEF MsgTypes
<1>7. ASSUME NEW e \in Ends, Disconnect(e) \/ Break(e) \/ Lose(e) \/ Duplicate(e)
      PROVE  Unrefused'
  BY <1>3, <1>7, QuietChange
<1>8. ASSUME NEW e \in Ends, Overtake(e)
      PROVE  Unrefused'
  <2>1. PICK i \in DOMAIN net[e], accept \in BOOLEAN :
          RecvOvertaken(e, i, accept) /\ (e \notin Guarded => accept)
    BY <1>8, AuthOvertaken DEF Overtake, Verdicts
  <2> DEFINE m == net[e][i]
  <2>2. PICK f, t, out :
          /\ f = Handler(e, m, accept)
          /\ TypeOK' /\ Change(e, t, out)
          /\ Overtaken(end[e], f, t, out)
    BY <2>1, OvertakenChange
  <2>3. m.type \in {"HELLO", "HELLO_ACK", "AUTH", "AUTH_ACK"}
    BY <2>1 DEF RecvOvertaken
  <2> HIDE DEF m
  <2>4. \A n \in DOMAIN f.out :
          e \notin Guarded /\ f.out[n].type = "AUTH_ACK" => f.out[n].arg = Ok
    <3>1. CASE m.type = "HELLO"
      BY <2>2, <3>1 DEF Handler, CoreProtoHello, Effect, Msg
    <3>2. CASE m.type = "HELLO_ACK"
      BY <2>2, <3>2 DEF Handler, CoreProtoHelloAck, Effect, Msg
    <3>3. CASE m.type = "AUTH"
      BY <2>1, <2>2, <3>3 DEF Handler, CoreProtoCheckAuth, Effect, Msg
    <3>4. CASE m.type = "AUTH_ACK"
      BY <2>2, <3>4 DEF Handler, CoreProtoCheckAuthAck, Effect
    <3> QED  BY <2>3, <3>1, <3>2, <3>3, <3>4
  <2>5. \A k \in DOMAIN out :
          e \notin Guarded /\ out[k].type = "AUTH_ACK" => out[k].arg = Ok
    BY <2>2, <2>4 DEF Overtaken, Msg
  <2> QED  BY <2>2, <2>5, ChangeKeepsUnrefused
<1>9. ASSUME NEW e \in Ends, LateWrite(e)
      PROVE  Unrefused'
  BY <1>3, <1>9, LateChange
<1> QED  BY <1>1, <1>4, <1>5, <1>6, <1>7, <1>8, <1>9 DEF Next, Receive

\* How many tokens an end in this state has posted.
Progress(st) ==
  CASE st \in {"HELLO_S", "HELLO_ACK_S", "HELLO_2"} -> 0
    [] st \in {"AUTH", "AUTH_ACK", "AUTH_2"}        -> 1
    [] st \in {"MAP", "MAP_ACK"}                    -> 2
    [] OTHER                                        -> 3

\* A handler of an end in order posts what its state owes for the progress it made.
LEMMA ReceivePosts ==
  ASSUME TypeOK, IInv, Unrefused, NEW r \in Places, NEW e \in Ends, InOrder(e), Receive(e)
  PROVE  /\ \A d \in Ends \ {e} : posted'[d] = posted[d] /\ end'[d] = end[d]
         /\ Peer[e] \notin Guarded => phase' = phase
         /\ e \in Clients =>
              posted'[e] = posted[e] + (Progress(end'[e].st) - Progress(end[e].st))
         /\ end[e].st \notin {"EXT_MSG", "BAD"}
<1> DEFINE s == end[e]
           m == net[e][1]
<1>1. PICK i \in DOMAIN net[e] :
        \/ RecvHello(e, i) \/ RecvHelloAck(e, i)
        \/ \E accept \in Verdicts(e) : RecvAuth(e, i, accept)
        \/ RecvAuthAck(e, i)
        \/ \E found \in BOOLEAN : RecvMap(e, i, found)
        \/ RecvMapAck(e, i) \/ Ignore(e, i)
  BY DEF Receive
<1>2. i \in Deliverable(e) /\ phase[e] = "up"
  BY <1>1 DEF RecvHello, RecvHelloAck, RecvAuth, RecvAuthAck, RecvMap, RecvMapAck,
              Ignore, Receives, Listens
<1>3. i = 1 /\ 1 \in DOMAIN net[e]
  BY <1>2 DEF InOrder, Ordered, Deliverable
<1>4. /\ r[e] \in 0..4 /\ Says(e, m, r[e] + 1) /\ Handles(s, m.type)
      /\ m \in Message /\ s \in EndRecord /\ HasRead(s, e \in Clients, r[e])
      /\ r[e] = 4 => s.st = IF e \in Clients THEN "MAP_ACK" ELSE "MAP"
  BY <1>2, <1>3, NextIsHandled
<1>5. /\ m.type = "HELLO" <=> r[e] = 0
      /\ m.type = "HELLO_ACK" <=> r[e] = 1
      /\ m.type = "HELLO_ACK" => m.arg = Ok
      /\ m.type = "AUTH" <=> r[e] = 2
      /\ m.type = "AUTH_ACK" <=> r[e] = 3
      /\ m.type \in {"MAP", "MAP_ACK"} <=> r[e] = 4
  BY <1>4, TypeIsPlace
<1>6. s.st \notin {"EXT_MSG", "BAD"}
  BY <1>4 DEF HasRead
<1>7. ASSUME NEW f, Take(e, 1, f)
      PROVE  /\ \A d \in Ends \ {e} : posted'[d] = posted[d] /\ end'[d] = end[d]
             /\ end'[e] = f.end /\ posted'[e] = posted[e] + f.posts
  BY <1>7 DEF Take, TypeOK
<1> DEFINE Paid(f) == f.posts = Progress(f.end.st) - Progress(s.st)
<1>8. ASSUME NEW f, Take(e, 1, f), e \in Clients => Paid(f),
             Peer[e] \notin Guarded => phase' = phase
      PROVE  /\ \A d \in Ends \ {e} : posted'[d] = posted[d] /\ end'[d] = end[d]
             /\ Peer[e] \notin Guarded => phase' = phase
             /\ e \in Clients =>
                  posted'[e] = posted[e] + (Progress(end'[e].st) - Progress(end[e].st))
  BY <1>7, <1>8
<1> HIDE DEF s
<1>9. CASE RecvHello(e, 1)
  <2> DEFINE f == CoreProtoHello(s, HelloCode(version[e], m.arg))
  <2>1. Take(e, 1, f) /\ phase' = phase /\ m.type = "HELLO"
    BY <1>9 DEF RecvHello, Receives, s
  <2>2. s.st = "HELLO_S"
    BY <1>4, <1>5, <2>1 DEF HasRead
  <2>3. f.posts = 0 /\ f.end.st \in {"HELLO_S", "HELLO_ACK_S"}
    BY <1>4, <2>2 DEF CoreProtoHello, Effect, EndRecord
  <2>4. Paid(f)
    BY <2>2, <2>3 DEF Progress
  <2> HIDE DEF f, Paid
  <2> QED  BY <1>6, <1>8, <2>1, <2>4 DEF s
<1>10. CASE RecvHelloAck(e, 1)
  <2> DEFINE f == CoreProtoHelloAck(s, m.arg)
  <2>1. Take(e, 1, f) /\ phase' = phase /\ m.type = "HELLO_ACK"
    BY <1>10 DEF RecvHelloAck, Receives, s
  <2>2. s.st = "HELLO_ACK_S" /\ m.arg = Ok
    BY <1>4, <1>5, <2>1 DEF HasRead
  <2>3. f.posts = 1 /\ f.end.st = "AUTH"
    BY <1>4, <2>2 DEF CoreProtoHelloAck, Effect, EndRecord
  <2>4. Paid(f)
    BY <2>2, <2>3 DEF Progress
  <2> HIDE DEF f, Paid
  <2> QED  BY <1>6, <1>8, <2>1, <2>4 DEF s
<1>11. CASE \E accept \in Verdicts(e) : RecvAuth(e, 1, accept)
  <2>1. PICK accept \in BOOLEAN : RecvAuth(e, 1, accept)
    BY <1>11 DEF Verdicts
  <2> DEFINE f == CoreProtoCheckAuth(s, accept)
  <2>2. Take(e, 1, f) /\ phase' = phase /\ m.type = "AUTH"
    BY <2>1 DEF RecvAuth, Receives, s
  <2>3. s.st = "AUTH"
    BY <1>4, <1>5, <2>2 DEF HasRead
  <2>4. f.posts = 0 /\ f.end.st \in {"AUTH", "AUTH_ACK"}
    BY <1>4, <2>3 DEF CoreProtoCheckAuth, HandOver, Effect, EndRecord
  <2>5. Paid(f)
    BY <2>3, <2>4 DEF Progress
  <2> HIDE DEF f, Paid
  <2> QED  BY <1>6, <1>8, <2>2, <2>5 DEF s
<1>12. CASE RecvAuthAck(e, 1)
  <2> DEFINE f == CoreProtoCheckAuthAck(s, m.arg)
  <2>1. Take(e, 1, f) /\ m.type = "AUTH_ACK" /\ (m.arg = Ok => phase' = phase)
    BY <1>12 DEF RecvAuthAck, Receives, s
  <2>2. s.st \in {"AUTH", "AUTH_ACK"} /\ (s.st = "AUTH_ACK" => s.isAuth)
    BY <1>4, <1>5, <2>1 DEF HasRead
  <2>3. Peer[e] \notin Guarded => m.arg = Ok
    BY <1>3, <2>1 DEF Unrefused
  <2>4. IF m.arg = Ok
        THEN IF s.st = "AUTH_ACK" THEN f.posts = 1 /\ f.end.st = "MAP"
                                  ELSE f.posts = 0 /\ f.end.st = "AUTH_2"
        ELSE f.posts = 0 /\ f.end.st = s.st
    BY <1>4, <2>2 DEF CoreProtoCheckAuthAck, HandOver, Effect, EndRecord
  <2>5. Paid(f)
    BY <2>2, <2>4 DEF Progress
  <2> HIDE DEF f, Paid
  <2> QED  BY <1>6, <1>8, <2>1, <2>3, <2>5 DEF s
<1>13. CASE \E found \in BOOLEAN : RecvMap(e, 1, found)
  <2>1. PICK found \in BOOLEAN : RecvMap(e, 1, found)
    BY <1>13
  <2> DEFINE f == CoreProtoMap(s, found)
  <2>2. Take(e, 1, f) /\ phase' = phase /\ m.type = "MAP"
    BY <2>1 DEF RecvMap, Receives, s
  <2>3. e \notin Clients
    <3>1. Honest(e, m)
      BY <1>3 DEF IInv, NetHonest
    <3> QED  BY <2>2, <3>1 DEF Honest
  <2> HIDE DEF f, Paid
  <2> QED  BY <1>6, <1>8, <2>2, <2>3 DEF s
<1>14. CASE RecvMapAck(e, 1)
  <2> DEFINE f == CoreProtoMapAck(s, m.arg)
  <2>1. Take(e, 1, f) /\ phase' = phase /\ m.type = "MAP_ACK"
    BY <1>14 DEF RecvMapAck, Receives, s
  <2>2. s.st = "MAP_ACK" /\ s.lep
    <3>1. s.st = "MAP_ACK"
      BY <1>4, <2>1 DEF Handles, HandledIn
    <3> QED  BY <3>1 DEF IInv, EndInv, s
  <2>3. f.posts = 1 /\ f.end.st \in {"EXT_MSG", "BAD"}
    BY <1>4, <2>2 DEF CoreProtoMapAck, Effect, EndRecord
  <2>4. Paid(f)
    BY <2>2, <2>3 DEF Progress
  <2> HIDE DEF f, Paid
  <2> QED  BY <1>6, <1>8, <2>1, <2>4 DEF s
<1> QED  BY <1>1, <1>3, <1>4, <1>9, <1>10, <1>11, <1>12, <1>13, <1>14 DEF Ignore, s

-----------------------------------------------------------------------------
(* What is so of a call that is alone. *)

Opened(t) == {Tries[t][i] : i \in DOMAIN Tries[t]}

OwnEnds(t) == Opened(t) \cup {Peer[e] : e \in Opened(t)}

\* Its connections are in order and none is cut, and this core has no others.
Wires(t) ==
  /\ OrderInv /\ AllAttached /\ Unrefused
  /\ \A e \in OwnEnds(t) : phase[e] \in {"idle", "up"}
  /\ \A e \in Local \ Opened(t) : phase[e] = "idle"

\* The tokens a call has taken of those its connection posted.
Taken == [connect |-> 0, wait1 |-> 0, wait2 |-> 1, map_to |-> 2, wait3 |-> 2]

\* The pipe holds the tokens its connection posted and it has not taken.
Reckoned(t) ==
  /\ tokens \in Nat
  /\ pc[t] \in DOMAIN Taken => tokens = Progress(end[Conn(t)].st) - Taken[pc[t]]
  /\ pc[t] = "wait3" => end[Conn(t)].st \in {"MAP_ACK", "EXT_MSG", "BAD"}
  /\ pc[t] = "return" => end[Conn(t)].st \in {"EXT_MSG", "BAD"}
  /\ result[t] = Ok => end[Conn(t)].st = "EXT_MSG"

\* The connections it has left post nothing more.
LeftSilent(t) ==
  \A i \in DOMAIN Tries[t] :
    i < attempt[t] => phase[Tries[t][i]] = "idle" \/ end[Tries[t][i]].st = "BAD"

AloneInv(t) == Wires(t) /\ eof = {} /\ LeftSilent(t) /\ Reckoned(t)

\* What Alone says of its ends.
LEMMA OwnEndsAre ==
  ASSUME NEW t \in Threads, Alone(t), NEW e \in OwnEnds(t)
  PROVE  /\ e \in Ends /\ Peer[e] \in OwnEnds(t) /\ InOrder(e)
         /\ Faults[e] = {} /\ e \notin Guarded /\ Peer[e] \notin Guarded
<1>1. PICK i \in DOMAIN Tries[t] : e \in {Tries[t][i], Peer[Tries[t][i]]}
  BY DEF OwnEnds, Opened
<1> DEFINE c == Tries[t][i]
<1>2. c \in Ends /\ Peer[c] \in Ends /\ Peer[Peer[c]] = c
  BY TriesAre, PeerAssumption
<1>3. /\ SameVersion(c)
      /\ \A d \in {c, Peer[c]} : Faults[d] = {} /\ d \notin Guarded
  BY DEF Alone
<1>4. c \in OwnEnds(t) /\ Peer[c] \in OwnEnds(t)
  BY DEF OwnEnds, Opened
<1> HIDE DEF c
<1> QED  BY <1>1, <1>2, <1>3, <1>4 DEF c, InOrder, Ordered, SameVersion

LEMMA ConnIs ==
  ASSUME MapTypes, NEW t \in Threads
  PROVE  /\ Conn(t) \in Opened(t) /\ Conn(t) \in OwnEnds(t) /\ Peer[Conn(t)] \in OwnEnds(t)
         /\ Conn(t) \in Clients /\ Conn(t) \in Local /\ Conn(t) \in Ends
<1>1. attempt[t] \in DOMAIN Tries[t] /\ Conn(t) = Tries[t][attempt[t]]
  BY DEF MapTypes, Conn
<1> QED  BY <1>1, TriesAre DEF Opened, OwnEnds

\* No call has gone back to where it began.
LEMMA AloneBefore ==
  ASSUME MapTypes, NEW t \in Threads, Alone(t)', version' = version,
         \/ \E u \in Threads : CallMap(u)
         \/ pc' = pc /\ attempt' = attempt
  PROVE  Alone(t) /\ ((\E u \in Threads : CallMap(u)) => CallMap(t))
<1>1. ASSUME NEW u \in Threads, CallMap(u), pc'[u] = "init"
      PROVE  attempt'[u] # 1
  <2>1. attempt[u] \in Nat /\ attempt[u] >= 1
    <3>1. attempt[u] \in DOMAIN Tries[u]
      BY DEF MapTypes
    <3> QED  BY <3>1, TriesAre
  <2>2. \E code : Return(u, code)
    BY <1>1 DEF CallMap, SyncInit, FcConnect, WaitHello, WaitAccess, SendMapTo, MapOvertakes,
                WaitMapped, ReturnFlag, Goto, MapTypes
  <2>3. attempt' = [attempt EXCEPT ![u] = @ + 1]
    BY <1>1, <2>2 DEF Return, MapTypes
  <2> QED  BY <2>1, <2>3 DEF MapTypes
<1>2. ASSUME NEW u \in Threads, CallMap(u)
      PROVE  \A v \in Threads \ {u} : pc'[v] = pc[v] /\ attempt'[v] = attempt[v]
  <2>1. /\ pc' = [pc EXCEPT ![u] = pc'[u]]
        /\ attempt' = [attempt EXCEPT ![u] = attempt'[u]]
    BY <1>2 DEF CallMap, SyncInit, FcConnect, WaitHello, WaitAccess, SendMapTo, MapOvertakes,
                WaitMapped, ReturnFlag, Return, Goto, MapTypes
  <2> QED  BY <2>1 DEF MapTypes
<1>3. ASSUME NEW u \in Threads, CallMap(u)
      PROVE  u = t
  BY <1>1, <1>3 DEF Alone
<1>4. \A u \in Threads \ {t} : pc[u] = "init" /\ attempt[u] = 1
  BY <1>2, <1>3 DEF Alone
<1> QED  BY <1>3, <1>4 DEF Alone, SameVersion

\* A step of the handshake that cuts none of its connections and opens no other.
LEMMA WiresKept ==
  ASSUME MapInv, NEW t \in Threads, Wires(t), [Next]_vars,
         \A e \in OwnEnds(t) : phase'[e] \in {"idle", "up"},
         \A e \in Local \ Opened(t) : phase'[e] = phase[e]
  PROVE  Wires(t)'
<1>1. OrderInv' /\ AllAttached' /\ Unrefused'
  BY OrderStep, AttachedStep, UnrefusedStep DEF MapInv, Wires
<1> QED  BY <1>1 DEF Wires, Opened, OwnEnds

\* What a step of another thread does to the connections of a call.
LEMMA ElsewhereAlone ==
  ASSUME ~ Impatient, MapInv, NEW t \in Threads, Alone(t), Wires(t), LeftSilent(t),
         NEW e \in Ends, Elsewhere(e)
  PROVE  /\ Wires(t)'
         /\ e \in Local /\ e # Conn(t) => posted'[e] = posted[e]
         /\ e = Conn(t) =>
              posted'[e] = posted[e] + (Progress(end'[e].st) - Progress(end[e].st))
<1>1. MapTypes /\ CallInv(t) /\ TypeOK /\ IInv /\ LateInv
  BY DEF MapInv
<1>2. PICK r : r \in Places
  BY DEF Wires, OrderInv
<1>3. Unrefused /\ Conn(t) \in OwnEnds(t) /\ Conn(t) \in Clients /\ Conn(t) \in Local
  BY <1>1, ConnIs DEF Wires
<1>4. Local \subseteq Clients /\ \A d \in OwnEnds(t) : d \in Ends
  BY OwnEndsAre DEF Alone
<1>5. EndStep(e) /\ [Next]_vars
  BY <1>1, ElsewhereSpares DEF Elsewhere, Next
<1>6. \A d \in Ends \ {e} : phase'[d] = phase[d] /\ end'[d] = end[d]
  BY <1>1, <1>5 DEF EndStep, LateWrite, TypeOK
<1>7. ASSUME e \in OwnEnds(t), Receive(e)
      PROVE  /\ phase' = phase /\ end[e].st \notin {"EXT_MSG", "BAD"}
             /\ e \in Clients =>
                  posted'[e] = posted[e] + (Progress(end'[e].st) - Progress(end[e].st))
  <2>1. InOrder(e) /\ Peer[e] \notin Guarded
    BY <1>7, OwnEndsAre
  <2> QED  BY <1>1, <1>2, <1>3, <1>7, <2>1, ReceivePosts
<1>8. Receive(e) => phase[e] = "up"
  BY DEF Receive, RecvHello, RecvHelloAck, RecvAuth, RecvAuthAck, RecvMap, RecvMapAck,
         Ignore, Receives, Listens
<1>9. e \in OwnEnds(t) => phase'[e] \in {"idle", "up"}
  <2> SUFFICES ASSUME e \in OwnEnds(t)
               PROVE  phase'[e] \in {"idle", "up"}
    OBVIOUS
  <2>1. phase[e] \in {"idle", "up"} /\ phase[Peer[e]] \in {"idle", "up"} /\ Faults[e] = {}
    BY OwnEndsAre DEF Wires
  <2>2. CASE Connect(e)
    BY <1>1, <2>2 DEF Connect, TypeOK
  <2>3. CASE MapTo(e) \/ Overtake(e) \/ LateWrite(e)
    BY <2>1, <2>3 DEF MapTo, SendMap, Overtake, RecvAuthOvertaken, LateWrite
  <2>4. CASE Receive(e)
    BY <1>7, <2>1, <2>4
  <2>5. CASE Disconnect(e) \/ Break(e) \/ Lose(e) \/ Duplicate(e)
    BY <2>1, <2>5 DEF Disconnect, Break, Listens, Lose, Duplicate
  <2> QED  BY <2>2, <2>3, <2>4, <2>5 DEF Elsewhere
\* An end of this core connects only in core_map.
<1>10. ASSUME e \in Local, ~ Receive(e)
       PROVE  /\ phase[e] = "idle" => phase'[e] = "idle"
              /\ posted' = posted /\ end' = end
  <2>1. ~ LateWrite(e)
    BY DEF Wires, AllAttached, Attached, LateWrite
  <2>2. Disconnect(e) \/ Break(e) \/ Lose(e) \/ Duplicate(e)
    BY <1>4, <1>10, <2>1 DEF Elsewhere
  <2> QED  BY <2>2 DEF Disconnect, Break, Listens, Freed, Lose, Duplicate
<1>11. ASSUME e \in Local \ Opened(t)
       PROVE  phase'[e] = phase[e] /\ posted' = posted
  <2>1. phase[e] = "idle"
    BY <1>11 DEF Wires
  <2> QED  BY <1>8, <1>10, <1>11, <2>1
<1>12. Wires(t)'
  <2>1. \A d \in OwnEnds(t) : phase'[d] \in {"idle", "up"}
    BY <1>4, <1>6, <1>9 DEF Wires
  <2>2. \A d \in Local \ Opened(t) : phase'[d] = phase[d]
    BY <1>6, <1>11, LocalAssumption
  <2> QED  BY <1>5, <2>1, <2>2, WiresKept
<1>13. ASSUME e \in Local, e # Conn(t)
       PROVE  posted'[e] = posted[e]
  <2>1. CASE e \notin Opened(t)
    BY <1>11, <1>13, <2>1
  <2>2. CASE e \in Opened(t) /\ ~ Receive(e)
    BY <1>10, <1>13, <2>2
  <2>3. CASE e \in Opened(t) /\ Receive(e)
    <3>1. PICK i \in DOMAIN Tries[t] : e = Tries[t][i]
      BY <2>3 DEF Opened
    <3>2. i # attempt[t] /\ i \in Nat /\ attempt[t] \in Nat
      BY <1>1, <1>13, <3>1, TriesAre DEF Conn, MapTypes
    <3>3. i < attempt[t] \/ i > attempt[t]
      BY <3>2
    <3>4. phase[e] = "idle" \/ end[e].st = "BAD"
      BY <1>1, <3>1, <3>3 DEF CallInv, LeftSilent
    <3> QED  BY <1>7, <1>8, <2>3, <3>4 DEF OwnEnds
  <2> QED  BY <2>1, <2>2, <2>3
<1>14. ASSUME e = Conn(t)
       PROVE  posted'[e] = posted[e] + (Progress(end'[e].st) - Progress(end[e].st))
  <2>1. CASE Receive(e)
    BY <1>3, <1>7, <1>14, <2>1
  <2>2. CASE ~ Receive(e)
    <3>1. posted' = posted /\ end' = end
      BY <1>3, <1>10, <1>14, <2>2
    <3>2. posted[e] \in Nat /\ Progress(end[e].st) \in Int
      BY <1>1 DEF TypeOK, Progress
    <3> QED  BY <3>1, <3>2
  <2> QED  BY <2>1, <2>2
<1> QED  BY <1>12, <1>13, <1>14

\* How far an end has come is not undone.
LEMMA StaysLate ==
  ASSUME ~ Impatient, MapInv, AllAttached, NEW e \in Ends, [Next]_vars
  PROVE  /\ end[e].st \in {"MAP_ACK", "EXT_MSG", "BAD"} =>
              end'[e].st \in {"MAP_ACK", "EXT_MSG", "BAD"}
         /\ end[e].st \in {"EXT_MSG", "BAD"} => end'[e].st = end[e].st
         /\ Progress(end[e].st) <= Progress(end'[e].st)
<1>1. Onward /\ TypeOK'
  BY OnwardStep, TypeStep DEF MapInv
<1>2. end'[e].st \in ConnStates /\ end[e].st \in ConnStates
  BY <1>1 DEF MapInv, TypeOK, EndRecord
<1>3. Further(end[e], end'[e]) /\ end[e].late = "none" /\ "none" \notin ConnStates
  BY <1>1 DEF Onward, AllAttached, Attached, ConnStates
<1>4. /\ Rank(end[e].st) <= Rank(end'[e].st)
      /\ Rank(end[e].st) = 6 => end'[e].st = end[e].st
  BY <1>2, <1>3 DEF Further
<1>5. \A x, y \in ConnStates :
        Rank(x) <= Rank(y) =>
          /\ x \in {"MAP_ACK", "EXT_MSG", "BAD"} => y \in {"MAP_ACK", "EXT_MSG", "BAD"}
          /\ Progress(x) <= Progress(y)
  BY DEF Rank, Progress, ConnStates
<1>6. end[e].st \in {"EXT_MSG", "BAD"} => Rank(end[e].st) = 6
  BY DEF Rank
<1> QED  BY <1>2, <1>4, <1>5, <1>6

LEMMA ProgressType == \A st : Progress(st) \in 0..3
BY DEF Progress

\* The rest of the system keeps what is so of a call that is alone, and so does
\* the call.
LEMMA OthersAlone ==
  ASSUME ~ Impatient, MapInv, NEW t \in Threads, Alone(t), AloneInv(t),
         NEW e \in Ends, Others(e)
  PROVE  AloneInv(t)'
<1> DEFINE c == Conn(t)
<1>1. MapTypes /\ CallInv(t) /\ TypeOK /\ IInv /\ LateInv
  BY DEF MapInv
<1>2. /\ Elsewhere(e) /\ pc' = pc /\ attempt' = attempt /\ eof' = eof /\ result' = result
      /\ tokens' = tokens + (IF e \in Local THEN posted'[e] - posted[e] ELSE 0)
  BY DEF Others, Posting
<1>3. [Next]_vars
  BY <1>2 DEF Elsewhere, Next
<1>4. /\ Wires(t)'
      /\ e \in Local /\ e # c => posted'[e] = posted[e]
      /\ e = c => posted'[e] = posted[e] + (Progress(end'[e].st) - Progress(end[e].st))
  BY <1>2, ElsewhereAlone DEF AloneInv
<1>5. c \in Ends /\ c \in Local
  BY <1>1, ConnIs
<1>6. /\ EndStep(e) /\ TypeOK' /\ \A d \in Clients \cap Local : Spared(d)
  BY <1>1, <1>2, ElsewhereSpares
<1>7. PICK old \in Nat, new \in Nat : old = Progress(end[c].st) /\ new = Progress(end'[c].st)
  BY ProgressType
<1>8. /\ end[c].st \in {"MAP_ACK", "EXT_MSG", "BAD"} =>
           end'[c].st \in {"MAP_ACK", "EXT_MSG", "BAD"}
      /\ end[c].st \in {"EXT_MSG", "BAD"} => end'[c].st = end[c].st
      /\ old <= new
  BY <1>3, <1>5, <1>7, StaysLate DEF AloneInv, Wires
<1>9. tokens' = tokens + (new - old) /\ tokens \in Nat /\ tokens' \in Nat
  <2>1. posted[e] \in Nat /\ tokens \in Nat
    BY <1>1 DEF TypeOK, AloneInv, Reckoned
  <2>2. CASE e = c
    <3>1. posted'[e] = posted[e] + (new - old)
      BY <1>4, <1>7, <2>2
    <3>2. tokens' = tokens + (posted'[e] - posted[e])
      BY <1>2, <1>5, <2>2
    <3> QED  BY <1>8, <2>1, <3>1, <3>2
  <2>3. CASE e # c
    <3>1. new = old
      BY <1>1, <1>5, <1>6, <1>7, <2>3 DEF EndStep, LateWrite, TypeOK
    <3>2. tokens' = tokens
      BY <1>2, <1>4, <2>1, <2>3
    <3> QED  BY <2>1, <3>1, <3>2
  <2> QED  BY <2>2, <2>3
<1>10. c' = c
  BY <1>2 DEF Conn
<1>11. Reckoned(t)'
  <2> HIDE DEF c
  <2>1. Reckoned(t) /\ Conn(t) = c /\ Conn(t)' = c
    BY <1>10 DEF c, AloneInv
  <2>2. pc[t] \in DOMAIN Taken => tokens' = new - Taken[pc[t]]
    <3>1. \A k \in DOMAIN Taken : Taken[k] \in Nat
      BY DEF Taken
    <3> QED  BY <1>7, <1>9, <2>1, <3>1 DEF Reckoned
  <2> QED  BY <1>2, <1>7, <1>8, <1>9, <2>1, <2>2 DEF Reckoned
<1>12. LeftSilent(t)'
  BY <1>2, <1>3, <1>6, StaysLate, TriesAre DEF AloneInv, Wires, LeftSilent, Spared
<1> QED  BY <1>2, <1>4, <1>11, <1>12 DEF AloneInv

-----------------------------------------------------------------------------
(* What the call itself does. *)

\* The wait of a call whose connection is open ends with a token of it.
LEMMA WaitGetsToken ==
  ASSUME ~ Impatient, MapInv, NEW t \in Threads, Alone(t), AloneInv(t), SyncWait(t),
         pc[t] \in Waits, phase[Conn(t)] # "idle"
  PROVE  tokens > 0 /\ tokens' = tokens - 1 /\ eof' = {}
<1> DEFINE c == Conn(t)
           p == Peer[c]
<1>1. MapTypes /\ TypeOK /\ IInv /\ Wires(t) /\ Reckoned(t) /\ eof = {}
  BY DEF MapInv, AloneInv
<1>2. /\ c \in OwnEnds(t) /\ p \in OwnEnds(t) /\ c \in Clients /\ c \in Ends
      /\ p \in Ends /\ p \notin Clients /\ Peer[p] = c
  BY <1>1, ConnIs, PeerAssumption, ClientsAssumption
<1>3. phase[c] = "up" /\ phase[p] \in {"idle", "up"}
  BY <1>1, <1>2 DEF Wires
<1>4. ASSUME tokens = 0, Quiet
      PROVE  FALSE
  <2>1. net[c] = <<>> /\ net[p] = <<>> /\ phase[p] = "up"
    BY <1>2, <1>3, <1>4 DEF Quiet
  <2>2. InOrder(c)
    BY <1>2, OwnEndsAre
  <2>3. end[c].st \in {"MAP", "EXT_MSG", "BAD"}
    <3>1. PICK r : r \in Places
      BY <1>1 DEF Wires, OrderInv
    <3> QED  BY <1>1, <1>2, <1>3, <2>1, <2>2, <3>1, QuietIsSettled
  <2>4. Progress(end[c].st) = IF end[c].st = "MAP" THEN 2 ELSE 3
    BY <2>3 DEF Progress
  <2>5. tokens = Progress(end[c].st) - Taken[pc[t]]
    BY <1>1 DEF Reckoned, Waits, Taken
  <2>6. Taken[pc[t]] = IF pc[t] = "wait1" THEN 0 ELSE IF pc[t] = "wait2" THEN 1 ELSE 2
    BY DEF Waits, Taken
  <2>7. pc[t] = "wait3" => end[c].st # "MAP"
    BY <1>1 DEF Reckoned
  <2> HIDE DEF c
  <2> QED  BY <1>4, <2>4, <2>5, <2>6, <2>7 DEF Waits
<1> QED  BY <1>1, <1>4 DEF SyncWait, Reckoned

\* A step of the call that leaves the connections as they are.
LEMMA StillAlone ==
  ASSUME MapInv, NEW t \in Threads, AloneInv(t), UNCHANGED vars, eof' = {},
         attempt' = attempt, Reckoned(t)'
  PROVE  AloneInv(t)'
<1>1. phase' = phase /\ end' = end /\ [Next]_vars
  BY DEF vars
<1>2. Wires(t)'
  BY <1>1, WiresKept DEF AloneInv, Wires
<1> QED  BY <1>1, <1>2 DEF AloneInv, LeftSilent

\* core_map returns the error it has, or 0 on a mapped connection.
LEMMA ReturnAlone ==
  ASSUME MapInv, NEW t \in Threads, AloneInv(t), UNCHANGED vars, eof' = {}, tokens' \in Nat,
         pc[t] # "done", NEW code \in Codes, Return(t, code),
         IF code = Ok THEN end[Conn(t)].st = "EXT_MSG"
         ELSE phase[Conn(t)] = "idle" \/ end[Conn(t)].st = "BAD"
  PROVE  AloneInv(t)'
<1>1. MapTypes /\ CallInv(t) /\ Wires(t) /\ LeftSilent(t)
  BY DEF MapInv, AloneInv
<1>2. phase' = phase /\ end' = end /\ [Next]_vars
  BY DEF vars
<1>3. Wires(t)'
  BY <1>1, <1>2, WiresKept DEF Wires
<1>4. CASE code = Ok \/ attempt[t] = Len(Tries[t])
  <2>1. pc'[t] = "done" /\ result'[t] = code /\ attempt' = attempt
    BY <1>1, <1>4 DEF Return, MapTypes
  <2>2. Reckoned(t)'
    BY <1>2, <2>1 DEF Reckoned, Taken, Conn
  <2> QED  BY <1>1, <1>2, <1>3, <2>1, <2>2 DEF AloneInv, LeftSilent
<1>5. CASE ~ (code = Ok \/ attempt[t] = Len(Tries[t]))
  <2>1. /\ pc'[t] = "init" /\ result'[t] = NoResult /\ attempt'[t] = attempt[t] + 1
        /\ attempt[t] \in Nat
    BY <1>1, <1>5 DEF Return, MapTypes, CallInv
  <2>2. Reckoned(t)'
    BY <2>1, TriesAssumption, CodesAre DEF Reckoned, Taken
  <2>3. LeftSilent(t)'
    <3> SUFFICES ASSUME NEW i \in DOMAIN Tries[t], i < attempt'[t]
                 PROVE  phase'[Tries[t][i]] = "idle" \/ end'[Tries[t][i]].st = "BAD"
      BY DEF LeftSilent
    <3>1. i < attempt[t] \/ i = attempt[t]
      BY <2>1, TriesAre
    <3> QED  BY <1>1, <1>2, <1>5, <3>1 DEF LeftSilent, Conn
  <2> QED  BY <1>3, <2>2, <2>3 DEF AloneInv
<1> QED  BY <1>4, <1>5

LEMMA CallAlone ==
  ASSUME ~ Impatient, MapInv, NEW t \in Threads, Alone(t), AloneInv(t), CallMap(t)
  PROVE  AloneInv(t)'
<1> DEFINE c == Conn(t)
<1>1. /\ MapTypes /\ CallInv(t) /\ TypeOK /\ IInv /\ LateInv
      /\ Wires(t) /\ Reckoned(t) /\ eof = {}
  BY DEF MapInv, AloneInv
<1>2. /\ c \in Opened(t) /\ c \in OwnEnds(t) /\ c \in Clients /\ c \in Local /\ c \in Ends
      /\ end[c].st \in ConnStates /\ end[c].flag \in Codes /\ EndInv(c) /\ Late(c)
  BY <1>1, ConnIs DEF TypeOK, EndRecord, IInv, LateInv
<1>3. phase[c] \in {"idle", "up"}
  BY <1>1, <1>2 DEF Wires
<1>4. tokens \in Nat
  BY <1>1 DEF Reckoned
\* A step of its connection that is not cut.
<1>5. ASSUME Next, phase' = phase \/ phase' = [phase EXCEPT ![c] = "up"],
             attempt' = attempt, eof' = eof, Reckoned(t)'
      PROVE  AloneInv(t)'
  <2>1. \A d \in OwnEnds(t) : phase'[d] \in {"idle", "up"}
    BY <1>1, <1>5, OwnEndsAre DEF Wires, TypeOK
  <2>2. \A d \in Ends : d # c => phase'[d] = phase[d]
    BY <1>1, <1>5 DEF TypeOK
  <2>3. Wires(t)'
    <3>1. \A d \in Local \ Opened(t) : phase'[d] = phase[d]
      BY <1>2, <2>2, LocalAssumption
    <3> QED  BY <1>1, <1>5, <2>1, <3>1, WiresKept
  <2>4. LeftSilent(t)'
    <3> SUFFICES ASSUME NEW i \in DOMAIN Tries[t], i < attempt[t]
                 PROVE  phase'[Tries[t][i]] = "idle" \/ end'[Tries[t][i]].st = "BAD"
      BY <1>5 DEF LeftSilent
    <3>1. Tries[t][i] \in Ends /\ Tries[t][i] # c
      <4>1. attempt[t] \in DOMAIN Tries[t] /\ c = Tries[t][attempt[t]] /\ i # attempt[t]
        BY <1>1, TriesAre DEF MapTypes, Conn
      <4> QED  BY <4>1, OwnConnections, TriesAre
    <3>2. phase'[Tries[t][i]] = phase[Tries[t][i]]
      BY <2>2, <3>1
    <3>3. end[Tries[t][i]].st = "BAD" => end'[Tries[t][i]].st = "BAD"
      BY <1>1, <1>5, <3>1, StaysLate DEF Wires
    <3> QED  BY <3>2, <3>3 DEF AloneInv, LeftSilent
  <2> QED  BY <1>1, <1>5, <2>3, <2>4 DEF AloneInv
<1>6. ASSUME NEW from, NEW to, Goto(t, from, to)
      PROVE  pc[t] = from /\ pc'[t] = to
  BY <1>1, <1>6 DEF Goto, MapTypes
<1>7. CASE SyncInit(t)
  <2>1. pc[t] = "init" /\ pc'[t] = "connect" /\ UNCHANGED <<vars, attempt, result>> /\ tokens' = 0
    BY <1>6, <1>7 DEF SyncInit
  <2>2. eof' = {}
    <3>1. {u \in Threads : pc[u] \in Waits} = {}
      BY <2>1 DEF Alone, Waits
    <3> QED  BY <1>1, <1>7, <3>1 DEF SyncInit
  <2>3. end[c].st = "HELLO_S" /\ result[t] = NoResult /\ c' = c /\ end' = end
    BY <1>1, <1>2, <2>1 DEF CallInv, EndInv, NewEnd, Conn, vars
  <2>4. Reckoned(t)'
    BY <2>1, <2>3, TriesAssumption, CodesAre DEF Reckoned, Progress, Taken
  <2> QED  BY <2>1, <2>2, <2>4, StillAlone
<1>8. CASE FcConnect(t)
  <2>1. /\ pc[t] = "connect" /\ pc'[t] = "wait1"
        /\ UNCHANGED <<attempt, eof, tokens, result>>
    BY <1>6, <1>8 DEF FcConnect
  <2>2. phase[c] = "idle" /\ end[c] = NewEnd /\ result[t] = NoResult
    BY <1>1, <1>2, <2>1 DEF CallInv, EndInv
  <2>3. end' = end
    BY <1>1, <1>8, <2>2 DEF FcConnect, Connect, vars, TypeOK
  <2>4. Reckoned(t)'
    BY <1>1, <2>1, <2>2, <2>3, TriesAssumption, CodesAre DEF Reckoned, Taken, Conn
  <2>5. CASE UNCHANGED vars
    BY <1>1, <2>1, <2>4, <2>5, StillAlone
  <2>6. CASE Connect(c)
    <3>1. Next /\ phase' = [phase EXCEPT ![c] = "up"]
      BY <1>2, <2>6 DEF Next, Connect
    <3> QED  BY <1>5, <2>1, <2>4, <3>1
  <2> QED  BY <1>8, <2>5, <2>6 DEF FcConnect
<1>9. CASE WaitHello(t)
  <2>1. pc[t] = "wait1" /\ SyncWait(t) /\ UNCHANGED vars /\ end' = end
    BY <1>9 DEF WaitHello, vars
  <2>2. CASE phase[c] = "idle"
    <3>1. Return(t, EP_ERROR) /\ EP_ERROR \in Codes /\ EP_ERROR # Ok
      BY <1>9, <2>2 DEF WaitHello, EP_ERROR, Codes, WrongVersion, Ok
    <3>2. eof' = {} /\ tokens' \in Nat
      BY <1>1, <1>4, <2>1 DEF SyncWait
    <3> QED  BY <2>1, <2>2, <3>1, <3>2, ReturnAlone
  <2>3. CASE phase[c] # "idle"
    <3>1. pc'[t] = "wait2" /\ attempt' = attempt /\ result' = result
      BY <1>6, <1>9, <2>3 DEF WaitHello
    <3>2. tokens > 0 /\ tokens' = tokens - 1 /\ eof' = {}
      BY <2>1, <2>3, WaitGetsToken DEF Waits
    <3>3. tokens = Progress(end[c].st) - 0 /\ result[t] = NoResult
      BY <1>1, <2>1 DEF Reckoned, Taken, CallInv
    <3>4. Reckoned(t)'
      BY <1>4, <2>1, <3>1, <3>2, <3>3, ProgressType, TriesAssumption, CodesAre
      DEF Reckoned, Taken, Conn
    <3> QED  BY <2>1, <3>1, <3>2, <3>4, StillAlone
  <2> QED  BY <2>2, <2>3
<1>10. CASE WaitAccess(t)
  <2>1. /\ pc[t] = "wait2" /\ pc'[t] = "map_to" /\ SyncWait(t)
        /\ UNCHANGED <<vars, attempt, result>> /\ end' = end
    BY <1>6, <1>10 DEF WaitAccess, vars
  <2>2. tokens > 0 /\ tokens' = tokens - 1 /\ eof' = {}
    BY <1>1, <2>1, WaitGetsToken DEF Waits, CallInv
  <2>3. tokens = Progress(end[c].st) - 1 /\ result[t] = NoResult
    BY <1>1, <2>1 DEF Reckoned, Taken, CallInv
  <2>4. PICK k \in Nat : k = Progress(end[c].st)
    BY ProgressType
  <2>5. tokens' = k - 2 /\ tokens' \in Nat
    BY <1>4, <2>2, <2>3, <2>4
  <2>6. Reckoned(t)'
    BY <2>1, <2>3, <2>4, <2>5, TriesAssumption, CodesAre DEF Reckoned, Taken, Conn
  <2> QED  BY <2>1, <2>2, <2>6, StillAlone
\* At map_to its connection is ready.
<1>11. ASSUME pc[t] = "map_to"
       PROVE  /\ phase[c] = "up" /\ ~ end[c].lep /\ result[t] = NoResult
              /\ tokens = Progress(end[c].st) - 2 /\ end[c].st = "MAP"
  <2>1. /\ phase[c] = "up" /\ ~ end[c].lep /\ result[t] = NoResult
        /\ tokens = Progress(end[c].st) - 2
    BY <1>1, <1>3, <1>11 DEF CallInv, Reckoned, Taken
  <2>2. end[c].st \notin {"MAP_ACK", "EXT_MSG", "BAD"}
    BY <1>2, <2>1 DEF EndInv
  <2>3. Progress(end[c].st) >= 2
    BY <1>4, <2>1, ProgressType
  <2>4. end[c].st = "MAP"
    BY <1>2, <2>2, <2>3 DEF Progress, ConnStates
  <2> QED  BY <2>1, <2>4
<1>12. CASE SendMapTo(t)
  <2>1. /\ pc[t] = "map_to" /\ pc'[t] = "wait3" /\ UNCHANGED <<attempt, eof, tokens, result>>
    BY <1>6, <1>12 DEF SendMapTo
  <2>2. SendMap(c) /\ Next
    BY <1>2, <1>11, <1>12, <2>1 DEF SendMapTo, MapTo, Next
  <2>3. phase' = phase /\ end'[c].st = "MAP_ACK"
    BY <1>1, <1>2, <2>2 DEF SendMap, CoreProtoMapTo, Effect, TypeOK, EndRecord
  <2>4. Progress("MAP_ACK") = 2 /\ Progress(end[c].st) = 2
    BY <1>11, <2>1 DEF Progress
  <2>5. Reckoned(t)'
    BY <1>4, <1>11, <2>1, <2>3, <2>4, TriesAssumption, CodesAre DEF Reckoned, Taken, Conn
  <2> QED  BY <1>5, <2>1, <2>2, <2>3, <2>5
\* No handler has anything to do there, and it asks for no credentials.
<1>15. CASE MapOvertakes(t)
  <2>1. c \notin Guarded
    BY <1>2, OwnEndsAre
  <2>2. PICK i \in DOMAIN net[c], accept \in Verdicts(c) :
          pc[t] = "map_to" /\ RecvOvertaken(c, i, accept)
    BY <1>15, <2>1 DEF MapOvertakes, RecvAuthOvertaken, Goto
  <2>3. /\ net[c][i].type \in {"HELLO", "HELLO_ACK", "AUTH", "AUTH_ACK"}
        /\ end[c].st \in HandledIn[net[c][i].type]
    BY <2>2 DEF RecvOvertaken, Receives, Handles
  <2> QED  BY <1>11, <2>2, <2>3 DEF HandledIn
<1>13. CASE WaitMapped(t)
  <2>1. /\ pc[t] = "wait3" /\ pc'[t] = "return" /\ SyncWait(t)
        /\ UNCHANGED <<vars, attempt, result>> /\ end' = end
    BY <1>6, <1>13 DEF WaitMapped, vars
  <2>2. tokens > 0 /\ tokens' = tokens - 1 /\ eof' = {}
    BY <1>1, <2>1, WaitGetsToken DEF Waits, CallInv
  <2>3. tokens = Progress(end[c].st) - 2 /\ result[t] = NoResult
    BY <1>1, <2>1 DEF Reckoned, Taken, CallInv
  <2>4. end[c].st \in {"EXT_MSG", "BAD"}
    <3>1. Progress(end[c].st) > 2
      BY <1>4, <2>2, <2>3, ProgressType
    <3> QED  BY <1>2, <3>1 DEF Progress, ConnStates
  <2>5. Reckoned(t)'
    BY <1>4, <2>1, <2>2, <2>3, <2>4, TriesAssumption, CodesAre DEF Reckoned, Taken, Conn
  <2> QED  BY <2>1, <2>2, <2>5, StillAlone
<1>14. CASE ReturnFlag(t)
  <2>1. pc[t] = "return" /\ UNCHANGED <<vars, eof, tokens>> /\ Return(t, end[c].flag)
    BY <1>3, <1>14 DEF ReturnFlag
  <2>2. end[c].st \in {"EXT_MSG", "BAD"} /\ (end[c].flag # Ok <=> end[c].st = "BAD")
    BY <1>1, <1>2, <2>1 DEF Reckoned, Late, FlagIsFailure
  <2> QED  BY <1>1, <1>2, <1>4, <2>1, <2>2, ReturnAlone
<1> QED  BY <1>7, <1>8, <1>9, <1>10, <1>12, <1>13, <1>14, <1>15 DEF CallMap

-----------------------------------------------------------------------------
(* The invariant. *)

MapAloneInv == MapInv /\ \A t \in Threads : Alone(t) => AloneInv(t)

LEMMA MapAloneInit == MapInit => MapAloneInv
<1> SUFFICES ASSUME MapInit, NEW t \in Threads, Alone(t)
             PROVE  AloneInv(t)
  BY MapInvInit DEF MapAloneInv
<1>1. OrderInv /\ AllAttached /\ MapInv
  BY OrderInit, MapInvInit DEF MapInit, Init, AllAttached, Attached, NewEnd
<1>2. \A e \in Ends : phase[e] = "idle" /\ net[e] = <<>>
  BY DEF MapInit, Init
<1>3. Unrefused
  BY <1>2 DEF Unrefused
<1>4. Wires(t)
  BY <1>1, <1>2, <1>3, OwnEndsAre, LocalAssumption DEF Wires
<1>5. /\ pc[t] = "init" /\ attempt[t] = 1 /\ eof = {} /\ tokens = 0 /\ result[t] = NoResult
  BY DEF MapInit
<1>6. Reckoned(t)
  BY <1>5, TriesAssumption, CodesAre DEF Reckoned, Taken
<1>7. LeftSilent(t)
  BY <1>5, TriesAre DEF LeftSilent
<1> QED  BY <1>4, <1>5, <1>6, <1>7 DEF AloneInv

LEMMA MapAloneStep ==
  ASSUME ~ Impatient, MapAloneInv, [MapNext]_allVars
  PROVE  MapAloneInv'
<1>1. MapInv /\ MapInv' /\ MapTypes
  BY MapInvStep DEF MapAloneInv, MapInv
<1> SUFFICES ASSUME NEW t \in Threads, Alone(t)'
             PROVE  AloneInv(t)'
  BY <1>1 DEF MapAloneInv
<1>2. CASE UNCHANGED allVars
  <2>1. /\ UNCHANGED vars /\ pc' = pc /\ attempt' = attempt /\ eof' = eof
        /\ tokens' = tokens /\ result' = result
    BY <1>2 DEF allVars, mapVars
  <2>2. version' = version /\ end' = end
    BY <2>1 DEF vars
  <2>3. Alone(t)
    BY <1>1, <2>1, <2>2, AloneBefore
  <2>4. AloneInv(t)
    BY <2>3 DEF MapAloneInv
  <2>5. Reckoned(t)' /\ eof' = {}
    BY <2>1, <2>2, <2>4 DEF AloneInv, Reckoned, Conn
  <2> QED  BY <1>1, <2>1, <2>4, <2>5, StillAlone
<1>3. CASE \E u \in Threads : CallMap(u)
  <2>1. version' = version
    <3>1. PICK u \in Threads : CallMap(u)
      BY <1>3
    <3>2. CASE MapOvertakes(u)
      <4>1. PICK i \in DOMAIN net[Conn(u)], accept \in BOOLEAN :
              RecvOvertaken(Conn(u), i, accept)
        BY <1>1, <3>2, AuthOvertaken, ConnIs DEF MapOvertakes, Verdicts, MapInv
      <4>2. \E f : Take(Conn(u), i, f)
        BY <4>1 DEF RecvOvertaken
      <4> QED  BY <4>2 DEF Take
    <3>3. CASE ~ MapOvertakes(u)
      BY <3>1, <3>3 DEF CallMap, SyncInit, FcConnect, WaitHello, WaitAccess, SendMapTo,
                        WaitMapped, ReturnFlag, vars, Connect, SendMap
    <3> QED  BY <3>2, <3>3
  <2>2. Alone(t) /\ CallMap(t)
    BY <1>1, <1>3, <2>1, AloneBefore
  <2> QED  BY <1>1, <2>2, CallAlone DEF MapAloneInv
<1>4. CASE \E e \in Ends : Others(e)
  <2>1. PICK e \in Ends : Others(e)
    BY <1>4
  <2>2. Elsewhere(e) /\ pc' = pc /\ attempt' = attempt
    BY <2>1 DEF Others, Posting
  <2>3. Only(e)
    BY <1>1, <2>2, StepIsLocal DEF Elsewhere, MapInv
  <2>4. Alone(t)
    BY <1>1, <2>2, <2>3, AloneBefore DEF Only
  <2> QED  BY <1>1, <2>1, <2>4, OthersAlone DEF MapAloneInv
<1> QED  BY <1>2, <1>3, <1>4 DEF MapNext

\* One core_map at a time, to cores of its version that ask for no credentials,
\* over connections that keep the order and do not break: every token in the pipe
\* is one of the connection the call is trying, so MAP is sent when the connection
\* is ready for it, and 0 is returned only when it is mapped.  The five seconds of
\* a wait must be longer than the handshake takes.
THEOREM RightWhenAlone ==
  ASSUME ~ Impatient
  PROVE  MapSpec => []MapsRightAlone
<1>1. MapAloneInv => MapsRightAlone
  <2> SUFFICES ASSUME MapAloneInv, NEW t \in Threads, Alone(t)
               PROVE  /\ result[t] = Ok => end[Conn(t)].st = "EXT_MSG"
                      /\ pc[t] = "map_to" => phase[Conn(t)] \in {"up", "closing"}
    BY DEF MapsRightAlone
  <2>1. MapTypes /\ CallInv(t) /\ Wires(t) /\ Reckoned(t)
    BY DEF MapAloneInv, MapInv, AloneInv
  <2>2. phase[Conn(t)] \in {"idle", "up"}
    BY <2>1, ConnIs DEF Wires
  <2> QED  BY <2>1, <2>2 DEF CallInv, Reckoned
<1>2. MapAloneInv /\ [MapNext]_allVars => MapAloneInv'
  BY MapAloneStep
<1> QED  BY <1>1, <1>2, MapAloneInit, PTL DEF MapSpec
=============================================================================
