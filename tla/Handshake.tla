----------------------------- MODULE Handshake -----------------------------
(***************************************************************************)
(* The connection protocol of two cores over a bridge module, as the       *)
(* core_on_connect, core_on_proto_message, core_on_message and             *)
(* core_on_disconnect callbacks of src/core/core_callbacks.c drive it.     *)
(*                                                                         *)
(* A connection is a pair of ends, e and Peer[e]; there may be any number  *)
(* of connections.  Each end has a queue of the messages in flight to it.  *)
(* One receive thread runs the handlers of an end.  The thread inside      *)
(* core_map runs core_proto_map_to between them, or in the middle of one   *)
(* (RecvAuthOvertaken, RecvOvertaken), which may then write the state over *)
(* in a step of its own (LateWrite); any other handler is one step.        *)
(*                                                                         *)
(* Faults gives the transport of each end.  With none its queue is that of *)
(* TCP: in order, nothing lost.  UDP may lose, reorder and duplicate, and  *)
(* any connection may break.                                               *)
(***************************************************************************)
EXTENDS CoreProtocol, FiniteSets

CONSTANTS
  Ends,       \* the ends of all connections
  Peer,       \* the other end of each
  Clients,    \* the ends opened by core_map
  Versions,   \* the protocol versions cores may be built with
  Guarded,    \* the ends whose core has access modules loaded
  Faults,     \* what the transport may do wrong with the messages to an end
  Impatient,  \* whether core_map's waits may end before the handshake does
  MaxNet      \* no duplicate is made with this many messages in flight on a connection

Transport == {"lose", "reorder", "duplicate", "break"}

ASSUME PeerAssumption ==
  /\ Peer \in [Ends -> Ends]
  /\ \A e \in Ends : Peer[e] # e /\ Peer[Peer[e]] = e

ASSUME ClientsAssumption ==
  /\ Clients \subseteq Ends
  /\ \A e \in Ends : e \in Clients <=> Peer[e] \notin Clients

ASSUME ParameterAssumption ==
  /\ Versions \subseteq Int
  /\ Guarded \subseteq Ends
  /\ Faults \in [Ends -> SUBSET Transport]
  /\ Impatient \in BOOLEAN
  /\ MaxNet \in Nat

VARIABLES
  version,  \* the version each core was built with; never changes
  phase,    \* of an end: idle, up, closing (descriptor closed), freed
  end,      \* the STATE of an end; its last value once freed
  net,      \* the messages in flight to an end
  posted    \* the tokens an end has put in its core's map_sync_pipe

vars == <<version, phase, end, net, posted>>

Init ==
  /\ version \in [Ends -> Versions]
  /\ phase  = [e \in Ends |-> "idle"]
  /\ end    = [e \in Ends |-> NewEnd]
  /\ net    = [e \in Ends |-> <<>>]
  /\ posted = [e \in Ends |-> 0]

-----------------------------------------------------------------------------
(* The transport. *)

Drop(q, i) == SubSeq(q, 1, i - 1) \o SubSeq(q, i + 1, Len(q))

\* The messages of end e that a receive may return next.
Deliverable(e) == IF "reorder" \in Faults[e] THEN DOMAIN net[e]
                  ELSE DOMAIN net[e] \cap {1}

\* The queue to p after a send: a message to a socket that is gone is lost.
Sent(p, msgs) == IF phase[p] \in {"closing", "freed"} THEN net[p] ELSE net[p] \o msgs

\* End e takes message i from its queue and its handler has effect f.
Take(e, i, f) ==
  /\ end' = [end EXCEPT ![e] = f.end]
  /\ net' = [net EXCEPT ![e] = Drop(@, i), ![Peer[e]] = Sent(Peer[e], f.out)]
  /\ posted' = [posted EXCEPT ![e] = @ + f.posts]
  /\ UNCHANGED version

-----------------------------------------------------------------------------
(* The callbacks. *)

\* core_on_connect for a bridge module, in the thread that connected (a client)
\* or accepted (a server).
Connect(e) ==
  /\ phase[e] = "idle"
  /\ e \in Clients \/ phase[Peer[e]] # "idle"
  /\ phase' = [phase EXCEPT ![e] = "up"]
  /\ end' = [end EXCEPT ![e] = NewEnd]
  /\ net' = [net EXCEPT ![Peer[e]] = Sent(Peer[e], <<Msg("HELLO", version[e])>>)]
  /\ UNCHANGED <<version, posted>>

\* The receive thread of e is not in the middle of a handler.
Listens(e) == phase[e] = "up" /\ end[e].late = "none"

\* Message i of the queue to e is of this type and e's dispatch handles it.
Receives(e, i, type) ==
  /\ Listens(e)
  /\ i \in Deliverable(e)
  /\ net[e][i].type = type
  /\ Handles(end[e], type)

RecvHello(e, i) ==
  /\ Receives(e, i, "HELLO")
  /\ Take(e, i, CoreProtoHello(end[e], HelloCode(version[e], net[e][i].arg)))
  /\ UNCHANGED phase

RecvHelloAck(e, i) ==
  /\ Receives(e, i, "HELLO_ACK")
  /\ Take(e, i, CoreProtoHelloAck(end[e], net[e][i].arg))
  /\ UNCHANGED phase

\* Without access modules every peer is accepted.
Verdicts(e) == IF e \in Guarded THEN BOOLEAN ELSE {TRUE}

RecvAuth(e, i, accept) ==
  /\ Receives(e, i, "AUTH")
  /\ Take(e, i, CoreProtoCheckAuth(end[e], accept))
  /\ UNCHANGED phase

\* With access modules core_proto_check_auth posts its token before it sends
\* AUTH_ACK: the core_map it wakes may send its MAP first.  Only where messages
\* are reordered does AUTH come after AUTH_ACK, and so post the token.
RecvAuthOvertaken(e, i) ==
  LET f == CoreProtoCheckAuth(end[e], TRUE)
      g == CoreProtoMapTo(f.end)
  IN  /\ e \in Clients \cap Guarded
      /\ ~ end[e].lep
      /\ end[e].st = "AUTH_2"
      /\ Receives(e, i, "AUTH")
      /\ Take(e, i, Effect(g.end, g.out \o f.out, f.posts))
      /\ UNCHANGED phase

\* What the handlers do that write the state of a client.
Handler(e, m, accept) ==
  CASE m.type = "HELLO"     -> CoreProtoHello(end[e], HelloCode(version[e], m.arg))
    [] m.type = "HELLO_ACK" -> CoreProtoHelloAck(end[e], m.arg)
    [] m.type = "AUTH"      -> CoreProtoCheckAuth(end[e], accept)
    [] m.type = "AUTH_ACK"  -> CoreProtoCheckAuthAck(end[e], m.arg)

\* A core_map whose wait has ended too early runs core_proto_map_to while the
\* handler is at work.  If that writes MAP_ACK before the handler looks at the
\* state, the handler leaves it alone and posts no token; if after the handler
\* has written, MAP_ACK stays; if in between, the handler's write is still to
\* come.  (Nobody looks at the state meanwhile, so what the handler sends and
\* posts may as well come before that write.)  The MAP goes before or after what
\* the handler sends, but for the AUTH_ACK of a core without access modules,
\* which is sent before the handler looks.
RecvOvertaken(e, i, accept) ==
  LET m     == net[e][i]
      f     == Handler(e, m, accept)
      g     == CoreProtoMapTo(f.end)
      mixed == {f.out \o g.out, g.out \o f.out}
      after == IF m.type = "AUTH" /\ e \notin Guarded THEN {f.out \o g.out} ELSE mixed
  IN  /\ e \in Clients
      /\ ~ end[e].lep
      /\ m.type \in {"HELLO", "HELLO_ACK", "AUTH", "AUTH_ACK"}
      /\ Receives(e, i, m.type)
      /\ \/ \E out \in mixed : Take(e, i, Effect(g.end, out, 0))
         \/ \E out \in after : Take(e, i, Effect(g.end, out, f.posts))
         \/ /\ f.end.st # end[e].st
            /\ \E out \in after :
                 Take(e, i, Effect([g.end EXCEPT !.late = f.end.st], out, f.posts))
      /\ phase' = IF m.type = "AUTH_ACK" /\ m.arg # Ok
                  THEN [phase EXCEPT ![e] = "closing"] ELSE phase

\* The handler that was overtaken writes the state it meant to write.
LateWrite(e) ==
  /\ end[e].late # "none"
  /\ end' = [end EXCEPT ![e] = [@ EXCEPT !.st = end[e].late, !.late = "none"]]
  /\ UNCHANGED <<version, phase, net, posted>>

\* Mutant: a refused end keeps its connection.
RecvAuthAckKept(e, i) ==
  /\ Receives(e, i, "AUTH_ACK")
  /\ Take(e, i, CoreProtoCheckAuthAck(end[e], net[e][i].arg))
  /\ UNCHANGED phase

\* A refused end closes its descriptor; its thread notices at the next receive.
RecvAuthAck(e, i) ==
  /\ Receives(e, i, "AUTH_ACK")
  /\ Take(e, i, CoreProtoCheckAuthAck(end[e], net[e][i].arg))
  /\ phase' = IF net[e][i].arg = Ok THEN phase
              ELSE [phase EXCEPT ![e] = "closing"]

RecvMap(e, i, found) ==
  /\ Receives(e, i, "MAP")
  /\ Take(e, i, CoreProtoMap(end[e], found))
  /\ UNCHANGED phase

RecvMapAck(e, i) ==
  /\ Receives(e, i, "MAP_ACK")
  /\ Take(e, i, CoreProtoMapAck(end[e], net[e][i].arg))
  /\ UNCHANGED phase

\* A message no handler takes in this state is forgotten.
Ignore(e, i) ==
  /\ Listens(e)
  /\ i \in Deliverable(e)
  /\ ~ Handles(end[e], net[e][i].type)
  /\ Take(e, i, Effect(IF end[e].handler = "proto" /\ net[e][i].type \in {"AUTH", "AUTH_ACK"}
                       THEN HandOver(end[e]) ELSE end[e], <<>>, 0))
  /\ UNCHANGED phase

\* core_proto_map_to on the STATE of a connection.  On a closed descriptor the
\* MAP is not sent, and nobody notices.
SendMap(e) ==
  LET f == CoreProtoMapTo(end[e])
  IN  /\ phase[e] \in {"up", "closing"}
      /\ end' = [end EXCEPT ![e] = f.end]
      /\ net' = IF phase[e] = "up"
                THEN [net EXCEPT ![Peer[e]] = Sent(Peer[e], f.out)]
                ELSE net
      /\ UNCHANGED <<version, phase, posted>>

\* core_map sends its MAP once on the connection it opened, when its second
\* wait is over, whatever ended it.
MapTo(e) ==
  /\ e \in Clients
  /\ ~ end[e].lep
  /\ Impatient \/ end[e].st = "MAP"
  /\ SendMap(e)

\* core_on_disconnect frees the STATE; what was in flight to the end is lost.
Freed(e) ==
  /\ phase' = [phase EXCEPT ![e] = "freed"]
  /\ net' = [net EXCEPT ![e] = <<>>]
  /\ UNCHANGED <<version, end, posted>>

\* The receive thread of e finds its descriptor closed or its peer gone; a
\* peer that closed with data unread resets the connection, so e may not get
\* to read all that was sent to it.
Disconnect(e) ==
  /\ \/ phase[e] = "closing"
     \/ Listens(e) /\ phase[Peer[e]] \in {"closing", "freed"}
  /\ Freed(e)

Break(e) ==
  /\ "break" \in Faults[e]
  /\ Listens(e)
  /\ Freed(e)

Lose(e) ==
  /\ "lose" \in Faults[e]
  /\ \E i \in DOMAIN net[e] : net' = [net EXCEPT ![e] = Drop(@, i)]
  /\ UNCHANGED <<version, phase, end, posted>>

Duplicate(e) ==
  /\ "duplicate" \in Faults[e]
  /\ Len(net[e]) + Len(net[Peer[e]]) < MaxNet
  /\ \E i \in DOMAIN net[e] : net' = [net EXCEPT ![e] = Append(@, net[e][i])]
  /\ UNCHANGED <<version, phase, end, posted>>

\* core_proto_map_to in the middle of a handler: always where the handler's own
\* token can end the wait, anywhere if waits end too early.
Overtake(e) ==
  \E i \in DOMAIN net[e] :
    \/ RecvAuthOvertaken(e, i)
    \/ Impatient /\ \E accept \in Verdicts(e) : RecvOvertaken(e, i, accept)

Receive(e) ==
  \E i \in DOMAIN net[e] :
    \/ RecvHello(e, i)
    \/ RecvHelloAck(e, i)
    \/ \E accept \in Verdicts(e) : RecvAuth(e, i, accept)
    \/ RecvAuthAck(e, i)
    \/ \E found \in BOOLEAN : RecvMap(e, i, found)
    \/ RecvMapAck(e, i)
    \/ Ignore(e, i)

Next ==
  \E e \in Ends :
    \/ Connect(e)
    \/ Receive(e)
    \/ MapTo(e)
    \/ Overtake(e)
    \/ LateWrite(e)
    \/ Disconnect(e)
    \/ Break(e)
    \/ Lose(e)
    \/ Duplicate(e)

Spec == Init /\ [][Next]_vars

\* The receive and accept threads keep running, and core_map, woken by the
\* second token, sends its MAP.  Nothing makes a client connect but core_map,
\* and nothing makes the transport fail.
Fairness ==
  \A e \in Ends :
    /\ WF_vars(e \notin Clients /\ Connect(e))
    /\ WF_vars(Receive(e) \/ LateWrite(e))
    /\ WF_vars(MapTo(e))
    /\ WF_vars(Disconnect(e))

FairSpec == Spec /\ Fairness

-----------------------------------------------------------------------------
(* Properties. *)

Message == [type : {"HELLO"}, arg : Versions] \cup
           [type : MsgTypes \ {"HELLO"}, arg : Codes]

\* Every variable has its type.
TypeOK ==
  /\ version \in [Ends -> Versions]
  /\ phase \in [Ends -> {"idle", "up", "closing", "freed"}]
  /\ end \in [Ends -> EndRecord]
  /\ net \in [Ends -> Seq(Message)]
  /\ posted \in [Ends -> Nat]

\* A connection is handed to core_on_message, which takes MAP and endpoint
\* traffic, only when each end has accepted the other's credentials: an
\* acknowledgement is never believed that the peer did not give.
MutualAuthentication ==
  \A e \in Ends : end[e].handler = "ext" =>
    end[e].isAuth /\ end[e].amAuth /\ end[Peer[e]].isAuth

\* Cores of different versions never authenticate each other, although
\* core_proto_hello_ack sends the credentials even after a negative HELLO_ACK.
VersionGate ==
  \A e \in Ends : end[e].isAuth => version[e] = version[Peer[e]]

\* What a client learns from MAP_ACK is what happened at its server: it is
\* mapped only to a server that is mapped, and a failure carries the server's
\* reason.
ClientAgreesWithServer ==
  \A e \in Clients :
    /\ end[e].st = "EXT_MSG" => end[Peer[e]].st = "EXT_MSG"
    /\ end[e].st = "BAD" => /\ end[Peer[e]].st = "BAD"
                            /\ end[e].flag = end[Peer[e]].flag

Ordered(e) ==
  \A d \in {e, Peer[e]} : Faults[d] \cap {"lose", "reorder", "duplicate"} = {}

\* On an ordered transport no message of two cores of one version finds its
\* receiver in a state that ignores it.  Nothing is ever sent again, so a
\* single ignored message would stall the connection.
NothingIgnored ==
  ~ Impatient =>
    \A e \in Ends :
      /\ Ordered(e) /\ version[e] = version[Peer[e]]
      /\ phase[e] = "up" /\ net[e] # <<>>
      => Handles(end[e], Head(net[e]).type)

\* The states in the order the protocol goes through them.
Rank(st) ==
  CASE st = "HELLO_S"                     -> 0
    [] st \in {"HELLO_ACK_S", "HELLO_2"} -> 1
    [] st = "AUTH"                        -> 2
    [] st \in {"AUTH_ACK", "AUTH_2"}     -> 3
    [] st = "MAP"                         -> 4
    [] st = "MAP_ACK"                     -> 5
    [] OTHER                              -> 6

\* However messages are delayed, duplicated or reordered, no end unlearns an
\* authentication, leaves the state its MAP ended in, or goes back to an earlier
\* state of the protocol, but for one case: core_map has sent MAP in the middle
\* of a handler.  Then that handler takes MAP_ACK back, and still to a later
\* state than the one in which it began.
NeverBack ==
  [][\A e \in Ends :
       /\ \/ Rank(end[e].st) <= Rank(end'[e].st)
          \/ end[e].st = "MAP_ACK" /\ end'[e].st = end[e].late
       /\ end'[e].late \notin {"none", end[e].late} =>
            /\ ~ end[e].lep /\ end'[e].lep
            /\ Rank(end[e].st) < Rank(end'[e].late)
       /\ Rank(end[e].st) = 6 => end'[e].st = end[e].st
       /\ end[e].isAuth => end'[e].isAuth
       /\ end[e].amAuth => end'[e].amAuth]_vars

\* A connection of two cores of one version settles on both ends: the MAP is
\* answered or, one of them having refused the other, the STATE is freed.
Settles ==
  \A e \in Ends :
    phase[e] = "up" /\ version[e] = version[Peer[e]]
      ~> phase[e] = "freed" \/ end[e].st \in {"EXT_MSG", "BAD"}

-----------------------------------------------------------------------------
(* The inductive invariant: what each message in flight says is true of its *)
(* sender, and stays true of it.                                            *)

SameVersion(e) == version[e] = version[Peer[e]]

Honest(e, m) ==
  /\ m.type = "HELLO" => m.arg = version[Peer[e]]
  /\ m.type = "HELLO_ACK" /\ m.arg = Ok => SameVersion(e)
  /\ m.type = "AUTH_ACK" /\ m.arg = Ok => end[Peer[e]].isAuth
  /\ m.type = "MAP" => e \notin Clients
  /\ m.type = "MAP_ACK" /\ e \in Clients =>
       IF m.arg = Ok THEN end[Peer[e]].st = "EXT_MSG"
       ELSE end[Peer[e]].st = "BAD" /\ end[Peer[e]].flag = m.arg

NetHonest == \A e \in Ends : \A i \in DOMAIN net[e] : Honest(e, net[e][i])

Greeted == {"HELLO_ACK_S", "HELLO_2", "AUTH", "AUTH_ACK", "AUTH_2"}

\* What an end is relates to what its peer is.
EndInv(e) ==
  /\ phase[e] = "idle" => end[e] = NewEnd
  /\ end[e].st \in Greeted => SameVersion(e)
  /\ end[e].isAuth => SameVersion(e)
  /\ end[e].amAuth => end[Peer[e]].isAuth
  /\ end[e].handler = "ext" <=> end[e].isAuth /\ end[e].amAuth
  /\ end[e].st \in {"EXT_MSG", "BAD"} => end[e].handler = "ext"
  /\ end[e].st = "MAP_ACK" => end[e].lep
  /\ e \in Clients /\ ~ end[e].lep => end[e].st \notin {"EXT_MSG", "BAD"}
  /\ e \in Clients /\ end[e].st = "EXT_MSG" => end[Peer[e]].st = "EXT_MSG"
  /\ e \in Clients /\ end[e].st = "BAD" => /\ end[Peer[e]].st = "BAD"
                                           /\ end[e].flag = end[Peer[e]].flag
  /\ end[e].late # "none" =>
       /\ e \in Clients /\ phase[e] = "up"
       /\ end[e].st = "MAP_ACK" /\ end[e].late \in Greeted \cup {"MAP"}
       /\ end[e].late \in Greeted => SameVersion(e)

\* No message and no state of an end claims of the peer what is not so.
IInv == NetHonest /\ \A e \in Ends : EndInv(e)

-----------------------------------------------------------------------------
(* What the connection promises, as the abstract specification states it. *)

Vouched == {e \in Ends : end[e].isAuth}

Stage ==
  [e \in Ends |->
     IF phase[e] = "freed" THEN "gone"
     ELSE IF end[e].handler = "proto" THEN "closed"
     ELSE IF end[e].st = "EXT_MSG" THEN "mapped"
     ELSE "open"]

Session == INSTANCE AuthSession WITH vouched <- Vouched, stage <- Stage

\* The handshake implements the authenticated session.
SessionSpec == Session!Spec
=============================================================================
