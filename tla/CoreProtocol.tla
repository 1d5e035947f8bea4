---------------------------- MODULE CoreProtocol ----------------------------
(***************************************************************************)
(* One end of a connection between two cores: the fields of STATE          *)
(* (src/core/state.h) the connection protocol reads, and the handlers of   *)
(* src/core/protocol.c as operators.  A handler maps the end it runs on    *)
(* and the message it is given to its effect: the new end, the messages    *)
(* it sends on the connection, and how many tokens it puts in the core's   *)
(* map_sync_pipe for a waiting core_map.                                   *)
(*                                                                         *)
(* A message is its type and the one value a handler looks at: the version *)
(* a HELLO carries, the code of an acknowledgement, Ok otherwise.          *)
(***************************************************************************)
EXTENDS Integers, Sequences

Ok            == 0
WrongVersion  == -1     \* json_validate_hello, versions differ
AuthRefused   == -3     \* core_proto_check_auth, no credential accepted
EP_NO_EXIST   == 1      \* core_proto_map, no endpoint matches the query

Codes == {Ok, WrongVersion, AuthRefused, EP_NO_EXIST}

ConnStates == {"BAD", "HELLO_S", "HELLO_ACK_S", "HELLO_2", "AUTH", "AUTH_ACK",
               "AUTH_2", "MAP", "MAP_ACK", "EXT_MSG"}

MsgTypes == {"HELLO", "HELLO_ACK", "AUTH", "AUTH_ACK", "MAP", "MAP_ACK"}

Msg(type, arg) == [type |-> type, arg |-> arg]

\* The end of a connection.  lep is whether a local endpoint is attached.  late
\* is not in STATE: it is what a handler is about to write to st, if core_map has
\* written there since the handler looked.
EndRecord == [st      : ConnStates,
              isAuth  : BOOLEAN,           \* the peer's credentials were accepted
              amAuth  : BOOLEAN,           \* the peer accepted ours
              handler : {"proto", "ext"},  \* on_message
              lep     : BOOLEAN,
              flag    : Codes,
              late    : ConnStates \cup {"none"}]

NewEnd == [st |-> "HELLO_S", isAuth |-> FALSE, amAuth |-> FALSE,
           handler |-> "proto", lep |-> FALSE, flag |-> Ok,
           late |-> "none"]

Effect(s, out, posts) == [end |-> s, out |-> out, posts |-> posts]

-----------------------------------------------------------------------------
(* The dispatch. *)

\* core_on_proto_message, core_on_message: the states in which a message
\* reaches its handler.
HandledIn ==
  [HELLO     |-> {"HELLO_S", "HELLO_2"},
   HELLO_ACK |-> {"HELLO_S", "HELLO_ACK_S"},
   AUTH      |-> {"AUTH", "AUTH_2"},
   AUTH_ACK  |-> {"AUTH", "AUTH_ACK"},
   MAP       |-> {"MAP"},
   MAP_ACK   |-> {"MAP_ACK"}]

Dispatcher(type) == IF type \in {"MAP", "MAP_ACK"} THEN "ext" ELSE "proto"

\* Mutant: a HELLO is handled in every state.
HandlesHelloAlways(s, type) ==
  s.handler = Dispatcher(type) /\ (type = "HELLO" \/ s.st \in HandledIn[type])

Handles(s, type) == s.handler = Dispatcher(type) /\ s.st \in HandledIn[type]

\* Mutant: one accepted credential is enough.
HandOverEarly(s) == IF s.isAuth THEN [s EXCEPT !.handler = "ext"] ELSE s

\* After AUTH and AUTH_ACK, handled or not, core_on_proto_message hands the
\* connection over to core_on_message once both sides are authenticated.
HandOver(s) == IF s.isAuth /\ s.amAuth THEN [s EXCEPT !.handler = "ext"] ELSE s

-----------------------------------------------------------------------------
(* The handlers. *)

\* Mutant: the versions are not compared.
HelloCodeUnchecked(own, theirs) == Ok

HelloCode(own, theirs) == IF own = theirs THEN Ok ELSE WrongVersion

\* Mutant: each HELLO posts a token, the first included.
CoreProtoHelloEager(s, code) ==
  Effect(CASE code # Ok        -> s
           [] s.st = "HELLO_2" -> [s EXCEPT !.st = "AUTH"]
           [] OTHER            -> [s EXCEPT !.st = "HELLO_ACK_S"],
         <<Msg("HELLO_ACK", code)>>, 1)

CoreProtoHello(s, code) ==
  LET toAuth == code = Ok /\ s.st = "HELLO_2"
  IN  Effect(CASE code # Ok         -> s
               [] toAuth            -> [s EXCEPT !.st = "AUTH"]
               [] OTHER             -> [s EXCEPT !.st = "HELLO_ACK_S"],
             <<Msg("HELLO_ACK", code)>>,
             IF toAuth THEN 1 ELSE 0)

\* Mutant: the second of HELLO and HELLO_ACK is taken for the first.
CoreProtoHelloAckFirst(s, code) ==
  Effect(IF code = Ok THEN [s EXCEPT !.st = "HELLO_2"] ELSE s, <<Msg("AUTH", Ok)>>, 0)

\* The credentials are sent whatever the code says.
CoreProtoHelloAck(s, code) ==
  LET toAuth == code = Ok /\ s.st = "HELLO_ACK_S"
  IN  Effect(CASE code # Ok         -> s
               [] toAuth            -> [s EXCEPT !.st = "AUTH"]
               [] OTHER             -> [s EXCEPT !.st = "HELLO_2"],
             <<Msg("AUTH", Ok)>>,
             IF toAuth THEN 1 ELSE 0)

\* accept: no access module is loaded, or one of them authenticates a credential.
CoreProtoCheckAuth(s, accept) ==
  LET known == s.isAuth \/ accept
      toMap == known /\ s.st = "AUTH_2"
      t     == [s EXCEPT !.isAuth = known,
                         !.st = CASE toMap                     -> "MAP"
                                  [] known /\ s.st = "AUTH"    -> "AUTH_ACK"
                                  [] OTHER                     -> s.st]
  IN  Effect(HandOver(t),
             <<Msg("AUTH_ACK", IF known THEN Ok ELSE AuthRefused)>>,
             IF toMap THEN 1 ELSE 0)

\* The handler of a positive acknowledgement; on a negative one it closes the
\* connection and leaves the state alone.
CoreProtoCheckAuthAck(s, code) ==
  LET toMap == code = Ok /\ s.st = "AUTH_ACK"
      t     == [s EXCEPT !.amAuth = TRUE,
                         !.st = IF toMap THEN "MAP" ELSE "AUTH_2"]
  IN  Effect(HandOver(IF code = Ok THEN t ELSE s), <<>>, IF toMap THEN 1 ELSE 0)

\* Called by core_map, not by a message: no guard on the state.
CoreProtoMapTo(s) ==
  Effect([s EXCEPT !.lep = TRUE, !.st = "MAP_ACK"], <<Msg("MAP", Ok)>>, 0)

\* Mutant: the acknowledgement does not carry the failure.
CoreProtoMapBlind(s, found) ==
  Effect(IF found THEN [s EXCEPT !.lep = TRUE, !.st = "EXT_MSG"]
                  ELSE [s EXCEPT !.st = "BAD", !.flag = EP_NO_EXIST],
         <<Msg("MAP_ACK", Ok)>>, 0)

\* found: endpoint_query returned an endpoint.
CoreProtoMap(s, found) ==
  LET code == IF found THEN Ok ELSE EP_NO_EXIST
  IN  Effect(IF found
             THEN [s EXCEPT !.lep = TRUE, !.st = "EXT_MSG", !.flag = code]
             ELSE [s EXCEPT !.st = "BAD", !.flag = code],
             <<Msg("MAP_ACK", code)>>, 0)

CoreProtoMapAck(s, code) ==
  CASE code # Ok            -> Effect([s EXCEPT !.st = "BAD", !.flag = code], <<>>, 1)
    [] code = Ok /\ s.lep   -> Effect([s EXCEPT !.st = "EXT_MSG"], <<>>, 1)
    [] code = Ok /\ ~ s.lep -> Effect(s, <<>>, 0)
=============================================================================
